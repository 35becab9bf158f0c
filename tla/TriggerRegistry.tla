---------------------------- MODULE TriggerRegistry ----------------------------
(***************************************************************************)
(* Which triggers run.  The rows of tb_trigger say what is wanted; every   *)
(* worker process has a registry of the instances it has started, a cron   *)
(* instance puts a job into a store that all workers share, and a          *)
(* file-watch instance runs a task.  The administration changes a row and  *)
(* then the registry of the worker that got the request; the lifespan of a *)
(* worker loads and stops all of them, and its heartbeat loads and stops   *)
(* those that only a leader runs.                                          *)
(*                                                                         *)
(* A request blocks the event loop of its worker except where it awaits    *)
(* the task of a file watcher it has stopped; between two statements the   *)
(* worker may be killed.  Who leads is TriggerLeader's matter: a heartbeat *)
(* gets any answer here.                                                   *)
(***************************************************************************)
EXTENDS Naturals, FiniteSets

CONSTANTS
  Workers,        \* worker processes, one registry each
  Triggers,       \* trigger_ids
  Configs,        \* records [type, starts]: whether an instance of it starts
  Requests,       \* requests to the administration that run at once
  None,
  MaxRequests, MaxBeats, MaxRestarts, MaxFaults

ASSUME RegistryAssumption ==
  /\ \A c \in Configs : c.type \in {"cron", "webhook", "file_watch"} /\ c.starts \in BOOLEAN
  /\ IsFiniteSet(Triggers)
  /\ None \notin Configs \cup Triggers \cup Workers \cup [config : Configs, n : Nat]
  /\ Requests \cap Workers = {}
  /\ MaxRequests \in Nat /\ MaxBeats \in Nat /\ MaxRestarts \in Nat /\ MaxFaults \in Nat

VARIABLES
  row,            \* tb_trigger: state, enabled, config
  jobs,           \* the job store: the config of the job of each trigger
  up,             \* workers that have started
  led,            \* was_leader of each worker's heartbeat
  reg,            \* the registries: [config, n] for each trigger, n telling
                  \* apart the instances of a file watcher
  watching,       \* the watch tasks of each worker: <<trigger, instance>>
  op,             \* what each request, and the lifespan of each worker, does
  missed,         \* enabled by a row, but not registered since: created so, or
                  \* unloaded although they had turned cron meanwhile
  overlaid,       \* history: registered over an instance that was not stopped
  torn,           \* history: a worker was killed between the row and the rest
  lost,           \* history: a statement on the row failed
  requests, beats, restarts, faults

vars == <<row, jobs, up, led, reg, watching, op, missed, overlaid, torn, lost, requests, beats, restarts, faults>>

runtime == <<jobs, reg, watching, overlaid, missed>>
counts  == <<requests, beats, restarts, faults>>

Idle == [kind |-> "idle", at |-> None, step |-> "idle", t |-> None, config |-> None, ids |-> {}]

\* The event loop of a worker runs one handler until it awaits a watch task.
Free(w) == \A h \in DOMAIN op : op[h].at = w => op[h].step = "await"

Wanted(t) == row[t].state = "live" /\ row[t].enabled

\* A statement fails, which the repository turns into "nothing there".
Fails(ids) ==
  /\ faults < MaxFaults /\ faults' = faults + 1
  /\ lost' = lost \cup ids

Write(t, field, value) ==
  \/ row' = [row EXCEPT ![t][field] = value] /\ UNCHANGED <<lost, faults>>
  \/ Fails({t}) /\ UNCHANGED row

-----------------------------------------------------------------------------
(* The registry of a worker.                                               *)

Known(w) == {t \in Triggers : reg[w][t] # None}

NonCron(w) == {t \in Known(w) : reg[w][t].config.type # "cron"}

\* A number that no other instance of the trigger has.
Number(w, t) == CHOOSE n \in 1..Cardinality(watching[w]) + 1 : <<t, n>> \notin watching[w]

\* Mutant: what does not start is registered too.
RegisteringAll(w, ids, config) ==
  /\ reg' = [reg EXCEPT ![w] = [t \in Triggers |-> IF t \in ids THEN [config |-> config[t], n |-> Number(w, t)] ELSE @[t]]]
  /\ UNCHANGED <<jobs, watching, overlaid, missed>>

\* register, for a set of triggers with their configurations: what starts
\* replaces what is in the registry, without a look at it.
Registering(w, ids, config) ==
  LET ok == {t \in ids : config[t].starts}
  IN /\ reg' = [reg EXCEPT ![w] = [t \in Triggers |->
                  IF t \in ok THEN [config |-> config[t], n |-> Number(w, t)] ELSE @[t]]]
     /\ jobs' = [t \in Triggers |-> IF t \in ok /\ config[t].type = "cron" THEN config[t] ELSE jobs[t]]
     /\ watching' = [watching EXCEPT ![w] =
                       @ \cup {<<t, Number(w, t)>> : t \in {u \in ok : config[u].type = "file_watch"}}]
     /\ overlaid' = overlaid \cup (ok \cap NonCron(w))
     /\ missed' = missed \ ids

Current == [t \in Triggers |-> row[t].config]

\* Mutant: the job stays.
StoppedJobless(w, t) ==
  /\ reg' = [reg EXCEPT ![w][t] = None]
  /\ watching' = IF t \in Known(w) THEN [watching EXCEPT ![w] = @ \ {<<t, reg[w][t].n>>}] ELSE watching
  /\ UNCHANGED <<jobs, overlaid>>

\* Mutant: the watch task goes on.
StoppedNot(w, t) ==
  /\ reg' = [reg EXCEPT ![w][t] = None]
  /\ jobs' = IF t \in Known(w) /\ reg[w][t].config.type = "cron" THEN [jobs EXCEPT ![t] = None] ELSE jobs
  /\ UNCHANGED <<watching, overlaid>>

\* unregister: out of the registry, and stopped.
Stopped(w, t) ==
  /\ reg' = [reg EXCEPT ![w][t] = None]
  /\ jobs' = IF t \in Known(w) /\ reg[w][t].config.type = "cron" THEN [jobs EXCEPT ![t] = None] ELSE jobs
  /\ watching' = IF t \in Known(w) THEN [watching EXCEPT ![w] = @ \ {<<t, reg[w][t].n>>}] ELSE watching
  /\ UNCHANGED overlaid

\* Whether stop awaits the task it cancels.
Awaits(w, t) == t \in Known(w) /\ reg[w][t].config.type = "file_watch" /\ <<t, reg[w][t].n>> \in watching[w]

-----------------------------------------------------------------------------
(* The administration.  A request reads the row, writes it, and then goes  *)
(* to the registry.                                                        *)

Create(t, c, enabled) ==
  /\ requests < MaxRequests /\ requests' = requests + 1
  /\ \E w \in up : Free(w)
  /\ row[t].state = "none"
  /\ row' = [row EXCEPT ![t] = [state |-> "live", enabled |-> enabled, config |-> c]]
  /\ missed' = IF enabled THEN missed \cup {t} ELSE missed
  /\ UNCHANGED <<jobs, up, led, reg, watching, op, overlaid, torn, lost, beats, restarts, faults>>

\* delete reads nothing, and deletes a row that is deleted already.
Request(h, w, kind, t, c) ==
  /\ requests < MaxRequests /\ requests' = requests + 1
  /\ op[h] = Idle /\ w \in up /\ Free(w) /\ op[w].kind \notin {"boot", "shutdown"}
  /\ row[t].state = "live" \/ (kind = "delete" /\ row[t].state = "deleted")
  /\ op' = [op EXCEPT ![h] = [Idle EXCEPT !.kind = kind, !.at = w, !.step = "write", !.t = t,
                                          !.config = IF kind = "update" THEN c ELSE row[t].config]]
  /\ UNCHANGED <<row, runtime, up, led, torn, lost, beats, restarts, faults>>

WriteRow(h) ==
  /\ op[h].step = "write"
  /\ CASE op[h].kind = "update"  -> Write(op[h].t, "config", op[h].config)
       [] op[h].kind = "enable"  -> Write(op[h].t, "enabled", TRUE)
       [] op[h].kind = "disable" -> Write(op[h].t, "enabled", FALSE)
       [] op[h].kind = "delete"  -> Write(op[h].t, "state", "deleted")
  /\ op' = [op EXCEPT ![h] = IF @.kind = "delete" /\ faults' # faults THEN Idle
                             ELSE [@ EXCEPT !.step = IF op[h].kind = "enable" THEN "register" ELSE "stop"]]
  /\ UNCHANGED <<runtime, up, led, torn, requests, beats, restarts>>

\* enable registers the configuration it read before it wrote the row.
Enable(h) ==
  /\ op[h].step = "register"
  /\ Registering(op[h].at, {op[h].t}, [t \in Triggers |-> op[h].config])
  /\ op' = [op EXCEPT ![h] = Idle]
  /\ UNCHANGED <<row, up, led, torn, lost, counts>>

\* After the stop, a reload reads the row; the others are done.
Go(o) == IF o.kind = "update" THEN [o EXCEPT !.step = "fetch"] ELSE Idle

StopOne(h) ==
  /\ op[h].step = "stop" /\ op[h].kind \in {"update", "disable", "delete"}
  /\ Stopped(op[h].at, op[h].t)
  /\ op' = [op EXCEPT ![h] = IF Awaits(op[h].at, op[h].t) THEN [@ EXCEPT !.step = "await"] ELSE Go(@)]
  /\ UNCHANGED <<row, up, led, missed, torn, lost, counts>>

\* Mutant: the reload does not ask whether the trigger is still enabled.
RegisterAnyway(h) ==
  IF row[op[h].t].state = "live" THEN Registering(op[h].at, {op[h].t}, Current)
  ELSE UNCHANGED runtime

RegisterWanted(h) ==
  IF Wanted(op[h].t) THEN Registering(op[h].at, {op[h].t}, Current) ELSE UNCHANGED runtime

\* The second half of reload; a row that cannot be read is one that is gone.
Fetch(h) ==
  /\ op[h].step = "fetch"
  /\ \/ RegisterWanted(h) /\ UNCHANGED <<lost, faults>>
     \/ Fails({op[h].t}) /\ UNCHANGED runtime
  /\ op' = [op EXCEPT ![h] = Idle]
  /\ UNCHANGED <<row, up, led, torn, requests, beats, restarts>>

\* The cancelled watch task has ended.
Resume(h) ==
  /\ op[h].step = "await" /\ Free(op[h].at)
  /\ op' = [op EXCEPT ![h] = IF @.kind \in {"unload", "shutdown"} THEN [@ EXCEPT !.step = "stop"] ELSE Go(@)]
  /\ UNCHANGED <<row, runtime, up, led, torn, lost, counts>>

-----------------------------------------------------------------------------
(* The heartbeat of a worker.                                              *)

\* Mutant: the comparison of the type is turned round.
MissingCron(w) == {t \in Triggers : Wanted(t) /\ row[t].config.type = "cron" /\ t \notin Known(w)}

Missing(w) == {t \in Triggers : Wanted(t) /\ row[t].config.type # "cron" /\ t \notin Known(w)}

Beat(w) ==
  /\ beats < MaxBeats /\ beats' = beats + 1
  /\ w \in up /\ Free(w) /\ op[w] = Idle
  /\ IF led[w]
     THEN /\ op' = [op EXCEPT ![w] = [Idle EXCEPT !.kind = "unload", !.at = w, !.step = "stop", !.ids = NonCron(w)]]
          /\ UNCHANGED <<led, runtime, lost, faults>>
     ELSE /\ led' = [led EXCEPT ![w] = TRUE]
          /\ \/ Registering(w, Missing(w), Current) /\ UNCHANGED <<lost, faults>>
             \/ Fails(Missing(w)) /\ UNCHANGED runtime
          /\ UNCHANGED op
  /\ UNCHANGED <<row, up, torn, requests, restarts>>

TurnedCron(w, t) == op[w].kind = "unload" /\ t \in Known(w) /\ reg[w][t].config.type = "cron"

\* The loops of _unload_non_cron_triggers and of shutdown, over the ids that
\* were registered when they began.
StopNext(w) ==
  /\ op[w].step = "stop" /\ op[w].kind \in {"unload", "shutdown"}
  /\ \E t \in op[w].ids :
        /\ Stopped(w, t)
        /\ missed' = IF TurnedCron(w, t) THEN missed \cup {t} ELSE missed
        /\ op' = [op EXCEPT ![w].ids = @ \ {t}, ![w].step = IF Awaits(w, t) THEN "await" ELSE "stop"]
  /\ UNCHANGED <<row, up, led, torn, lost, counts>>

StoppedAll(w) ==
  /\ op[w].step = "stop" /\ op[w].ids = {} /\ op[w].kind \in {"unload", "shutdown"}
  /\ op' = [op EXCEPT ![w] = Idle]
  /\ led' = [led EXCEPT ![w] = FALSE]
  /\ IF op[w].kind = "unload" THEN UNCHANGED <<up, reg, watching>>
     ELSE /\ up' = up \ {w}
          /\ watching' = [watching EXCEPT ![w] = {}]
          /\ UNCHANGED reg
  /\ UNCHANGED <<row, jobs, overlaid, missed, torn, lost, counts>>

-----------------------------------------------------------------------------
(* Workers start, end, and are killed; a watch task may fail.              *)

Listed(won) == {t \in Triggers : Wanted(t) /\ (won \/ row[t].config.type = "cron")}

\* load_from_db lists the rows.
Start(w) ==
  /\ w \notin up /\ op[w] = Idle
  /\ \E won \in BOOLEAN :
        /\ led' = [led EXCEPT ![w] = won]
        /\ \E ids \in {Listed(won), {}} :
              /\ op' = [op EXCEPT ![w] = [Idle EXCEPT !.kind = "boot", !.at = w, !.step = "load",
                                                      !.config = Current, !.ids = ids]]
              /\ IF ids = Listed(won) THEN UNCHANGED <<lost, faults>> ELSE Fails(Listed(won))
  /\ UNCHANGED <<row, runtime, up, torn, requests, beats, restarts>>

Load(w) ==
  /\ op[w].step = "load"
  /\ Registering(w, op[w].ids, op[w].config)
  /\ up' = up \cup {w}
  /\ op' = [op EXCEPT ![w] = Idle]
  /\ UNCHANGED <<row, led, torn, lost, counts>>

\* The server lets the requests end first.
Shutdown(w) ==
  /\ w \in up /\ restarts < MaxRestarts /\ restarts' = restarts + 1
  /\ \A h \in Requests : op[h].at # w
  /\ op[w].step \in {"idle", "await"}
  /\ op' = [op EXCEPT ![w] = [Idle EXCEPT !.kind = "shutdown", !.at = w, !.step = "stop", !.ids = Known(w)]]
  /\ UNCHANGED <<row, runtime, up, led, torn, lost, requests, beats, faults>>

Kill(w) ==
  /\ w \in up /\ restarts < MaxRestarts /\ restarts' = restarts + 1
  /\ torn' = torn \cup {op[h].t : h \in {g \in Requests : op[g].at = w}}
  /\ up' = up \ {w}
  /\ led' = [led EXCEPT ![w] = FALSE]
  /\ reg' = [reg EXCEPT ![w] = [t \in Triggers |-> None]]
  /\ watching' = [watching EXCEPT ![w] = {}]
  /\ op' = [h \in DOMAIN op |-> IF op[h].at = w THEN Idle ELSE op[h]]
  /\ UNCHANGED <<row, jobs, overlaid, missed, lost, requests, beats, faults>>

WatchFails(w) ==
  /\ faults < MaxFaults /\ faults' = faults + 1
  /\ \E x \in watching[w] : watching' = [watching EXCEPT ![w] = @ \ {x}]
  /\ UNCHANGED <<row, jobs, up, led, reg, op, overlaid, missed, torn, lost, requests, beats, restarts>>

Init ==
  /\ row = [t \in Triggers |-> [state |-> "none", enabled |-> FALSE, config |-> None]]
  /\ jobs = [t \in Triggers |-> None]
  /\ up = {} /\ led = [w \in Workers |-> FALSE]
  /\ reg = [w \in Workers |-> [t \in Triggers |-> None]]
  /\ watching = [w \in Workers |-> {}]
  /\ op = [h \in Requests \cup Workers |-> Idle]
  /\ missed = {} /\ overlaid = {} /\ torn = {} /\ lost = {}
  /\ requests = 0 /\ beats = 0 /\ restarts = 0 /\ faults = 0

Administer(h) ==
  \/ \E w \in Workers, kind \in {"update", "enable", "disable", "delete"}, t \in Triggers, c \in Configs :
        (kind # "update" => c = row[t].config) /\ Request(h, w, kind, t, c)
  \/ WriteRow(h) \/ Enable(h) \/ StopOne(h) \/ Fetch(h) \/ Resume(h)

Live(w) == Start(w) \/ Load(w) \/ Beat(w) \/ StopNext(w) \/ StoppedAll(w) \/ Resume(w) \/ Shutdown(w) \/ Kill(w)

Next ==
  \/ \E t \in Triggers, c \in Configs, enabled \in BOOLEAN : Create(t, c, enabled)
  \/ \E h \in Requests : Administer(h)
  \/ \E w \in Workers : Live(w) \/ WatchFails(w)

Spec == Init /\ [][Next]_vars

-----------------------------------------------------------------------------
(* Properties.                                                             *)

Instances == [config : Configs, n : Nat]

Ops == [kind : {"idle", "update", "enable", "disable", "delete", "boot", "unload", "shutdown"},
        at : Workers \cup {None}, t : Triggers \cup {None}, ids : SUBSET Triggers,
        step : {"idle", "write", "register", "stop", "await", "fetch", "load"},
        config : Configs \cup {None} \cup [Triggers -> Configs \cup {None}]]

\* What a request may be doing, and the lifespan or the heartbeat of a worker.
RequestOK(o) ==
  /\ o.at \in up /\ o.t \in Triggers /\ row[o.t].state # "none" /\ o.config \in Configs
  /\ o.step \in CASE o.kind = "enable" -> {"write", "register"}
                  [] o.kind = "update" -> {"write", "stop", "await", "fetch"}
                  [] o.kind \in {"disable", "delete"} -> {"write", "stop", "await"}
                  [] OTHER -> {}

LifespanOK(w, o) ==
  /\ o.at = w
  /\ \/ /\ o.kind = "boot" /\ o.step = "load" /\ w \notin up
        /\ o.config \in [Triggers -> Configs \cup {None}] /\ \A t \in o.ids : o.config[t] \in Configs
     \/ o.kind \in {"unload", "shutdown"} /\ o.step \in {"stop", "await"} /\ w \in up

TypeOK ==
  /\ row \in [Triggers -> [state : {"none", "live", "deleted"}, enabled : BOOLEAN, config : Configs \cup {None}]]
  /\ \A t \in Triggers : row[t].state # "none" => row[t].config \in Configs
  /\ jobs \in [Triggers -> Configs \cup {None}]
  /\ up \subseteq Workers /\ led \in [Workers -> BOOLEAN]
  /\ reg \in [Workers -> [Triggers -> Instances \cup {None}]]
  /\ \A w \in Workers : \A t \in Known(w) : reg[w][t].config.starts
  /\ watching \in [Workers -> SUBSET (Triggers \X Nat)]
  /\ \A w \in Workers \ up : watching[w] = {} /\ Known(w) = {}
  /\ op \in [Requests \cup Workers -> Ops]
  /\ \A h \in Requests : op[h] = Idle \/ RequestOK(op[h])
  /\ \A w \in Workers : op[w] = Idle \/ LifespanOK(w, op[w])

\* Nobody works on the registry of a worker that is up.
Quiet(w) == w \in up /\ \A h \in DOMAIN op : op[h].at # w

\* A worker's registry holds nothing but enabled triggers, in the configuration
\* their rows have, however the requests that changed them interleaved
\* (api/admin/trigger.py; for one worker).
OnlyWanted ==
  \A w \in Workers : Quiet(w) =>
    \A t \in Known(w) \ lost : Wanted(t) /\ reg[w][t].config = row[t].config

\* And it holds all of them: no interleaving of requests, heartbeats and
\* restarts leaves an enabled trigger that could start without an instance,
\* except one that was created enabled, or turned cron while the others were
\* unloaded, and not registered since.
AllWanted ==
  \A w \in Workers : Quiet(w) =>
    \A t \in Triggers \ (lost \cup missed) :
      Wanted(t) /\ row[t].config.starts /\ (led[w] \/ row[t].config.type = "cron") => t \in Known(w)

\* The job store, which survives the worker, agrees with the registry, unless
\* the worker was once killed between the two or the database failed.
JobsAgree ==
  \A w \in Workers : Quiet(w) =>
    \A t \in Triggers \ (torn \cup lost) :
      jobs[t] = IF t \in Known(w) /\ reg[w][t].config.type = "cron" THEN reg[w][t].config ELSE None

\* A watch task that no registry knows, and nobody can stop, comes of nothing
\* but a registration over another one.
OrphansOverlaid ==
  \A w \in Workers : \A x \in watching[w] :
    \/ x[1] \in Known(w) /\ reg[w][x[1]].n = x[2]
    \/ x[1] \in overlaid
=============================================================================
