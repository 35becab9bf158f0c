------------------------- MODULE TriggerRegistryProofs -------------------------
(***************************************************************************)
(* Theorems about TriggerRegistry, for any triggers, configurations and    *)
(* requests, any number of restarts and faults; those about what is wanted *)
(* for one worker, since registries do not hear of each other's changes.   *)
(***************************************************************************)
EXTENDS TriggerRegistry, FiniteSetTheorems, TLAPS

\* A worker that shuts down has stopped, or will stop, all it knows.
ShuttingDown ==
  \A w \in Workers : op[w].kind = "shutdown" =>
    Known(w) \subseteq op[w].ids /\ \A h \in Requests : op[h].at # w

\* The instance of a watch task that its registry knows is a file watcher.
Numbered ==
  \A w \in Workers :
    /\ IsFiniteSet(watching[w])
    /\ \A x \in watching[w] :
         \/ x[1] \in overlaid
         \/ x[1] \in Known(w) /\ reg[w][x[1]].n = x[2] /\ reg[w][x[1]].config.type = "file_watch"

Inductive == TypeOK /\ ShuttingDown /\ Numbered

-----------------------------------------------------------------------------
(* Numbers of instances.                                                   *)

LEMMA NumberFresh ==
  ASSUME NEW w \in Workers, IsFiniteSet(watching[w]), NEW t
  PROVE  Number(w, t) \in Nat /\ <<t, Number(w, t)>> \notin watching[w]
<1> DEFINE k == Cardinality(watching[w])
           N == 1..k + 1
           f == [n \in N |-> <<t, n>>]
<1>1. k \in Nat
  BY FS_CardinalityType
<1>2. IsFiniteSet(N) /\ Cardinality(N) = k + 1
  BY <1>1, FS_Interval
<1>3. \E n \in N : <<t, n>> \notin watching[w]
  <2> SUFFICES ASSUME \A n \in N : <<t, n>> \in watching[w] PROVE FALSE
    OBVIOUS
  <2>1. f \in [N -> watching[w]]
    OBVIOUS
  <2>2. PICK x \in N, y \in N : x # y /\ f[x] = f[y]
    <3>1. Cardinality(watching[w]) < Cardinality(N)
      BY <1>1, <1>2
    <3> HIDE DEF N, f
    <3> QED BY <1>2, <2>1, <3>1, FS_PigeonHole
  <2>3. <<t, x>> = <<t, y>>
    BY <2>2
  <2> QED BY <2>2, <2>3
<1>4. Number(w, t) \in N /\ <<t, Number(w, t)>> \notin watching[w]
  BY <1>3 DEF Number
<1> QED BY <1>1, <1>4

LEMMA NoneApart ==
  /\ None \notin Configs /\ None \notin Workers /\ None \notin Triggers /\ None \notin Instances
  /\ \A h \in Requests : h \notin Workers
BY RegistryAssumption DEF Instances

-----------------------------------------------------------------------------
(* What registering and stopping do.                                       *)

LEMMA RegisterEffect ==
  ASSUME TypeOK, Numbered, NEW w \in Workers, NEW ids \in SUBSET Triggers,
         NEW config \in [Triggers -> Configs \cup {None}], \A t \in ids : config[t] \in Configs,
         Registering(w, ids, config)
  PROVE  /\ reg' \in [Workers -> [Triggers -> Instances \cup {None}]]
         /\ jobs' \in [Triggers -> Configs \cup {None}]
         /\ watching' \in [Workers -> SUBSET (Triggers \X Nat)]
         /\ \A v \in Workers, t \in Triggers :
              v # w \/ t \notin ids \/ ~config[t].starts => reg'[v][t] = reg[v][t]
         /\ \A t \in Triggers : t \notin ids \/ ~config[t].starts => reg'[w][t] = reg[w][t]
         /\ \A t \in ids : config[t].starts => reg'[w][t] # None /\ reg'[w][t].config = config[t]
         /\ \A v \in Workers : v # w => watching'[v] = watching[v] /\ reg'[v] = reg[v]
         /\ \A v \in Workers, t \in Triggers : reg'[v][t] # None => reg'[v][t].config.starts
         /\ Numbered'
<1> DEFINE ok == {t \in ids : config[t].starts}
           files == {t \in ok : config[t].type = "file_watch"}
           new == {<<t, Number(w, t)>> : t \in files}
           mine == [t \in Triggers |-> IF t \in ok THEN [config |-> config[t], n |-> Number(w, t)] ELSE reg[w][t]]
<1>1. \A t \in Triggers : Number(w, t) \in Nat /\ <<t, Number(w, t)>> \notin watching[w]
  BY NumberFresh DEF Numbered
<1>2. \A t \in ok : [config |-> config[t], n |-> Number(w, t)] \in Instances
  BY <1>1 DEF Instances
<1>3. reg \in [Workers -> [Triggers -> Instances \cup {None}]]
  BY DEF TypeOK
<1>4. mine \in [Triggers -> Instances \cup {None}]
  BY <1>2, <1>3
<1>5. reg' = [reg EXCEPT ![w] = mine]
  BY <1>3 DEF Registering
<1>6. new \in SUBSET (Triggers \X Nat)
  BY <1>1
<1>7. watching \in [Workers -> SUBSET (Triggers \X Nat)]
  BY DEF TypeOK
<1>8. watching' = [watching EXCEPT ![w] = watching[w] \cup new]
  BY <1>7 DEF Registering
<1>9. watching' \in [Workers -> SUBSET (Triggers \X Nat)]
  BY <1>6, <1>7, <1>8
<1>10. IsFiniteSet(watching'[w])
  <2>1. IsFiniteSet(files)
    BY FS_Subset, RegistryAssumption
  <2>2. IsFiniteSet(new)
    <3> DEFINE g == [t \in files |-> <<t, Number(w, t)>>]
    <3>1. g \in Surjection(files, new)
      BY DEF Surjection
    <3> HIDE DEF files, g, new
    <3> QED BY <2>1, <3>1, FS_Surjection
  <2>3. IsFiniteSet(watching[w])
    BY DEF Numbered
  <2> QED BY <1>7, <1>8, <2>2, <2>3, FS_Union
<1>11. /\ \A v \in Workers : v # w => watching'[v] = watching[v]
       /\ watching'[w] = watching[w] \cup new
  BY <1>7, <1>8
<1>12. \A v \in Workers, t \in Triggers : v # w \/ t \notin ok => reg'[v][t] = reg[v][t]
  BY <1>3, <1>5
<1>13. \A t \in ok : reg'[w][t] = [config |-> config[t], n |-> Number(w, t)]
  BY <1>3, <1>5
<1>14. \A t \in ok : reg'[w][t] # None /\ reg'[w][t].config = config[t] /\ reg'[w][t].n = Number(w, t)
  <2>1. \A t \in ok : reg'[w][t] \in Instances
    BY <1>2, <1>13
  <2>2. \A t \in ok : reg'[w][t] # None
    BY <2>1, NoneApart
  <2>3. ASSUME NEW t \in ok PROVE reg'[w][t].config = config[t] /\ reg'[w][t].n = Number(w, t)
    <3>1. reg'[w][t] = [config |-> config[t], n |-> Number(w, t)]
      BY <1>13
    <3> QED BY <3>1
  <2> QED BY <2>2, <2>3
<1>15. overlaid' = overlaid \cup (ok \cap NonCron(w))
  BY DEF Registering
<1>16. jobs' \in [Triggers -> Configs \cup {None}]
  BY DEF Registering, TypeOK
<1>17. reg' \in [Workers -> [Triggers -> Instances \cup {None}]]
  BY <1>3, <1>4, <1>5
<1>18. ASSUME NEW v \in Workers, NEW t \in Triggers, reg'[v][t] # None PROVE reg'[v][t].config.starts
  <2>1. CASE v = w /\ t \in ok
    BY <1>14, <2>1
  <2>2. CASE ~(v = w /\ t \in ok)
    BY <1>12, <1>18, <2>2 DEF TypeOK, Known
  <2> QED BY <2>1, <2>2
<1>19. ASSUME NEW v \in Workers, NEW x \in watching'[v], x[1] \notin overlaid'
       PROVE  x[1] \in Known(v)' /\ reg'[v][x[1]].n = x[2] /\ reg'[v][x[1]].config.type = "file_watch"
  <2>1. CASE x \in watching[v]
    <3>1. x[1] \in Triggers
      BY <2>1 DEF TypeOK
    <3>2. x[1] \notin overlaid
      BY <1>15, <1>19
    <3>3. x[1] \in Known(v) /\ reg[v][x[1]].n = x[2] /\ reg[v][x[1]].config.type = "file_watch"
      BY <2>1, <3>2 DEF Numbered
    <3>4. ~(v = w /\ x[1] \in ok)
      BY <1>15, <1>19, <3>3 DEF NonCron
    <3>5. reg'[v][x[1]] = reg[v][x[1]]
      BY <1>12, <3>1, <3>4
    <3> QED BY <3>1, <3>3, <3>5 DEF Known
  <2>2. CASE x \notin watching[v]
    <3>1. v = w /\ x \in new
      BY <1>11, <1>19, <2>2
    <3>2. PICK t \in files : x = <<t, Number(w, t)>>
      BY <3>1
    <3>3. x[1] = t /\ x[2] = Number(w, t) /\ t \in ok
      BY <3>2
    <3> QED BY <1>14, <3>1, <3>2, <3>3 DEF Known
  <2> QED BY <2>1, <2>2
<1>20. ASSUME NEW v \in Workers PROVE IsFiniteSet(watching'[v])
  BY <1>10, <1>11 DEF Numbered
<1>21. Numbered'
  BY <1>19, <1>20 DEF Numbered
<1>22. \A v \in Workers : v # w => reg'[v] = reg[v]
  BY <1>3, <1>5
<1>23. \A t \in Triggers : t \notin ids \/ ~config[t].starts => reg'[w][t] = reg[w][t]
  BY <1>12
<1> QED BY <1>9, <1>11, <1>12, <1>14, <1>16, <1>17, <1>18, <1>21, <1>22, <1>23

LEMMA StopEffect ==
  ASSUME TypeOK, Numbered, NEW w \in Workers, NEW t \in Triggers, Stopped(w, t)
  PROVE  /\ reg' \in [Workers -> [Triggers -> Instances \cup {None}]]
         /\ jobs' \in [Triggers -> Configs \cup {None}]
         /\ watching' \in [Workers -> SUBSET (Triggers \X Nat)]
         /\ \A v \in Workers, u \in Triggers : reg'[v][u] = IF v = w /\ u = t THEN None ELSE reg[v][u]
         /\ \A v \in Workers : watching'[v] \subseteq watching[v]
         /\ Numbered'
<1>1. reg \in [Workers -> [Triggers -> Instances \cup {None}]]
  BY DEF TypeOK
<1>2. reg' = [reg EXCEPT ![w] = [reg[w] EXCEPT ![t] = None]]
  BY <1>1 DEF Stopped
<1>3. [reg[w] EXCEPT ![t] = None] \in [Triggers -> Instances \cup {None}]
  BY <1>1
<1>4. reg' \in [Workers -> [Triggers -> Instances \cup {None}]]
  BY <1>1, <1>2, <1>3
<1>5. ASSUME NEW v \in Workers, NEW u \in Triggers
      PROVE  reg'[v][u] = IF v = w /\ u = t THEN None ELSE reg[v][u]
  BY <1>1, <1>2
<1>6. jobs' \in [Triggers -> Configs \cup {None}]
  BY DEF Stopped, TypeOK
<1>7. watching \in [Workers -> SUBSET (Triggers \X Nat)]
  BY DEF TypeOK
<1>8. watching' = IF t \in Known(w) THEN [watching EXCEPT ![w] = watching[w] \ {<<t, reg[w][t].n>>}] ELSE watching
  BY <1>7 DEF Stopped
<1>9. watching' \in [Workers -> SUBSET (Triggers \X Nat)]
  BY <1>7, <1>8
<1>10. \A v \in Workers : watching'[v] =
         IF v = w /\ t \in Known(w) THEN watching[w] \ {<<t, reg[w][t].n>>} ELSE watching[v]
  BY <1>7, <1>8
<1>11. overlaid' = overlaid
  BY DEF Stopped
<1>12. \A v \in Workers : IsFiniteSet(watching'[v])
  BY <1>10, FS_Subset DEF Numbered
<1>13. ASSUME NEW v \in Workers, NEW x \in watching'[v], x[1] \notin overlaid'
       PROVE  x[1] \in Known(v)' /\ reg'[v][x[1]].n = x[2] /\ reg'[v][x[1]].config.type = "file_watch"
  <2>1. x \in watching[v] /\ x[1] \in Triggers /\ x = <<x[1], x[2]>>
    BY <1>7, <1>10
  <2>2. x[1] \in Known(v) /\ reg[v][x[1]].n = x[2] /\ reg[v][x[1]].config.type = "file_watch"
    BY <1>11, <1>13, <2>1 DEF Numbered
  <2>3. ~(v = w /\ x[1] = t)
    BY <1>10, <2>1, <2>2
  <2>4. reg'[v][x[1]] = reg[v][x[1]]
    BY <1>5, <2>1, <2>3
  <2> QED BY <2>1, <2>2, <2>4 DEF Known
<1>14. Numbered'
  BY <1>12, <1>13 DEF Numbered
<1> QED BY <1>4, <1>5, <1>6, <1>9, <1>10, <1>14

-----------------------------------------------------------------------------
(* Types, and what is watched.                                             *)

LEMMA OpEffect ==
  ASSUME TypeOK, NEW h \in Requests \cup Workers, NEW o \in Ops, op' = [op EXCEPT ![h] = o]
  PROVE  /\ op' \in [Requests \cup Workers -> Ops]
         /\ op'[h] = o
         /\ \A g \in Requests \cup Workers : g # h => op'[g] = op[g]
BY DEF TypeOK

LEMMA IdleOp == Idle \in Ops /\ Idle.at = None /\ Idle.kind = "idle" /\ Idle.step = "idle"
BY DEF Idle, Ops

\* The parts of the type invariant that are about the registries.
RegistryOK ==
  /\ reg \in [Workers -> [Triggers -> Instances \cup {None}]]
  /\ jobs \in [Triggers -> Configs \cup {None}]
  /\ watching \in [Workers -> SUBSET (Triggers \X Nat)]
  /\ \A w \in Workers, t \in Triggers : reg[w][t] # None => reg[w][t].config.starts

RowOK ==
  /\ row \in [Triggers -> [state : {"none", "live", "deleted"}, enabled : BOOLEAN, config : Configs \cup {None}]]
  /\ \A t \in Triggers : row[t].state # "none" => row[t].config \in Configs

LifeOK ==
  /\ up \subseteq Workers /\ led \in [Workers -> BOOLEAN]
  /\ op \in [Requests \cup Workers -> Ops]
  /\ \A h \in Requests : op[h] = Idle \/ RequestOK(op[h])
  /\ \A w \in Workers : op[w] = Idle \/ LifespanOK(w, op[w])

DownOK == \A w \in Workers \ up : watching[w] = {} /\ \A t \in Triggers : reg[w][t] = None

LEMMA TypeParts == TypeOK <=> RegistryOK /\ RowOK /\ LifeOK /\ DownOK
BY DEF TypeOK, RegistryOK, RowOK, LifeOK, DownOK, Known

LEMMA TypePartsNext == TypeOK' <=> RegistryOK' /\ RowOK' /\ LifeOK' /\ DownOK'
BY DEF TypeOK, RegistryOK, RowOK, LifeOK, DownOK, Known

LEMMA InitInductive == Init => Inductive
<1> SUFFICES ASSUME Init PROVE Inductive
  OBVIOUS
<1>1. RegistryOK
  BY DEF Init, RegistryOK
<1>2. RowOK
  BY DEF Init, RowOK
<1>3. LifeOK
  <2>1. \A h \in Requests \cup Workers : op[h] = Idle
    BY DEF Init
  <2> QED BY <2>1, IdleOp DEF Init, LifeOK
<1>4. DownOK
  BY DEF Init, DownOK
<1>5. ShuttingDown
  <2>1. \A w \in Workers : op[w].kind = "idle"
    BY DEF Init, Idle
  <2> QED BY <2>1 DEF ShuttingDown
<1>6. Numbered
  <2>1. \A w \in Workers : watching[w] = {}
    BY DEF Init
  <2> QED BY <2>1, FS_EmptySet DEF Numbered
<1> QED BY <1>1, <1>2, <1>3, <1>4, <1>5, <1>6, TypeParts DEF Inductive

RowsStay == \A t \in Triggers : row[t].state # "none" => row'[t].state # "none"

\* A request or a lifespan goes on; workers stay up or down.
LEMMA LifeKept ==
  ASSUME TypeOK, NEW h \in Requests \cup Workers, NEW o \in Ops, op' = [op EXCEPT ![h] = o],
         up' = up, led' \in [Workers -> BOOLEAN], RowsStay,
         h \in Requests => o = Idle \/ RequestOK(o),
         h \in Workers => o = Idle \/ LifespanOK(h, o)
  PROVE  LifeOK'
<1>1. /\ op' \in [Requests \cup Workers -> Ops]
      /\ op'[h] = o
      /\ \A g \in Requests \cup Workers : g # h => op'[g] = op[g]
  BY OpEffect
<1>2. ASSUME NEW g \in Requests PROVE op'[g] = Idle \/ RequestOK(op'[g])
  <2>1. CASE g = h
    BY <1>1, <2>1
  <2>2. CASE g # h
    BY <1>1, <2>2 DEF TypeOK
  <2> QED BY <2>1, <2>2
<1>3. ASSUME NEW w \in Workers PROVE op'[w] = Idle \/ LifespanOK(w, op'[w])
  <2>1. CASE w = h
    BY <1>1, <2>1
  <2>2. CASE w # h
    BY <1>1, <2>2 DEF TypeOK
  <2> QED BY <2>1, <2>2
<1>4. \A g \in Requests : RequestOK(op'[g]) => RequestOK(op[g])'
  BY DEF RequestOK, RowsStay
<1>5. \A w \in Workers : LifespanOK(w, op'[w]) => LifespanOK(w, op[w])'
  BY DEF LifespanOK
<1> QED BY <1>1, <1>2, <1>3, <1>4, <1>5 DEF LifeOK, TypeOK, Idle

LEMMA RowWrite ==
  ASSUME TypeOK, NEW t \in Triggers, row[t].state # "none"
  PROVE  /\ \A c \in Configs : Write(t, "config", c) => RowOK' /\ RowsStay
         /\ \A b \in BOOLEAN : Write(t, "enabled", b) => RowOK' /\ RowsStay
         /\ Write(t, "state", "deleted") => RowOK' /\ RowsStay
<1> DEFINE Rows == [Triggers -> [state : {"none", "live", "deleted"}, enabled : BOOLEAN, config : Configs \cup {None}]]
<1>1. row \in Rows
  BY DEF TypeOK
<1>2. UNCHANGED row => RowOK' /\ RowsStay
  BY DEF TypeOK, RowOK, RowsStay
<1>3. ASSUME NEW c \in Configs, row' = [row EXCEPT ![t]["config"] = c] PROVE RowOK' /\ RowsStay
  BY <1>1, <1>3 DEF RowOK, TypeOK, RowsStay
<1>4. ASSUME NEW b \in BOOLEAN, row' = [row EXCEPT ![t]["enabled"] = b] PROVE RowOK' /\ RowsStay
  <2>1. row' \in Rows
    BY <1>1, <1>4
  <2>2. \A u \in Triggers : row'[u].state = row[u].state /\ row'[u].config = row[u].config
    BY <1>1, <1>4
  <2> QED BY <2>1, <2>2 DEF RowsStay, RowOK, TypeOK
<1>5. ASSUME row' = [row EXCEPT ![t]["state"] = "deleted"] PROVE RowOK' /\ RowsStay
  <2>1. row' \in Rows
    BY <1>1, <1>5
  <2>2. \A u \in Triggers : /\ row'[u].config = row[u].config
                            /\ row'[u].state = IF u = t THEN "deleted" ELSE row[u].state
    BY <1>1, <1>5
  <2> QED BY <2>1, <2>2 DEF RowsStay, RowOK, TypeOK
<1> QED BY <1>2, <1>3, <1>4, <1>5 DEF Write

LEMMA Located ==
  ASSUME TypeOK, NEW h \in Requests, op[h] # Idle
  PROVE  RequestOK(op[h]) /\ op[h].at \in Workers /\ op[h].t \in Triggers /\ op[h] \in Ops
BY DEF TypeOK, RequestOK

\* A request registers a trigger, and is over.
LEMMA RequestRegisters ==
  ASSUME Inductive, NEW h \in Requests, op[h] # Idle,
         NEW config \in [Triggers -> Configs \cup {None}], config[op[h].t] \in Configs,
         Registering(op[h].at, {op[h].t}, config),
         op' = [op EXCEPT ![h] = Idle], UNCHANGED <<row, up, led>>
  PROVE  Inductive'
<1> USE DEF Inductive
<1> DEFINE w == op[h].at
<1>1. w \in Workers /\ w \in up /\ op[h].t \in Triggers
  BY Located DEF RequestOK
<1>2. {op[h].t} \in SUBSET Triggers /\ \A t \in {op[h].t} : config[t] \in Configs
  BY <1>1
<1> HIDE DEF w
<1>3. /\ RegistryOK' /\ Numbered'
      /\ \A v \in Workers : v # w => watching'[v] = watching[v] /\ \A t \in Triggers : reg'[v][t] = reg[v][t]
  <2> DEFINE ids == {op[h].t}
  <2>1. Registering(w, ids, config)
    BY DEF w
  <2>2. ids \in SUBSET Triggers /\ \A t \in ids : config[t] \in Configs
    BY <1>2
  <2> HIDE DEF ids
  <2>3. RegistryOK' /\ Numbered'
    BY <1>1, <2>1, <2>2, RegisterEffect DEF RegistryOK
  <2>4. \A v \in Workers : v # w => watching'[v] = watching[v] /\ reg'[v] = reg[v]
    BY <1>1, <2>1, <2>2, RegisterEffect
  <2> QED BY <2>3, <2>4
<1>4. RowOK' /\ LifeOK'
  <2>1. RowOK'
    BY DEF RowOK, TypeOK
  <2>2. LifeOK'
    BY IdleOp, LifeKept, NoneApart DEF TypeOK, RowsStay
  <2> QED BY <2>1, <2>2
<1>5. DownOK'
  <2>1. DownOK
    BY TypeParts
  <2> QED BY <1>1, <1>3, <2>1 DEF DownOK
<1>6. ShuttingDown'
  <2>1. \A g \in Requests \cup Workers : op'[g] = IF g = h THEN Idle ELSE op[g]
    BY OpEffect, IdleOp
  <2>2. op[w].kind # "shutdown"
    BY <1>1 DEF ShuttingDown, w
  <2> QED BY <1>1, <1>3, <2>1, <2>2, IdleOp, NoneApart DEF ShuttingDown, Known
<1> QED BY <1>3, <1>4, <1>5, <1>6, TypePartsNext

\* A request goes on, and nothing changes but its row.
LEMMA RequestGoesOn ==
  ASSUME Inductive, NEW h \in Requests, op[h] # Idle, NEW o \in Ops, op' = [op EXCEPT ![h] = o],
         o = Idle \/ (RequestOK(o) /\ o.at = op[h].at),
         UNCHANGED <<runtime, up, led>>, RowOK', RowsStay
  PROVE  Inductive'
<1> USE DEF Inductive
<1>1. LifeOK'
  BY LifeKept, NoneApart DEF TypeOK
<1>2. RegistryOK' /\ DownOK' /\ Numbered'
  BY DEF runtime, RegistryOK, DownOK, Numbered, Known, TypeOK
<1>3. ShuttingDown'
  <2>1. \A g \in Requests \cup Workers : op'[g] = IF g = h THEN o ELSE op[g]
    BY OpEffect
  <2>2. op[h].at \in Workers
    BY Located
  <2> QED BY <2>1, <2>2, IdleOp, NoneApart DEF ShuttingDown, Known, runtime
<1> QED BY <1>1, <1>2, <1>3, TypePartsNext

\* A request or a lifespan stops a trigger.
LEMMA Stops ==
  ASSUME Inductive, NEW h \in Requests \cup Workers, NEW w \in Workers, NEW t \in Triggers, Stopped(w, t),
         NEW o \in Ops, op' = [op EXCEPT ![h] = o], op[h].at = w, h \in Workers => h = w,
         o = Idle \/ (o.at = w /\ o.kind = op[h].kind /\ op[h].ids \subseteq o.ids \cup {t}),
         h \in Requests => op[h] # Idle /\ (o = Idle \/ RequestOK(o)),
         h \in Workers => o # Idle /\ LifespanOK(h, o),
         UNCHANGED <<row, up, led>>
  PROVE  Inductive'
<1> USE DEF Inductive
<1>1. /\ RegistryOK' /\ Numbered'
      /\ \A v \in Workers : watching'[v] \subseteq watching[v]
      /\ \A v \in Workers, u \in Triggers : reg'[v][u] = IF v = w /\ u = t THEN None ELSE reg[v][u]
  BY StopEffect DEF RegistryOK, TypeOK, Known
<1>2. RowOK' /\ LifeOK'
  <2>1. RowOK'
    BY DEF RowOK, TypeOK
  <2>2. LifeOK'
    BY LifeKept, NoneApart DEF TypeOK, RowsStay
  <2> QED BY <2>1, <2>2
<1>3. DownOK'
  BY <1>1 DEF DownOK, TypeOK, Known
<1>4. ShuttingDown'
  <2>1. \A g \in Requests \cup Workers : op'[g] = IF g = h THEN o ELSE op[g]
    BY OpEffect
  <2>2. \A v \in Workers : Known(v)' = Known(v) \ (IF v = w THEN {t} ELSE {})
    BY <1>1 DEF Known
  <2> QED BY <2>1, <2>2, IdleOp, NoneApart DEF ShuttingDown
<1> QED BY <1>1, <1>2, <1>3, <1>4, TypePartsNext

\* The administration.
LEMMA AdministerInductive ==
  ASSUME Inductive, NEW h \in Requests, Administer(h)
  PROVE  Inductive'
<1> USE DEF Inductive
<1>0. RegistryOK /\ RowOK /\ LifeOK /\ DownOK
  BY TypeParts
<1>1. ASSUME NEW w \in Workers, NEW kind \in {"update", "enable", "disable", "delete"}, NEW t \in Triggers,
             NEW c \in Configs, Request(h, w, kind, t, c)
      PROVE  Inductive'
  <2> DEFINE o == [Idle EXCEPT !.kind = kind, !.at = w, !.step = "write", !.t = t,
                               !.config = IF kind = "update" THEN c ELSE row[t].config]
  <2>1. row[t].state # "none" /\ row[t].config \in Configs
    BY <1>1 DEF Request, TypeOK
  <2>2. o \in Ops /\ o.at = w /\ o.step = "write" /\ o.kind = kind /\ o.t = t /\ o.config \in Configs
    BY <2>1 DEF Idle, Ops
  <2>3. RequestOK(o)
    BY <1>1, <2>1, <2>2 DEF RequestOK, Request
  <2>4. op' = [op EXCEPT ![h] = o] /\ UNCHANGED <<row, runtime, up, led>> /\ op[w].kind # "shutdown"
    BY <1>1 DEF Request
  <2>5. LifeOK'
    BY <2>2, <2>3, <2>4, LifeKept, NoneApart DEF TypeOK, RowsStay
  <2>6. RegistryOK' /\ RowOK' /\ DownOK' /\ Numbered'
    BY <1>0, <2>4 DEF runtime, RegistryOK, RowOK, DownOK, Numbered, Known
  <2>7. ShuttingDown'
    <3>1. \A g \in Requests \cup Workers : g # h => op'[g] = op[g]
      BY <2>2, <2>4, OpEffect
    <3>2. op'[h] = o
      BY <2>2, <2>4, OpEffect
    <3> QED BY <2>2, <2>4, <3>1, <3>2, NoneApart DEF ShuttingDown, runtime, Known
  <2> QED BY <2>5, <2>6, <2>7, TypePartsNext
<1>2. ASSUME WriteRow(h) PROVE Inductive'
  <2> DEFINE o == IF op[h].kind = "delete" /\ faults' # faults THEN Idle
                  ELSE [op[h] EXCEPT !.step = IF op[h].kind = "enable" THEN "register" ELSE "stop"]
             t == op[h].t
  <2>1. op[h].step = "write" /\ op' = [op EXCEPT ![h] = o] /\ UNCHANGED <<runtime, up, led>>
    BY <1>2 DEF WriteRow
  <2>2. op[h] # Idle
    BY <2>1, IdleOp
  <2>3. RequestOK(op[h]) /\ t \in Triggers /\ op[h] \in Ops
    BY <2>2, Located
  <2>4. row[t].state # "none" /\ op[h].config \in Configs
    BY <2>3 DEF RequestOK
  <2>5. RowOK' /\ RowsStay
    <3>1. \/ Write(t, "config", op[h].config)
          \/ Write(t, "enabled", TRUE)
          \/ Write(t, "enabled", FALSE)
          \/ Write(t, "state", "deleted")
      BY <1>2, <2>3 DEF WriteRow, RequestOK
    <3> QED BY <2>3, <2>4, <3>1, RowWrite
  <2>6. o \in Ops /\ (o = Idle \/ (RequestOK(o) /\ o.at = op[h].at))
    BY <2>1, <2>3, IdleOp DEF Ops, RequestOK
  <2> HIDE DEF o, t
  <2> QED BY <2>1, <2>2, <2>5, <2>6, RequestGoesOn
<1>3. ASSUME Enable(h) PROVE Inductive'
  <2>1. op[h] # Idle
    BY <1>3, IdleOp DEF Enable
  <2>2. op[h].config \in Configs /\ op[h].t \in Triggers
    BY <2>1, Located DEF RequestOK
  <2> DEFINE config == [t \in Triggers |-> op[h].config]
  <2>3. config \in [Triggers -> Configs \cup {None}] /\ config[op[h].t] \in Configs
    BY <2>2
  <2>4. Registering(op[h].at, {op[h].t}, config) /\ op' = [op EXCEPT ![h] = Idle] /\ UNCHANGED <<row, up, led>>
    BY <1>3 DEF Enable
  <2> HIDE DEF config
  <2> QED BY <2>1, <2>3, <2>4, RequestRegisters
<1>4. ASSUME StopOne(h) PROVE Inductive'
  <2> DEFINE w == op[h].at
             o == IF Awaits(w, op[h].t) THEN [op[h] EXCEPT !.step = "await"] ELSE Go(op[h])
  <2>1. op[h] # Idle /\ op[h].step = "stop" /\ op[h].kind \in {"update", "disable", "delete"}
    BY <1>4, IdleOp DEF StopOne
  <2>2. RequestOK(op[h]) /\ w \in Workers /\ op[h].t \in Triggers /\ op[h] \in Ops
    BY <2>1, Located
  <2>3. o \in Ops /\ (o = Idle \/ (RequestOK(o) /\ o.at = w /\ o.kind = op[h].kind /\ o.ids = op[h].ids))
    BY <2>1, <2>2, IdleOp DEF Go, Ops, RequestOK
  <2>4. Stopped(w, op[h].t) /\ op' = [op EXCEPT ![h] = o] /\ UNCHANGED <<row, up, led>>
    BY <1>4 DEF StopOne
  <2>5. h \notin Workers /\ op[h].at = w
    BY NoneApart
  <2> HIDE DEF o, w
  <2> QED BY <2>1, <2>2, <2>3, <2>4, <2>5, Stops
<1>5. ASSUME Fetch(h) PROVE Inductive'
  <2>1. op[h] # Idle /\ op' = [op EXCEPT ![h] = Idle] /\ UNCHANGED <<row, up, led>>
    BY <1>5, IdleOp DEF Fetch
  <2>2. op[h].t \in Triggers /\ row[op[h].t].state # "none"
    BY <2>1, Located DEF RequestOK
  <2>3. CASE Registering(op[h].at, {op[h].t}, Current)
    <3>1. Current \in [Triggers -> Configs \cup {None}] /\ Current[op[h].t] \in Configs
      BY <2>2 DEF Current, TypeOK
    <3> QED BY <2>1, <2>3, <3>1, RequestRegisters
  <2>4. CASE UNCHANGED runtime
    BY <2>1, <2>4, IdleOp, RequestGoesOn DEF RowsStay, RowOK, TypeOK
  <2> QED BY <1>5, <2>3, <2>4 DEF Fetch, RegisterWanted
<1>6. ASSUME Resume(h) PROVE Inductive'
  <2> DEFINE o == IF op[h].kind \in {"unload", "shutdown"} THEN [op[h] EXCEPT !.step = "stop"] ELSE Go(op[h])
  <2>1. op[h] # Idle /\ op[h].step = "await" /\ op' = [op EXCEPT ![h] = o] /\ UNCHANGED <<row, runtime, up, led>>
    BY <1>6, IdleOp DEF Resume
  <2>2. RequestOK(op[h]) /\ op[h] \in Ops
    BY <2>1, Located
  <2>3. o \in Ops /\ (o = Idle \/ (RequestOK(o) /\ o.at = op[h].at))
    BY <2>1, <2>2, IdleOp DEF Go, Ops, RequestOK
  <2>4. RowOK' /\ RowsStay
    BY <2>1 DEF RowsStay, RowOK, TypeOK
  <2> HIDE DEF o
  <2> QED BY <2>1, <2>3, <2>4, RequestGoesOn
<1> QED BY <1>1, <1>2, <1>3, <1>4, <1>5, <1>6 DEF Administer

LEMMA AtWork ==
  ASSUME TypeOK, NEW w \in Workers, op[w] # Idle
  PROVE  LifespanOK(w, op[w]) /\ op[w] \in Ops
BY DEF TypeOK

\* The heartbeat or the lifespan of w goes on, the registries stay.
LEMMA LifespanGoesOn ==
  ASSUME Inductive, NEW w \in Workers, NEW o \in Ops, op' = [op EXCEPT ![w] = o],
         o = Idle \/ LifespanOK(w, o), led' \in [Workers -> BOOLEAN],
         o.kind = "shutdown" => Known(w) \subseteq o.ids /\ \A h \in Requests : op[h].at # w,
         UNCHANGED <<row, runtime, up>>
  PROVE  Inductive'
<1> USE DEF Inductive
<1>1. LifeOK'
  BY LifeKept, NoneApart DEF RowsStay
<1>2. RowOK' /\ RegistryOK' /\ DownOK' /\ Numbered'
  BY DEF runtime, RowOK, RegistryOK, DownOK, Numbered, Known, TypeOK
<1>3. ShuttingDown'
  <2>1. \A g \in Requests \cup Workers : op'[g] = IF g = w THEN o ELSE op[g]
    BY OpEffect
  <2> QED BY <2>1, NoneApart DEF ShuttingDown, Known, runtime
<1> QED BY <1>1, <1>2, <1>3, TypePartsNext

\* Instances are registered by the lifespan, or by a heartbeat.
LEMMA LifespanRegisters ==
  ASSUME Inductive, NEW w \in Workers, NEW ids \in SUBSET Triggers,
         NEW config \in [Triggers -> Configs \cup {None}], \A t \in ids : config[t] \in Configs,
         Registering(w, ids, config),
         op' = [op EXCEPT ![w] = Idle], up' = up \cup {w}, UNCHANGED row, led' \in [Workers -> BOOLEAN]
  PROVE  Inductive'
<1> USE DEF Inductive
<1>1. RegistryOK' /\ Numbered'
  BY RegisterEffect DEF RegistryOK
<1>2. \A v \in Workers : v # w => watching'[v] = watching[v] /\ reg'[v] = reg[v]
  BY RegisterEffect
<1>3. \A g \in Requests \cup Workers : op'[g] = IF g = w THEN Idle ELSE op[g]
  BY OpEffect, IdleOp
<1>4. RowOK'
  BY DEF RowOK, TypeOK
<1>5. LifeOK'
  <2>1. op' \in [Requests \cup Workers -> Ops]
    BY OpEffect, IdleOp
  <2>2. \A h \in Requests : op'[h] = Idle \/ RequestOK(op[h])'
    BY <1>3, NoneApart DEF TypeOK, RequestOK
  <2>3. \A v \in Workers : op'[v] = Idle \/ LifespanOK(v, op[v])'
    BY <1>3 DEF TypeOK, LifespanOK
  <2> QED BY <2>1, <2>2, <2>3 DEF LifeOK, TypeOK, Idle
<1>6. DownOK'
  <2>1. DownOK
    BY TypeParts
  <2> QED BY <1>2, <2>1 DEF DownOK
<1>7. ShuttingDown'
  BY <1>2, <1>3, IdleOp, NoneApart DEF ShuttingDown, Known
<1> QED BY <1>1, <1>4, <1>5, <1>6, <1>7, TypePartsNext

LEMMA StartInductive ==
  ASSUME Inductive, NEW w \in Workers, Start(w)
  PROVE  Inductive'
<1> USE DEF Inductive
<1>0. PICK won \in BOOLEAN : \E ids \in {Listed(won), {}} :
        /\ led' = [led EXCEPT ![w] = won]
        /\ op' = [op EXCEPT ![w] = [Idle EXCEPT !.kind = "boot", !.at = w, !.step = "load",
                                                !.config = Current, !.ids = ids]]
  BY DEF Start
<1>1. PICK ids \in {Listed(won), {}} :
        /\ led' = [led EXCEPT ![w] = won]
        /\ op' = [op EXCEPT ![w] = [Idle EXCEPT !.kind = "boot", !.at = w, !.step = "load",
                                                !.config = Current, !.ids = ids]]
  BY <1>0
<1> DEFINE o == [Idle EXCEPT !.kind = "boot", !.at = w, !.step = "load", !.config = Current, !.ids = ids]
<1>2. ids \subseteq Triggers /\ \A t \in ids : row[t].state = "live"
  BY DEF Listed, Wanted
<1>3. Current \in [Triggers -> Configs \cup {None}] /\ \A t \in ids : Current[t] \in Configs
  BY <1>2 DEF Current, TypeOK
<1>4. o \in Ops /\ o.kind = "boot" /\ o.at = w /\ o.step = "load" /\ o.config = Current /\ o.ids = ids
  BY <1>2, <1>3 DEF Idle, Ops
<1>5. w \notin up /\ UNCHANGED <<row, runtime, up>>
  BY DEF Start
<1>6. LifespanOK(w, o)
  BY <1>3, <1>4, <1>5 DEF LifespanOK
<1>7. led' \in [Workers -> BOOLEAN]
  BY <1>1 DEF TypeOK
<1>8. op' = [op EXCEPT ![w] = o]
  BY <1>1
<1> HIDE DEF o
<1> QED BY <1>4, <1>5, <1>6, <1>7, <1>8, LifespanGoesOn

LEMMA BeatInductive ==
  ASSUME Inductive, NEW w \in Workers, Beat(w)
  PROVE  Inductive'
<1> USE DEF Inductive
<1>1. w \in up /\ op[w] = Idle /\ UNCHANGED <<row, up>>
  BY DEF Beat
<1>2. CASE led[w]
  <2> DEFINE o == [Idle EXCEPT !.kind = "unload", !.at = w, !.step = "stop", !.ids = NonCron(w)]
  <2>1. op' = [op EXCEPT ![w] = o] /\ UNCHANGED <<led, runtime>>
    BY <1>2 DEF Beat
  <2>2. o \in Ops /\ o.kind = "unload" /\ o.at = w /\ o.step = "stop"
    BY DEF Idle, Ops, NonCron, Known
  <2>3. LifespanOK(w, o) /\ led' \in [Workers -> BOOLEAN]
    BY <1>1, <2>1, <2>2 DEF LifespanOK, TypeOK
  <2> HIDE DEF o
  <2> QED BY <1>1, <2>1, <2>2, <2>3, LifespanGoesOn
<1>3. CASE ~led[w]
  <2>1. led' = [led EXCEPT ![w] = TRUE] /\ UNCHANGED op
    BY <1>3 DEF Beat
  <2>2. led' \in [Workers -> BOOLEAN] /\ op' = [op EXCEPT ![w] = Idle]
    BY <1>1, <2>1 DEF TypeOK
  <2>3. CASE Registering(w, Missing(w), Current)
    <3> DEFINE ids == Missing(w)
               config == Current
    <3>1. ids \in SUBSET Triggers /\ \A t \in ids : row[t].state = "live"
      BY DEF Missing, Wanted
    <3>2. config \in [Triggers -> Configs \cup {None}] /\ \A t \in ids : config[t] \in Configs
      BY <3>1 DEF Current, TypeOK
    <3>3. Registering(w, ids, config) /\ up' = up \cup {w}
      BY <1>1, <2>3
    <3> HIDE DEF ids, config
    <3> QED BY <1>1, <2>2, <3>1, <3>2, <3>3, LifespanRegisters
  <2>4. CASE UNCHANGED runtime
    BY <1>1, <2>2, <2>4, IdleOp, LifespanGoesOn
  <2> QED BY <1>3, <2>3, <2>4 DEF Beat
<1> QED BY <1>2, <1>3

LEMMA LoadInductive ==
  ASSUME Inductive, NEW w \in Workers, Load(w)
  PROVE  Inductive'
<1> USE DEF Inductive
<1> DEFINE ids == op[w].ids
           config == op[w].config
<1>1. op[w].step = "load" /\ Registering(w, ids, config) /\ up' = up \cup {w}
      /\ op' = [op EXCEPT ![w] = Idle] /\ UNCHANGED <<row, led>>
  BY DEF Load
<1>2. op[w] # Idle
  BY <1>1, IdleOp
<1>3. LifespanOK(w, op[w]) /\ op[w] \in Ops
  BY <1>2, AtWork
<1>4. ids \in SUBSET Triggers /\ config \in [Triggers -> Configs \cup {None}] /\ \A t \in ids : config[t] \in Configs
  BY <1>1, <1>3 DEF LifespanOK, Ops
<1>5. led' \in [Workers -> BOOLEAN]
  BY <1>1 DEF TypeOK
<1> HIDE DEF ids, config
<1> QED BY <1>1, <1>4, <1>5, LifespanRegisters

LEMMA StopNextInductive ==
  ASSUME Inductive, NEW w \in Workers, StopNext(w)
  PROVE  Inductive'
<1> USE DEF Inductive
<1>1. PICK t \in op[w].ids :
        /\ Stopped(w, t)
        /\ op' = [op EXCEPT ![w].ids = @ \ {t}, ![w].step = IF Awaits(w, t) THEN "await" ELSE "stop"]
  BY DEF StopNext
<1> DEFINE o == [op[w] EXCEPT !.ids = @ \ {t}, !.step = IF Awaits(w, t) THEN "await" ELSE "stop"]
<1>2. op[w].step = "stop" /\ op[w].kind \in {"unload", "shutdown"} /\ UNCHANGED <<row, up, led>>
  BY DEF StopNext
<1>3. op[w] # Idle
  BY <1>2, IdleOp
<1>4. LifespanOK(w, op[w]) /\ op[w] \in Ops
  BY <1>3, AtWork
<1>5. t \in Triggers
  BY <1>4 DEF Ops
<1>6. /\ o \in Ops /\ o.at = w /\ op[w].at = w /\ o.kind = op[w].kind /\ op[w].ids \subseteq o.ids \cup {t}
      /\ o.step \in {"stop", "await"}
  BY <1>2, <1>4 DEF Ops, LifespanOK
<1>7. LifespanOK(w, o)
  BY <1>2, <1>4, <1>6 DEF LifespanOK
<1>8. op' = [op EXCEPT ![w] = o]
  BY <1>1 DEF TypeOK
<1>9. o # Idle
  BY <1>2, <1>6, IdleOp
<1>10. /\ w \in Requests \cup Workers
       /\ w \in Workers => w = w
       /\ w \in Requests => op[w] # Idle /\ (o = Idle \/ RequestOK(o))
       /\ w \in Workers => o # Idle /\ LifespanOK(w, o)
       /\ o = Idle \/ (o.at = w /\ o.kind = op[w].kind /\ op[w].ids \subseteq o.ids \cup {t})
  BY <1>6, <1>7, <1>9, NoneApart
<1>11. o \in Ops /\ op[w].at = w /\ Stopped(w, t)
  BY <1>1, <1>6
<1> HIDE DEF o
<1> QED BY <1>2, <1>5, <1>8, <1>10, <1>11, Stops

\* The loops over the registry end, and with shutdown the worker does.
LEMMA StoppedAllInductive ==
  ASSUME Inductive, NEW w \in Workers, StoppedAll(w)
  PROVE  Inductive'
<1> USE DEF Inductive
<1>1. /\ op[w].step = "stop" /\ op[w].ids = {} /\ op[w].kind \in {"unload", "shutdown"}
      /\ op' = [op EXCEPT ![w] = Idle] /\ led' = [led EXCEPT ![w] = FALSE]
      /\ UNCHANGED <<row, jobs, reg, overlaid, missed>>
  BY DEF StoppedAll
<1>2. led' \in [Workers -> BOOLEAN]
  BY <1>1 DEF TypeOK
<1>3. CASE op[w].kind = "unload"
  <2>1. UNCHANGED <<row, runtime, up>>
    BY <1>1, <1>3 DEF StoppedAll, runtime
  <2> QED BY <1>1, <1>2, <2>1, IdleOp, LifespanGoesOn
<1>4. CASE op[w].kind = "shutdown"
  <2>1. up' = up \ {w} /\ watching' = [watching EXCEPT ![w] = {}]
    BY <1>1, <1>4 DEF StoppedAll
  <2>2. Known(w) = {} /\ \A h \in Requests : op[h].at # w
    BY <1>1, <1>4 DEF ShuttingDown
  <2>3. \A g \in Requests \cup Workers : op'[g] = IF g = w THEN Idle ELSE op[g]
    BY <1>1, OpEffect, IdleOp
  <2>4. \A v \in Workers : watching'[v] = IF v = w THEN {} ELSE watching[v]
    BY <2>1 DEF TypeOK
  <2>5. RowOK' /\ RegistryOK'
    BY <1>1, <2>1 DEF RowOK, RegistryOK, TypeOK, Known
  <2>6. LifeOK'
    <3>1. op' \in [Requests \cup Workers -> Ops]
      BY <1>1, OpEffect, IdleOp
    <3>2. \A h \in Requests : op'[h] = Idle \/ RequestOK(op[h])'
      BY <1>1, <2>1, <2>2, <2>3, NoneApart DEF TypeOK, RequestOK
    <3>3. \A v \in Workers : op'[v] = Idle \/ LifespanOK(v, op[v])'
      BY <2>1, <2>3 DEF TypeOK, LifespanOK
    <3> QED BY <1>2, <2>1, <3>1, <3>2, <3>3 DEF LifeOK, TypeOK, Idle
  <2>7. DownOK'
    BY <1>1, <2>1, <2>2, <2>4 DEF DownOK, TypeOK, Known
  <2>8. ShuttingDown'
    BY <1>1, <2>3, IdleOp, NoneApart DEF ShuttingDown, Known
  <2>9. Numbered'
    BY <1>1, <2>4, FS_EmptySet DEF Numbered, Known
  <2> QED BY <2>5, <2>6, <2>7, <2>8, <2>9, TypePartsNext
<1> QED BY <1>1, <1>3, <1>4

LEMMA ResumeInductive ==
  ASSUME Inductive, NEW w \in Workers, Resume(w)
  PROVE  Inductive'
<1> USE DEF Inductive
<1> DEFINE o == [op[w] EXCEPT !.step = "stop"]
<1>1. op[w].step = "await" /\ UNCHANGED <<row, runtime, up, led>>
  BY DEF Resume
<1>2. op[w] # Idle
  BY <1>1, IdleOp
<1>3. LifespanOK(w, op[w]) /\ op[w] \in Ops
  BY <1>2, AtWork
<1>4. op[w].kind \in {"unload", "shutdown"} /\ w \in up
  BY <1>1, <1>3 DEF LifespanOK
<1>5. op' = [op EXCEPT ![w] = o]
  BY <1>4 DEF Resume
<1>6. o \in Ops /\ o.at = op[w].at /\ o.kind = op[w].kind /\ o.ids = op[w].ids /\ o.step = "stop"
  BY <1>3 DEF Ops
<1>7. LifespanOK(w, o)
  BY <1>3, <1>4, <1>6 DEF LifespanOK
<1>8. o.kind = "shutdown" => Known(w) \subseteq o.ids /\ \A h \in Requests : op[h].at # w
  BY <1>6 DEF ShuttingDown
<1>9. led' \in [Workers -> BOOLEAN]
  BY <1>1 DEF TypeOK
<1> HIDE DEF o
<1> QED BY <1>1, <1>5, <1>6, <1>7, <1>8, <1>9, LifespanGoesOn

LEMMA ShutdownInductive ==
  ASSUME Inductive, NEW w \in Workers, Shutdown(w)
  PROVE  Inductive'
<1> USE DEF Inductive
<1> DEFINE o == [Idle EXCEPT !.kind = "shutdown", !.at = w, !.step = "stop", !.ids = Known(w)]
<1>1. w \in up /\ UNCHANGED <<row, runtime, up, led>> /\ op' = [op EXCEPT ![w] = o]
      /\ \A h \in Requests : op[h].at # w
  BY DEF Shutdown
<1>2. o \in Ops /\ o.at = w /\ o.kind = "shutdown" /\ o.ids = Known(w) /\ o.step = "stop"
  BY DEF Idle, Ops, Known
<1>3. LifespanOK(w, o)
  BY <1>1, <1>2 DEF LifespanOK
<1>4. led' \in [Workers -> BOOLEAN]
  BY <1>1 DEF TypeOK
<1> HIDE DEF o
<1> QED BY <1>1, <1>2, <1>3, <1>4, LifespanGoesOn

LEMMA KillInductive ==
  ASSUME Inductive, NEW w \in Workers, Kill(w)
  PROVE  Inductive'
<1> USE DEF Inductive
<1>1. /\ UNCHANGED <<row, jobs, overlaid>> /\ up' = up \ {w} /\ led' = [led EXCEPT ![w] = FALSE]
      /\ reg' = [reg EXCEPT ![w] = [t \in Triggers |-> None]]
      /\ watching' = [watching EXCEPT ![w] = {}]
      /\ op' = [h \in DOMAIN op |-> IF op[h].at = w THEN Idle ELSE op[h]]
  BY DEF Kill
<1>2. DOMAIN op = Requests \cup Workers
  BY DEF TypeOK
<1>3. \A g \in Requests \cup Workers : op'[g] = IF op[g].at = w THEN Idle ELSE op[g]
  BY <1>1, <1>2
<1>4. \A v \in Workers : watching'[v] = IF v = w THEN {} ELSE watching[v]
  BY <1>1 DEF TypeOK
<1>5. \A v \in Workers, t \in Triggers : reg'[v][t] = IF v = w THEN None ELSE reg[v][t]
  BY <1>1 DEF TypeOK
<1>6. RowOK'
  BY <1>1 DEF RowOK, TypeOK
<1>7. RegistryOK'
  <2>1. reg' \in [Workers -> [Triggers -> Instances \cup {None}]]
    BY <1>1 DEF TypeOK
  <2>2. jobs' \in [Triggers -> Configs \cup {None}] /\ watching' \in [Workers -> SUBSET (Triggers \X Nat)]
    BY <1>1 DEF TypeOK
  <2>3. \A v \in Workers, t \in Triggers : reg'[v][t] # None => reg'[v][t].config.starts
    BY <1>5 DEF TypeOK, Known
  <2> QED BY <2>1, <2>2, <2>3 DEF RegistryOK
<1>8. LifeOK'
  <2>1. op' \in [Requests \cup Workers -> Ops]
    <3>1. \A g \in Requests \cup Workers : op'[g] \in Ops
      BY <1>3, IdleOp DEF TypeOK
    <3> QED BY <1>1, <1>2, <3>1
  <2>2. \A h \in Requests : op'[h] = Idle \/ RequestOK(op[h])'
    BY <1>1, <1>3 DEF TypeOK, RequestOK
  <2>3. \A v \in Workers : op'[v] = Idle \/ LifespanOK(v, op[v])'
    BY <1>1, <1>3 DEF TypeOK, LifespanOK
  <2>4. led' \in [Workers -> BOOLEAN] /\ up' \subseteq Workers
    BY <1>1 DEF TypeOK
  <2> QED BY <2>1, <2>2, <2>3, <2>4 DEF LifeOK, Idle
<1>9. DownOK'
  BY <1>1, <1>4, <1>5 DEF DownOK, TypeOK, Known
<1>10. ShuttingDown'
  BY <1>3, <1>5, IdleOp, NoneApart DEF ShuttingDown, Known
<1>11. Numbered'
  <2>1. ASSUME NEW v \in Workers PROVE IsFiniteSet(watching'[v])
    BY <1>4, FS_EmptySet DEF Numbered
  <2>2. ASSUME NEW v \in Workers, NEW x \in watching'[v], x[1] \notin overlaid'
        PROVE  x[1] \in Known(v)' /\ reg'[v][x[1]].n = x[2] /\ reg'[v][x[1]].config.type = "file_watch"
    <3>1. v # w /\ x \in watching[v]
      BY <1>4, <2>2
    <3>2. x[1] \in Known(v) /\ reg[v][x[1]].n = x[2] /\ reg[v][x[1]].config.type = "file_watch"
      BY <1>1, <2>2, <3>1 DEF Numbered
    <3> QED BY <1>5, <3>1, <3>2 DEF Known
  <2> QED BY <2>1, <2>2 DEF Numbered
<1> QED BY <1>6, <1>7, <1>8, <1>9, <1>10, <1>11, TypePartsNext

LEMMA WatchFailsInductive ==
  ASSUME Inductive, NEW w \in Workers, WatchFails(w)
  PROVE  Inductive'
<1> USE DEF Inductive
<1>1. /\ UNCHANGED <<row, jobs, overlaid, up, led, reg, op>>
      /\ \E x \in watching[w] : watching' = [watching EXCEPT ![w] = @ \ {x}]
  BY DEF WatchFails
<1>2. watching' \in [Workers -> SUBSET (Triggers \X Nat)]
  BY <1>1 DEF TypeOK
<1>3. \A v \in Workers : watching'[v] \subseteq watching[v]
  BY <1>1 DEF TypeOK
<1>4. RowOK' /\ LifeOK' /\ RegistryOK' /\ DownOK'
  <2>1. RowOK /\ LifeOK /\ RegistryOK /\ DownOK
    BY TypeParts
  <2>2. RowOK' /\ RegistryOK'
    BY <1>1, <1>2, <2>1 DEF RowOK, RegistryOK
  <2>3. LifeOK'
    BY <1>1, <2>1 DEF LifeOK, RequestOK, LifespanOK
  <2>4. DownOK'
    BY <1>1, <1>3, <2>1 DEF DownOK
  <2> QED BY <2>2, <2>3, <2>4
<1>5. ShuttingDown'
  BY <1>1 DEF ShuttingDown, Known
<1>6. Numbered'
  BY <1>1, <1>3, FS_Subset DEF Numbered, Known
<1> QED BY <1>4, <1>5, <1>6, TypePartsNext

LEMMA CreateInductive ==
  ASSUME Inductive, NEW t \in Triggers, NEW c \in Configs, NEW enabled \in BOOLEAN, Create(t, c, enabled)
  PROVE  Inductive'
<1> USE DEF Inductive
<1>1. /\ row' = [row EXCEPT ![t] = [state |-> "live", enabled |-> enabled, config |-> c]]
      /\ UNCHANGED <<jobs, up, led, reg, watching, op, overlaid>>
  BY DEF Create
<1>2. RowOK' /\ RowsStay
  <2> DEFINE r == [state |-> "live", enabled |-> enabled, config |-> c]
  <2>1. r \in [state : {"none", "live", "deleted"}, enabled : BOOLEAN, config : Configs \cup {None}]
    OBVIOUS
  <2>2. r.state = "live" /\ r.config = c
    OBVIOUS
  <2>3. row' = [row EXCEPT ![t] = r]
    BY <1>1
  <2> HIDE DEF r
  <2> QED BY <2>1, <2>2, <2>3 DEF RowOK, RowsStay, TypeOK
<1>3. RowOK /\ LifeOK /\ RegistryOK /\ DownOK
  BY TypeParts
<1>4. LifeOK'
  BY <1>1, <1>2, <1>3 DEF LifeOK, RequestOK, LifespanOK, RowsStay
<1>5. RegistryOK' /\ DownOK' /\ ShuttingDown' /\ Numbered'
  BY <1>1, <1>3 DEF RegistryOK, DownOK, ShuttingDown, Numbered, Known
<1> QED BY <1>2, <1>4, <1>5, TypePartsNext

LEMMA InductiveKept == Inductive /\ [Next]_vars => Inductive'
<1> SUFFICES ASSUME Inductive, [Next]_vars PROVE Inductive'
  OBVIOUS
<1>1. ASSUME NEW t \in Triggers, NEW c \in Configs, NEW enabled \in BOOLEAN, Create(t, c, enabled)
      PROVE  Inductive'
  BY <1>1, CreateInductive
<1>2. ASSUME NEW h \in Requests, Administer(h) PROVE Inductive'
  BY <1>2, AdministerInductive
<1>3. ASSUME NEW w \in Workers, Live(w) PROVE Inductive'
  BY <1>3, StartInductive, LoadInductive, BeatInductive, StopNextInductive, StoppedAllInductive,
     ResumeInductive, ShutdownInductive, KillInductive DEF Live
<1>4. ASSUME NEW w \in Workers, WatchFails(w) PROVE Inductive'
  BY <1>4, WatchFailsInductive
<1>5. CASE UNCHANGED vars
  <2>1. UNCHANGED <<row, up, led, op>> /\ UNCHANGED runtime
    BY <1>5 DEF vars, runtime
  <2>2. RowOK /\ LifeOK /\ RegistryOK /\ DownOK
    BY TypeParts DEF Inductive
  <2>3. RowOK' /\ LifeOK' /\ RegistryOK' /\ DownOK'
    BY <2>1, <2>2 DEF runtime, RowOK, LifeOK, RegistryOK, DownOK, RequestOK, LifespanOK
  <2>4. ShuttingDown' /\ Numbered'
    BY <2>1 DEF Inductive, runtime, ShuttingDown, Numbered, Known
  <2> QED BY <2>3, <2>4, TypePartsNext DEF Inductive
<1> QED BY <1>1, <1>2, <1>3, <1>4, <1>5 DEF Next

LEMMA InductiveAlways == Spec => []Inductive
<1>1. Init => Inductive
  BY InitInductive
<1>2. Inductive /\ [Next]_vars => Inductive'
  BY InductiveKept
<1> QED BY <1>1, <1>2, PTL DEF Spec

\* The registries, the job store and what requests and lifespans do keep
\* their types: a worker that is down holds nothing, and nothing is
\* registered that cannot start (registry.py).
THEOREM TypeCorrect == Spec => []TypeOK
<1>1. Inductive => TypeOK
  BY DEF Inductive
<1> QED BY <1>1, InductiveAlways, PTL

\* However many workers, requests, restarts and faults: a watch task that no
\* registry can stop was registered over (registry.py:188, file_watch_trigger.py:58).
THEOREM OrphansAreOverlaid == Spec => []OrphansOverlaid
<1>1. Inductive => OrphansOverlaid
  BY DEF Inductive, Numbered, OrphansOverlaid
<1> QED BY <1>1, InductiveAlways, PTL
-----------------------------------------------------------------------------
(* What is wanted, for one worker.  Between the statement on the row and   *)
(* the last step of a request, the registry may be behind the row; the     *)
(* invariant says which request will bring it up to date.                  *)

OneWorker == \A v, w \in Workers : v = w

\* All that work on one registry wait for a watch task, but one.
OneAtATime ==
  \A g, h \in Requests \cup Workers :
    g # h /\ op[g].at = op[h].at /\ op[g].at # None => op[g].step = "await" \/ op[h].step = "await"

StopsHere(o, w, t) == o.at = w /\ o.step = "stop" /\ o.t = t

ReloadsHere(o, w, t) ==
  /\ o.at = w /\ o.t = t
  /\ o.step = "register" \/ (o.kind = "update" /\ o.step \in {"stop", "await", "fetch"})

\* What a request knows of the row of its trigger.
Abreast(o) ==
  /\ o.step = "write" /\ o.kind # "delete" =>
       row[o.t].state = "live" /\ (o.kind # "update" => o.config = row[o.t].config)
  /\ o.step = "register" /\ o.t \notin lost => Wanted(o.t) /\ o.config = row[o.t].config
  /\ o.step = "stop" /\ o.kind \in {"disable", "delete"} /\ o.t \notin lost => ~Wanted(o.t)

AboutRows == \A h \in Requests : Abreast(op[h])

\* A worker that starts loads what is wanted.
Loading ==
  \A w \in Workers : op[w].step = "load" =>
    /\ \A t \in op[w].ids : op[w].config[t] = row[t].config /\ Wanted(t)
    /\ \A t \in Triggers : t \notin lost /\ Wanted(t) /\ (led[w] \/ row[t].config.type = "cron") => t \in op[w].ids

Agreeing ==
  \A w \in Workers : \A t \in Triggers : t \notin lost /\ reg[w][t] # None =>
    \/ Wanted(t) /\ reg[w][t].config = row[t].config
    \/ \E h \in Requests : StopsHere(op[h], w, t)

\* Whether the worker is to run the triggers that are not cron ones.
Leads(w) == led[w] /\ op[w].kind # "unload"

Covered ==
  \A w \in up : op[w].kind # "shutdown" => \A t \in Triggers :
    /\ t \notin lost /\ t \notin missed /\ Wanted(t) /\ row[t].config.starts
    /\ row[t].config.type = "cron" \/ Leads(w)
    => reg[w][t] # None \/ \E h \in Requests : ReloadsHere(op[h], w, t)

Job(w, t) == IF reg[w][t] # None /\ reg[w][t].config.type = "cron" THEN reg[w][t].config ELSE None

\* The jobs that a worker leaves when it ends are those it will have again.
JobsKept ==
  \A w \in Workers : \A t \in Triggers : t \notin torn /\ t \notin lost =>
    IF w \in up THEN jobs[t] = Job(w, t)
    ELSE jobs[t] # None => Wanted(t) /\ jobs[t] = row[t].config /\ jobs[t].starts /\ jobs[t].type = "cron"

Abiding == OneAtATime /\ AboutRows /\ Loading /\ Agreeing /\ Covered /\ JobsKept

LEMMA InitAbiding == Init => Abiding
<1> SUFFICES ASSUME Init PROVE Abiding
  OBVIOUS
<1>1. \A h \in Requests \cup Workers : op[h].at = None /\ op[h].step = "idle"
  BY DEF Init, Idle
<1> QED BY <1>1 DEF Init, Abiding, OneAtATime, AboutRows, Abreast, Loading, Agreeing, Covered, JobsKept

\* While one works on the registry and does not wait, the others do.
LEMMA Alone ==
  ASSUME OneAtATime, NEW h \in Requests \cup Workers, op[h].at # None, op[h].step # "await"
  PROVE  /\ \A g \in Requests \cup Workers : g # h /\ op[g].at = op[h].at => op[g].step = "await"
         /\ \A t \in Triggers : \A g \in Requests : g # h => ~StopsHere(op[g], op[h].at, t)
BY DEF OneAtATime, StopsHere

LEMMA OneKept ==
  ASSUME TypeOK, OneAtATime, NEW h \in Requests \cup Workers, NEW o \in Ops, op' = [op EXCEPT ![h] = o],
         \/ o.at = None \/ o.step = "await"
         \/ \A g \in Requests \cup Workers : g # h /\ op[g].at = o.at => op[g].step = "await"
  PROVE  OneAtATime'
<1>1. \A g \in Requests \cup Workers : op'[g] = IF g = h THEN o ELSE op[g]
  BY OpEffect
<1> QED BY <1>1 DEF OneAtATime

LEMMA NotLoading ==
  ASSUME TypeOK, OneWorker, NEW w \in up
  PROVE  \A v \in Workers : v = w /\ op[v].step # "load"
<1>1. w \in Workers
  BY DEF TypeOK
<1>2. \A v \in Workers : v = w
  BY <1>1 DEF OneWorker
<1>3. op[w].step # "load"
  <2>1. op[w] = Idle \/ LifespanOK(w, op[w])
    BY <1>1 DEF TypeOK
  <2> QED BY <2>1, IdleOp DEF LifespanOK
<1> QED BY <1>2, <1>3

\* A request or a lifespan goes on and the registries stay.
LEMMA AbidesQuietly ==
  ASSUME Inductive, Abiding, NEW h \in Requests \cup Workers, NEW o \in Ops, op' = [op EXCEPT ![h] = o],
         UNCHANGED <<row, runtime, up, torn>>, lost \subseteq lost', OneAtATime', Loading',
         h \in Requests => Abreast(o),
         \A w \in Workers : \A t \in Triggers : h \in Requests /\ StopsHere(op[h], w, t) => StopsHere(o, w, t),
         \A w \in Workers : \A t \in Triggers : h \in Requests /\ ReloadsHere(op[h], w, t) =>
            ReloadsHere(o, w, t) \/ t \in lost' \/ ~Wanted(t),
         h \in up => /\ op[h].kind = "shutdown" => o.kind = "shutdown"
                     /\ led'[h] /\ o.kind # "unload" =>
                          Leads(h) \/ \A t \in Triggers : Wanted(t) /\ row[t].config.type # "cron" /\ t \notin lost' => reg[h][t] # None,
         \A w \in up : w # h => led'[w] = led[w]
  PROVE  Abiding'
<1> USE DEF Inductive, Abiding
<1>1. \A g \in Requests \cup Workers : op'[g] = IF g = h THEN o ELSE op[g]
  BY OpEffect
<1>2. /\ row' = row /\ reg' = reg /\ jobs' = jobs /\ missed' = missed /\ up' = up /\ torn' = torn
      /\ \A t \in Triggers : t \notin lost' => t \notin lost
  BY DEF runtime
<1>3. AboutRows'
  <2>1. \A g \in Requests : Abreast(op'[g])
    BY <1>1 DEF AboutRows
  <2>2. ASSUME NEW g \in Requests PROVE Abreast(op[g])'
    BY <1>2, <2>1 DEF Abreast, Wanted
  <2> QED BY <2>2 DEF AboutRows
<1>4. \A w \in Workers : \A t \in Triggers : \A g \in Requests :
        StopsHere(op[g], w, t) => StopsHere(op'[g], w, t)
  BY <1>1
<1>5. \A w \in Workers : \A t \in Triggers : \A g \in Requests : t \notin lost' /\ Wanted(t) =>
        (ReloadsHere(op[g], w, t) => ReloadsHere(op'[g], w, t))
  BY <1>1
<1>6. Agreeing'
  <2> SUFFICES ASSUME NEW w \in Workers, NEW t \in Triggers, t \notin lost', reg'[w][t] # None
               PROVE  \/ Wanted(t) /\ reg[w][t].config = row[t].config
                      \/ \E g \in Requests : StopsHere(op'[g], w, t)
    BY <1>2 DEF Agreeing, Wanted, StopsHere
  <2> QED BY <1>2, <1>4 DEF Agreeing
<1>7. Covered'
  <2> SUFFICES ASSUME NEW w \in up, op'[w].kind # "shutdown", NEW t \in Triggers,
                      t \notin lost', t \notin missed, Wanted(t), row[t].config.starts,
                      row[t].config.type = "cron" \/ (led'[w] /\ op'[w].kind # "unload")
               PROVE  reg[w][t] # None \/ \E g \in Requests : ReloadsHere(op'[g], w, t)
    BY <1>2 DEF Covered, Wanted, ReloadsHere, Leads
  <2>1. w \in Workers /\ w \in Requests \cup Workers
    BY DEF TypeOK
  <2>2. op[w].kind # "shutdown" /\ (led'[w] /\ op'[w].kind # "unload" /\ row[t].config.type # "cron" => Leads(w) \/ reg[w][t] # None)
    BY <1>1, <2>1 DEF Leads
  <2>3. reg[w][t] # None \/ \E g \in Requests : ReloadsHere(op[g], w, t)
    BY <1>2, <2>2 DEF Covered
  <2> QED BY <1>5, <2>1, <2>3
<1>8. JobsKept'
  BY <1>2 DEF JobsKept, Job, Wanted
<1> QED BY <1>3, <1>6, <1>7, <1>8
Fit(ids, config) == \A t \in ids : config[t] \in Configs

LEMMA RegisterEntries ==
  ASSUME TypeOK, Numbered, NEW w \in Workers, NEW ids \in SUBSET Triggers,
         NEW config \in [Triggers -> Configs \cup {None}], Fit(ids, config), Registering(w, ids, config)
  PROVE  /\ missed' = missed \ ids
         /\ \A t \in Triggers : jobs'[t] = IF t \in ids /\ config[t].starts /\ config[t].type = "cron"
                                           THEN config[t] ELSE jobs[t]
         /\ \A t \in Triggers : t \notin ids \/ ~config[t].starts => reg'[w][t] = reg[w][t]
         /\ \A t \in ids : config[t].starts => reg'[w][t] # None /\ reg'[w][t].config = config[t]
<1>1. /\ missed' = missed \ ids
      /\ \A t \in Triggers : jobs'[t] = IF t \in ids /\ config[t].starts /\ config[t].type = "cron"
                                        THEN config[t] ELSE jobs[t]
  BY DEF Registering
<1>2. \A t \in Triggers : t \notin ids \/ ~config[t].starts => reg'[w][t] = reg[w][t]
  BY DEF Registering, TypeOK
<1>3. \A t \in ids : config[t].starts => reg'[w][t] # None /\ reg'[w][t].config = config[t]
  BY RegisterEffect DEF Fit
<1> QED BY <1>1, <1>2, <1>3

AsRows(ids, config) == \A t \in ids : t \notin lost => Wanted(t) /\ config[t] = row[t].config

NobodyStops(w) == \A t \in Triggers : \A g \in Requests : ~StopsHere(op[g], w, t)

NobodyLoads == \A v \in Workers : op[v].step # "load"

\* When h has registered ids, what w should run besides is registered, or will be.
RestCovered(w, h, ids) ==
  \A t \in Triggers : t \notin ids /\ t \notin lost /\ t \notin missed /\ Wanted(t) /\ row[t].config.starts
    /\ (row[t].config.type = "cron" \/ Leads(w)')
      => reg[w][t] # None \/ \E g \in Requests : g # h /\ ReloadsHere(op[g], w, t)

JobsReady(w, ids, config) ==
  \A t \in Triggers : t \notin torn /\ t \notin lost =>
    \/ jobs[t] = Job(w, t)
    \/ reg[w][t] = None /\ t \in ids /\ config[t] = jobs[t] /\ config[t].starts /\ config[t].type = "cron"

\* Instances are registered, in the configurations of the rows, and nobody is
\* about to stop one.
LEMMA AbidesRegistered ==
  ASSUME Inductive, Abiding, OneWorker, NEW w \in Workers, NEW h \in Requests \cup Workers,
         NEW ids \in SUBSET Triggers, NEW config \in [Triggers -> Configs \cup {None}],
         Fit(ids, config), Registering(w, ids, config), op' = [op EXCEPT ![h] = Idle],
         up' = up \cup {w}, UNCHANGED <<row, torn, lost>>, NobodyLoads',
         AsRows(ids, config), NobodyStops(w), RestCovered(w, h, ids), JobsReady(w, ids, config)
  PROVE  Abiding'
<1> USE DEF Inductive, Abiding, AsRows, NobodyStops, NobodyLoads, RestCovered, JobsReady
<1>1. /\ \A g \in Requests \cup Workers : g # h => op'[g] = op[g]
      /\ op'[h] = Idle
  BY OpEffect, IdleOp
<1>2. \A v \in Workers : v = w
  BY DEF OneWorker
<1>3. /\ missed' = missed \ ids
      /\ \A t \in Triggers : jobs'[t] = IF t \in ids /\ config[t].starts /\ config[t].type = "cron"
                                        THEN config[t] ELSE jobs[t]
      /\ \A t \in Triggers : t \notin ids \/ ~config[t].starts => reg'[w][t] = reg[w][t]
      /\ \A t \in ids : config[t].starts => reg'[w][t] # None /\ reg'[w][t].config = config[t]
  BY RegisterEntries
<1>5. OneAtATime'
  BY OneKept, IdleOp
<1>6. AboutRows'
  <2>1. ASSUME NEW g \in Requests PROVE Abreast(op[g])'
    <3>1. Abreast(op[g])
      BY DEF AboutRows
    <3> QED BY <1>1, <3>1, IdleOp DEF Abreast, Wanted
  <2> QED BY <2>1 DEF AboutRows
<1>7. Loading'
  BY DEF Loading
<1>8. Agreeing'
  <2> SUFFICES ASSUME NEW t \in Triggers, t \notin lost, reg'[w][t] # None
               PROVE  Wanted(t) /\ reg'[w][t].config = row[t].config
    BY <1>2 DEF Agreeing, Wanted
  <2>1. CASE t \in ids /\ config[t].starts
    BY <1>3, <2>1
  <2>2. CASE ~(t \in ids /\ config[t].starts)
    BY <1>3, <2>2 DEF Agreeing
  <2> QED BY <2>1, <2>2
<1>9. Covered'
  <2> SUFFICES ASSUME NEW t \in Triggers, t \notin lost, t \notin missed', Wanted(t), row[t].config.starts,
                      row[t].config.type = "cron" \/ Leads(w)'
               PROVE  reg'[w][t] # None \/ \E g \in Requests : ReloadsHere(op'[g], w, t)
    <3>1. \A v \in up' : v = w
      BY <1>2 DEF TypeOK
    <3> QED BY <3>1 DEF Covered, Wanted, ReloadsHere
  <2>1. CASE t \in ids
    BY <1>3, <2>1
  <2>2. CASE t \notin ids
    <3>1. reg[w][t] # None \/ \E g \in Requests : g # h /\ ReloadsHere(op[g], w, t)
      BY <1>3, <2>2
    <3> QED BY <1>1, <1>3, <2>2, <3>1
  <2> QED BY <2>1, <2>2
<1>10. JobsKept'
  <2> SUFFICES ASSUME NEW t \in Triggers, t \notin torn, t \notin lost
               PROVE  jobs'[t] = Job(w, t)'
    BY <1>2 DEF JobsKept
  <2>1. CASE t \in ids /\ config[t].starts /\ config[t].type = "cron"
    BY <1>3, <2>1 DEF Job
  <2>2. CASE t \in ids /\ config[t].starts /\ config[t].type # "cron"
    <3>1. jobs'[t] = jobs[t] /\ Job(w, t)' = None /\ jobs[t] = Job(w, t)
      BY <1>3, <2>2 DEF Job
    <3>2. reg[w][t] # None => reg[w][t].config = row[t].config
      BY DEF Agreeing
    <3> QED BY <2>2, <3>1, <3>2 DEF Job
  <2>3. CASE ~(t \in ids /\ config[t].starts)
    BY <1>3, <2>3 DEF Job
  <2> QED BY <2>1, <2>2, <2>3
<1> QED BY <1>5, <1>6, <1>7, <1>8, <1>9, <1>10

\* A trigger leaves the registry.
LEMMA AbidesStopped ==
  ASSUME Inductive, Abiding, OneWorker, NEW w \in up, NEW h \in Requests \cup Workers, NEW o \in Ops,
         NEW t \in Triggers, op' = [op EXCEPT ![h] = o], Stopped(w, t),
         UNCHANGED <<row, up, led, lost, torn>>, missed \subseteq missed', OneAtATime',
         o.step \notin {"load", "register", "write", "stop"} \/ h = w, h \in Workers => o.step # "load",
         h \in Workers => o.kind = op[w].kind /\ h = w,
         h \in Requests => op[h].t = t,
         t \in lost \/ t \in missed' \/ ~Wanted(t) \/ ~row[t].config.starts \/ op[w].kind = "shutdown"
           \/ (h \in Requests /\ ReloadsHere(o, w, t)) \/ (row[t].config.type # "cron" /\ ~Leads(w))
           \/ (h \in Workers /\ reg[w][t] = None)
  PROVE  Abiding'
<1> USE DEF Inductive, Abiding
<1>1. /\ \A g \in Requests \cup Workers : g # h => op'[g] = op[g]
      /\ op'[h] = o
  BY OpEffect
<1>2. w \in Workers /\ \A v \in Workers : v = w /\ op[v].step # "load"
  BY NotLoading DEF TypeOK
<1>3. /\ \A u \in Triggers : u # t => reg'[w][u] = reg[w][u]
      /\ reg'[w][t] = None
  BY <1>2, StopEffect
<1>4. \A u \in Triggers : jobs'[u] = IF u = t /\ reg[w][t] # None /\ reg[w][t].config.type = "cron" THEN None ELSE jobs[u]
  BY DEF Stopped, TypeOK, Known
<1>5. AboutRows'
  <2>1. ASSUME NEW g \in Requests PROVE Abreast(op[g])'
    <3>1. Abreast(op[g])
      BY DEF AboutRows
    <3> QED BY <1>1, <1>2, <3>1, NoneApart DEF Abreast, Wanted
  <2> QED BY <2>1 DEF AboutRows
<1>6. Loading'
  <2>1. \A v \in Workers : op'[v].step # "load"
    BY <1>1, <1>2
  <2> QED BY <2>1 DEF Loading
<1>7. Agreeing'
  <2> SUFFICES ASSUME NEW u \in Triggers, u \notin lost, reg'[w][u] # None
               PROVE  \/ Wanted(u) /\ reg'[w][u].config = row[u].config
                      \/ \E g \in Requests : StopsHere(op'[g], w, u)
    BY <1>2 DEF Agreeing, Wanted, StopsHere
  <2>1. u # t /\ reg[w][u] # None /\ reg'[w][u] = reg[w][u]
    BY <1>3
  <2>2. \/ Wanted(u) /\ reg[w][u].config = row[u].config
        \/ \E g \in Requests : StopsHere(op[g], w, u)
    BY <1>2, <2>1 DEF Agreeing
  <2>3. \A g \in Requests : StopsHere(op[g], w, u) => g # h
    BY <2>1 DEF StopsHere
  <2> QED BY <1>1, <2>1, <2>2, <2>3
<1>8. Covered'
  <2>1. \A v \in up' : v = w
    BY <1>2 DEF TypeOK
  <2>2. op'[w].kind = op[w].kind
    BY <1>1, <1>2, NoneApart
  <2> SUFFICES ASSUME op[w].kind # "shutdown", NEW u \in Triggers, u \notin lost, u \notin missed', Wanted(u),
                      row[u].config.starts, row[u].config.type = "cron" \/ Leads(w)
               PROVE  reg'[w][u] # None \/ \E g \in Requests : ReloadsHere(op'[g], w, u)
    BY <2>1, <2>2 DEF Covered, Wanted, ReloadsHere, Leads
  <2>3. CASE u = t
    <3>1. CASE h \in Workers /\ reg[w][t] = None
      <4>1. \E g \in Requests : ReloadsHere(op[g], w, u)
        BY <2>3, <3>1 DEF Covered
      <4> QED BY <1>1, <3>1, <4>1, NoneApart
    <3> QED BY <1>1, <2>3, <3>1
  <2>4. CASE u # t
    <3>1. reg[w][u] # None \/ \E g \in Requests : ReloadsHere(op[g], w, u)
      BY DEF Covered
    <3>2. \A g \in Requests : ReloadsHere(op[g], w, u) => g # h
      BY <2>4 DEF ReloadsHere
    <3> QED BY <1>1, <1>3, <2>4, <3>1, <3>2
  <2> QED BY <2>3, <2>4
<1>9. JobsKept'
  <2> SUFFICES ASSUME NEW u \in Triggers, u \notin torn, u \notin lost
               PROVE  jobs'[u] = Job(w, u)'
    BY <1>2 DEF JobsKept
  <2>1. jobs[u] = Job(w, u)
    BY <1>2 DEF JobsKept
  <2> QED BY <1>3, <1>4, <2>1 DEF Job
<1> QED BY <1>5, <1>6, <1>7, <1>8, <1>9

\* A request works on the registry of the one worker, which has not begun to
\* shut down.
LEMMA Administering ==
  ASSUME Inductive, Abiding, OneWorker, NEW h \in Requests, op[h] # Idle
  PROVE  /\ RequestOK(op[h]) /\ op[h] \in Ops /\ op[h].at \in Workers /\ op[h].at \in up /\ op[h].at # None
         /\ h \notin Workers /\ op[op[h].at].kind # "shutdown"
         /\ \A v \in Workers : v = op[h].at /\ op[v].step # "load"
         /\ op[h].step # "await" =>
              /\ \A g \in Requests \cup Workers : g # h /\ op[g].at = op[h].at => op[g].step = "await"
              /\ op[h].step # "stop" => \A t \in Triggers : \A g \in Requests : ~StopsHere(op[g], op[h].at, t)
<1> USE DEF Inductive, Abiding
<1>1. RequestOK(op[h]) /\ op[h] \in Ops /\ op[h].at \in Workers
  BY Located
<1>2. op[h].at \in up /\ op[h].at # None /\ h \notin Workers
  BY <1>1, NoneApart DEF RequestOK
<1>3. \A v \in Workers : v = op[h].at /\ op[v].step # "load"
  BY <1>2, NotLoading
<1>4. op[op[h].at].kind # "shutdown"
  BY <1>1 DEF ShuttingDown
<1>5. ASSUME op[h].step # "await"
      PROVE  /\ \A g \in Requests \cup Workers : g # h /\ op[g].at = op[h].at => op[g].step = "await"
             /\ op[h].step # "stop" => \A t \in Triggers : \A g \in Requests : ~StopsHere(op[g], op[h].at, t)
  <2>1. \A g \in Requests \cup Workers : g # h /\ op[g].at = op[h].at => op[g].step = "await"
    BY <1>2, <1>5, Alone
  <2> QED BY <2>1 DEF StopsHere
<1> QED BY <1>1, <1>2, <1>3, <1>4, <1>5

LEMMA AbidesRequest ==
  ASSUME Inductive, Abiding, OneWorker, NEW h \in Requests, NEW w \in Workers, NEW t \in Triggers, NEW c \in Configs,
         NEW kind \in {"update", "enable", "disable", "delete"}, kind # "update" => c = row[t].config,
         Request(h, w, kind, t, c)
  PROVE  Abiding'
<1> USE DEF Inductive, Abiding
<1> DEFINE o == [Idle EXCEPT !.kind = kind, !.at = w, !.step = "write", !.t = t,
                             !.config = IF kind = "update" THEN c ELSE row[t].config]
<1>1. /\ op[h] = Idle /\ w \in up /\ Free(w) /\ op' = [op EXCEPT ![h] = o]
      /\ UNCHANGED <<row, runtime, up, led, torn, lost>>
      /\ row[t].state = "live" \/ kind = "delete"
  BY DEF Request
<1>2. row[t].state # "none" /\ row[t].config \in Configs
  BY DEF TypeOK, Request
<1>3. o \in Ops /\ o.at = w /\ o.step = "write" /\ o.kind = kind /\ o.t = t
      /\ o.config = IF kind = "update" THEN c ELSE row[t].config
  BY <1>2 DEF Idle, Ops
<1> HIDE DEF o
<1>4. OneAtATime'
  <2>1. \A g \in Requests \cup Workers : g # h /\ op[g].at = o.at => op[g].step = "await"
    BY <1>1, <1>3 DEF Free, TypeOK
  <2> QED BY <1>1, <1>3, <2>1, OneKept
<1>5. Loading'
  <2>1. \A v \in Workers : op'[v].step # "load"
    BY <1>1, <1>3, NotLoading, OpEffect
  <2> QED BY <2>1 DEF Loading
<1>6. Abreast(o)
  BY <1>1, <1>3 DEF Abreast
<1>7. \A v \in Workers : \A u \in Triggers : ~StopsHere(op[h], v, u) /\ ~ReloadsHere(op[h], v, u)
  BY <1>1, IdleOp, NoneApart DEF StopsHere, ReloadsHere
<1>8. h \notin up /\ \A v \in up : led'[v] = led[v]
  BY <1>1, NoneApart DEF TypeOK
<1> QED BY <1>1, <1>3, <1>4, <1>5, <1>6, <1>7, <1>8, AbidesQuietly

LEMMA WriteEffect ==
  ASSUME TypeOK, NEW t \in Triggers, NEW c \in Configs, NEW b \in BOOLEAN
  PROVE  /\ Write(t, "config", c) \/ Write(t, "enabled", b) \/ Write(t, "state", "deleted") =>
              /\ lost \subseteq lost'
              /\ \A u \in Triggers : u # t => row'[u] = row[u]
              /\ t \in lost' \/ (lost' = lost /\ faults' = faults)
         /\ Write(t, "config", c) => t \in lost' \/ row'[t].config = c
         /\ Write(t, "enabled", b) =>
              t \in lost' \/ (row'[t].enabled = b /\ row'[t].config = row[t].config /\ row'[t].state = row[t].state)
         /\ Write(t, "state", "deleted") => t \in lost' \/ row'[t].state = "deleted"
<1>1. row \in [Triggers -> [state : {"none", "live", "deleted"}, enabled : BOOLEAN, config : Configs \cup {None}]]
  BY DEF TypeOK
<1>2. Write(t, "config", c) \/ Write(t, "enabled", b) \/ Write(t, "state", "deleted") =>
         /\ lost \subseteq lost'
         /\ \A u \in Triggers : u # t => row'[u] = row[u]
         /\ t \in lost' \/ (lost' = lost /\ faults' = faults)
  BY <1>1 DEF Write, Fails
<1>3. Write(t, "config", c) => t \in lost' \/ row'[t].config = c
  BY <1>1 DEF Write, Fails
<1>4. Write(t, "enabled", b) =>
        t \in lost' \/ (row'[t].enabled = b /\ row'[t].config = row[t].config /\ row'[t].state = row[t].state)
  BY <1>1 DEF Write, Fails
<1>5. Write(t, "state", "deleted") => t \in lost' \/ row'[t].state = "deleted"
  BY <1>1 DEF Write, Fails
<1> QED BY <1>2, <1>3, <1>4, <1>5

LEMMA AbidesWrite ==
  ASSUME Inductive, Abiding, OneWorker, NEW h \in Requests, WriteRow(h)
  PROVE  Abiding'
<1> USE DEF Inductive, Abiding
<1> DEFINE t == op[h].t
           o == IF op[h].kind = "delete" /\ faults' # faults THEN Idle
                ELSE [op[h] EXCEPT !.step = IF op[h].kind = "enable" THEN "register" ELSE "stop"]
<1>1. op[h].step = "write" /\ op' = [op EXCEPT ![h] = o] /\ UNCHANGED <<runtime, up, led, torn>>
  BY DEF WriteRow
<1>2. op[h] # Idle
  BY <1>1, IdleOp
<1>w. PICK w \in Workers : w = op[h].at
  BY <1>2, Located
<1>3. /\ RequestOK(op[h]) /\ op[h] \in Ops /\ w \in Workers /\ w \in up /\ w # None
      /\ h \notin Workers /\ op[w].kind # "shutdown"
      /\ \A v \in Workers : v = w /\ op[v].step # "load"
      /\ \A g \in Requests \cup Workers : g # h /\ op[g].at = w => op[g].step = "await"
      /\ \A u \in Triggers : \A g \in Requests : ~StopsHere(op[g], w, u)
  BY <1>1, <1>2, <1>w, Administering
<1>4. t \in Triggers /\ op[h].config \in Configs /\ op[h].kind \in {"update", "enable", "disable", "delete"}
  BY <1>3 DEF RequestOK
<1>5. Abreast(op[h])
  BY DEF AboutRows
<1>6. /\ op[h].kind = "update"  => Write(t, "config", op[h].config)
      /\ op[h].kind = "enable"  => Write(t, "enabled", TRUE)
      /\ op[h].kind = "disable" => Write(t, "enabled", FALSE)
      /\ op[h].kind = "delete"  => Write(t, "state", "deleted")
  BY <1>4 DEF WriteRow
<1>7. o \in Ops
  BY <1>3, IdleOp DEF Ops
<1>8. \/ o = Idle /\ op[h].kind = "delete" /\ faults' # faults
      \/ /\ o.at = w /\ o.t = t /\ o.kind = op[h].kind /\ o.config = op[h].config
         /\ o.step = IF op[h].kind = "enable" THEN "register" ELSE "stop"
  BY <1>3, <1>w DEF Ops
<1> HIDE DEF o, t
<1>9. \A g \in Requests \cup Workers : op'[g] = IF g = h THEN o ELSE op[g]
  BY <1>1, <1>7, OpEffect
<1>10. /\ lost \subseteq lost'
       /\ \A u \in Triggers : u # t => row'[u] = row[u]
       /\ t \in lost' \/ (lost' = lost /\ faults' = faults)
  BY <1>4, <1>6, WriteEffect
<1>11. \/ t \in lost'
       \/ /\ lost' = lost /\ o # Idle
          /\ op[h].kind = "update"  => row'[t].config = op[h].config
          /\ op[h].kind = "enable"  => row'[t].enabled /\ row'[t].config = row[t].config /\ row'[t].state = row[t].state
          /\ op[h].kind = "disable" => ~row'[t].enabled
          /\ op[h].kind = "delete"  => row'[t].state = "deleted"
  <2>1. op[h].kind = "update" => t \in lost' \/ row'[t].config = op[h].config
    BY <1>4, <1>6, WriteEffect
  <2>2. op[h].kind = "enable" => t \in lost' \/ (row'[t].enabled /\ row'[t].config = row[t].config /\ row'[t].state = row[t].state)
    BY <1>4, <1>6, WriteEffect
  <2>3. op[h].kind = "disable" => t \in lost' \/ ~row'[t].enabled
    BY <1>4, <1>6, WriteEffect
  <2>4. op[h].kind = "delete" => t \in lost' \/ row'[t].state = "deleted"
    BY <1>4, <1>6, WriteEffect
  <2>5. lost' = lost /\ faults' = faults => o # Idle
    BY <1>3, <1>8, IdleOp
  <2> QED BY <1>10, <2>1, <2>2, <2>3, <2>4, <2>5
<1>12. reg' = reg /\ jobs' = jobs /\ missed' = missed /\ up' = up /\ led' = led /\ torn' = torn
  BY <1>1 DEF runtime
<1>13. op[h].kind # "delete" => row[t].state = "live" /\ (op[h].kind # "update" => op[h].config = row[t].config)
  BY <1>1, <1>5 DEF Abreast, t
<1>14. OneAtATime'
  BY <1>1, <1>3, <1>7, <1>8, IdleOp, OneKept
<1>15. AboutRows'
  <2>1. ASSUME NEW g \in Requests, g # h PROVE Abreast(op[g])'
    <3>1. op[g] = Idle \/ op[g].at \in Workers
      BY DEF TypeOK, RequestOK
    <3>2. op[g].step \in {"idle", "await"}
      BY <1>3, <2>1, <3>1, IdleOp
    <3> QED BY <1>9, <2>1, <3>2 DEF Abreast
  <2>2. Abreast(op[h])'
    <3>1. op'[h] = o
      BY <1>9
    <3>2. CASE o = Idle
      BY <3>1, <3>2, IdleOp DEF Abreast
    <3>3. CASE o # Idle
      <4>1. o.t = t /\ o.kind = op[h].kind /\ o.config = op[h].config
            /\ o.step = IF op[h].kind = "enable" THEN "register" ELSE "stop"
        BY <1>8, <3>3
      <4>2. CASE op[h].kind = "enable"
        BY <1>11, <1>13, <3>1, <4>1, <4>2 DEF Abreast, Wanted
      <4>3. CASE op[h].kind # "enable"
        BY <1>11, <3>1, <4>1, <4>3 DEF Abreast, Wanted
      <4> QED BY <4>2, <4>3
    <3> QED BY <3>2, <3>3
  <2> QED BY <2>1, <2>2 DEF AboutRows
<1>16. Loading'
  <2>1. \A v \in Workers : op'[v].step # "load"
    BY <1>3, <1>9
  <2> QED BY <2>1 DEF Loading
<1>17. Agreeing'
  <2> SUFFICES ASSUME NEW u \in Triggers, u \notin lost', reg[w][u] # None
               PROVE  \/ Wanted(u)' /\ reg[w][u].config = row'[u].config
                      \/ StopsHere(o, w, u)
    BY <1>3, <1>9, <1>12 DEF Agreeing
  <2>1. Wanted(u) /\ reg[w][u].config = row[u].config
    BY <1>3, <1>10 DEF Agreeing
  <2>2. CASE u # t
    BY <1>10, <2>1, <2>2 DEF Wanted
  <2>3. CASE u = t
    <3>1. o # Idle
      BY <1>11, <2>3
    <3>2. CASE op[h].kind = "enable"
      BY <1>11, <1>13, <2>1, <2>3, <3>2 DEF Wanted
    <3>3. CASE op[h].kind # "enable"
      BY <1>8, <2>3, <3>1, <3>3 DEF StopsHere
    <3> QED BY <3>2, <3>3
  <2> QED BY <2>2, <2>3
<1>18. Covered'
  <2>1. \A v \in up : v = w
    BY <1>3 DEF TypeOK
  <2>2. op'[w] = op[w] /\ (Leads(w)' <=> Leads(w))
    BY <1>3, <1>9, <1>12 DEF Leads
  <2> SUFFICES ASSUME NEW u \in Triggers, u \notin lost', u \notin missed, Wanted(u)', row'[u].config.starts,
                      row'[u].config.type = "cron" \/ Leads(w)
               PROVE  reg[w][u] # None \/ \E g \in Requests : ReloadsHere(op'[g], w, u)
    BY <1>12, <2>1, <2>2 DEF Covered, ReloadsHere
  <2>3. CASE u # t
    <3>1. reg[w][u] # None \/ \E g \in Requests : ReloadsHere(op[g], w, u)
      BY <1>3, <1>10, <2>3 DEF Covered, Wanted
    <3>2. \A g \in Requests : ReloadsHere(op[g], w, u) => g # h
      BY <2>3 DEF ReloadsHere, t
    <3> QED BY <1>9, <3>1, <3>2
  <2>4. CASE u = t
    <3>1. o # Idle
      BY <1>11, <2>4
    <3>2. op[h].kind \in {"update", "enable"}
      BY <1>4, <1>11, <2>4 DEF Wanted
    <3>3. ReloadsHere(o, w, u)
      BY <1>8, <2>4, <3>1, <3>2 DEF ReloadsHere
    <3> QED BY <1>9, <3>3
  <2> QED BY <2>3, <2>4
<1>19. JobsKept'
  <2>1. \A v \in Workers : v \in up
    BY <1>3
  <2>2. \A u \in Triggers : u \notin lost' => u \notin lost
    BY <1>10
  <2> QED BY <1>12, <2>1, <2>2 DEF JobsKept, Job
<1> QED BY <1>14, <1>15, <1>16, <1>17, <1>18, <1>19

LEMMA AbidesEnable ==
  ASSUME Inductive, Abiding, OneWorker, NEW h \in Requests, Enable(h)
  PROVE  Abiding'
<1> USE DEF Inductive, Abiding
<1> DEFINE t == op[h].t
           ids == {t}
           config == [u \in Triggers |-> op[h].config]
<1>1. op[h].step = "register" /\ Registering(op[h].at, ids, config) /\ op' = [op EXCEPT ![h] = Idle]
      /\ UNCHANGED <<row, up, led, torn, lost>>
  BY DEF Enable
<1>2. op[h] # Idle
  BY <1>1, IdleOp
<1>w. PICK w \in Workers : w = op[h].at
  BY <1>2, Located
<1>3. /\ RequestOK(op[h]) /\ w \in Workers /\ w \in up /\ h \notin Workers /\ op[w].kind # "shutdown"
      /\ \A v \in Workers : v = w /\ op[v].step # "load"
      /\ NobodyStops(w)
  BY <1>1, <1>2, <1>w, Administering DEF NobodyStops
<1>4. t \in Triggers /\ op[h].config \in Configs
  BY <1>3 DEF RequestOK
<1>5. ids \in SUBSET Triggers /\ config \in [Triggers -> Configs \cup {None}] /\ Fit(ids, config)
  BY <1>4 DEF Fit
<1>6. t \notin lost => Wanted(t) /\ op[h].config = row[t].config
  BY <1>1 DEF AboutRows, Abreast
<1>7. AsRows(ids, config)
  BY <1>4, <1>6 DEF AsRows
<1>8. \A g \in Requests \cup Workers : op'[g] = IF g = h THEN Idle ELSE op[g]
  BY <1>1, OpEffect, IdleOp
<1>9. RestCovered(w, h, ids)
  <2>1. Leads(w)' <=> Leads(w)
    BY <1>1, <1>3, <1>8 DEF Leads
  <2>2. \A u \in Triggers : u \notin ids => \A g \in Requests : ReloadsHere(op[g], w, u) => g # h
    BY DEF ReloadsHere
  <2> QED BY <1>3, <2>1, <2>2 DEF Covered, RestCovered
<1>10. JobsReady(w, ids, config)
  BY <1>3 DEF JobsKept, JobsReady
<1>11. up' = up \cup {w} /\ NobodyLoads'
  BY <1>1, <1>3, <1>8, IdleOp DEF NobodyLoads
<1> HIDE DEF ids, config
<1> QED BY <1>1, <1>3, <1>5, <1>7, <1>9, <1>10, <1>11, <1>w, AbidesRegistered

LEMMA AbidesFetch ==
  ASSUME Inductive, Abiding, OneWorker, NEW h \in Requests, Fetch(h)
  PROVE  Abiding'
<1> USE DEF Inductive, Abiding
<1> DEFINE t == op[h].t
           ids == {t}
           config == Current
<1>1. op[h].step = "fetch" /\ op' = [op EXCEPT ![h] = Idle] /\ UNCHANGED <<row, up, led, torn>>
  BY DEF Fetch
<1>2. op[h] # Idle
  BY <1>1, IdleOp
<1>w. PICK w \in Workers : w = op[h].at
  BY <1>2, Located
<1>3. /\ RequestOK(op[h]) /\ w \in Workers /\ w \in up /\ h \notin Workers /\ op[w].kind # "shutdown"
      /\ \A v \in Workers : v = w /\ op[v].step # "load"
      /\ NobodyStops(w)
  BY <1>1, <1>2, <1>w, Administering DEF NobodyStops
<1>4. t \in Triggers /\ row[t].config \in Configs
  BY <1>3 DEF RequestOK, TypeOK
<1>5. \A g \in Requests \cup Workers : op'[g] = IF g = h THEN Idle ELSE op[g]
  BY <1>1, OpEffect, IdleOp
<1>6. NobodyLoads'
  BY <1>3, <1>5, IdleOp DEF NobodyLoads
<1>7. CASE Wanted(t) /\ Registering(w, ids, config) /\ lost' = lost
  <2>1. ids \in SUBSET Triggers /\ config \in [Triggers -> Configs \cup {None}] /\ Fit(ids, config)
    BY <1>4 DEF Fit, Current, TypeOK
  <2>2. AsRows(ids, config)
    BY <1>4, <1>7 DEF Current, AsRows
  <2>3. RestCovered(w, h, ids)
    <3>1. Leads(w)' <=> Leads(w)
      BY <1>1, <1>3, <1>5 DEF Leads
    <3>2. \A u \in Triggers : u \notin ids => \A g \in Requests : ReloadsHere(op[g], w, u) => g # h
      BY DEF ReloadsHere
    <3> QED BY <1>3, <3>1, <3>2 DEF Covered, RestCovered
  <2>4. JobsReady(w, ids, config)
    BY <1>3 DEF JobsKept, JobsReady
  <2>5. up' = up \cup {w} /\ UNCHANGED <<row, torn, lost>>
    BY <1>1, <1>3, <1>7
  <2> HIDE DEF ids, config
  <2> QED BY <1>1, <1>3, <1>6, <1>7, <2>1, <2>2, <2>3, <2>4, <2>5, AbidesRegistered
<1>8. CASE UNCHANGED runtime /\ lost \subseteq lost' /\ (t \in lost' \/ ~Wanted(t))
  <2>1. OneAtATime'
    BY <1>1, IdleOp, OneKept
  <2>2. Loading'
    BY <1>6 DEF Loading, NobodyLoads
  <2>3. Abreast(Idle)
    BY IdleOp DEF Abreast
  <2>4. \A v \in Workers : \A u \in Triggers : ~StopsHere(op[h], v, u)
    BY <1>1 DEF StopsHere
  <2>5. \A v \in Workers : \A u \in Triggers : ReloadsHere(op[h], v, u) => u \in lost' \/ ~Wanted(u)
    BY <1>8 DEF ReloadsHere
  <2>6. h \notin up /\ \A v \in up : led'[v] = led[v]
    BY <1>1, <1>3 DEF TypeOK
  <2> HIDE DEF t, ids, config
  <2> QED BY <1>1, <1>8, <2>1, <2>2, <2>3, <2>4, <2>5, <2>6, IdleOp, AbidesQuietly
<1>9. \/ Wanted(t) /\ Registering(w, ids, config) /\ lost' = lost
      \/ UNCHANGED runtime /\ lost \subseteq lost' /\ (t \in lost' \/ ~Wanted(t))
  BY <1>w DEF Fetch, RegisterWanted, Fails
<1> QED BY <1>7, <1>8, <1>9

LEMMA AbidesStopOne ==
  ASSUME Inductive, Abiding, OneWorker, NEW h \in Requests, StopOne(h)
  PROVE  Abiding'
<1> USE DEF Inductive, Abiding
<1>1. op[h].step = "stop" /\ op[h].kind \in {"update", "disable", "delete"} /\ Stopped(op[h].at, op[h].t)
      /\ UNCHANGED <<row, up, led, missed, torn, lost>>
  BY DEF StopOne
<1>2. op[h] # Idle
  BY <1>1, IdleOp
<1>w. PICK w \in Workers : w = op[h].at
  BY <1>2, Located
<1>3. /\ RequestOK(op[h]) /\ op[h] \in Ops /\ w \in up /\ w # None /\ h \notin Workers
      /\ \A g \in Requests \cup Workers : g # h /\ op[g].at = w => op[g].step = "await"
  BY <1>1, <1>2, <1>w, Administering
<1>t. PICK t \in Triggers : t = op[h].t
  BY <1>3 DEF RequestOK
<1> DEFINE o == IF Awaits(w, t) THEN [op[h] EXCEPT !.step = "await"] ELSE Go(op[h])
<1>4. op' = [op EXCEPT ![h] = o]
  BY <1>w, <1>t DEF StopOne
<1>5. o \in Ops
  BY <1>3, IdleOp DEF Go, Ops
<1>6. \/ o.at = w /\ o.t = t /\ o.kind = op[h].kind /\ o.step \in {"await", "fetch"}
      \/ o = Idle /\ op[h].kind \in {"disable", "delete"}
      \/ o.at = w /\ o.step = "await" /\ op[h].kind \in {"disable", "delete"}
  BY <1>1, <1>3, <1>w, <1>t DEF Go, Ops
<1>7. o.step \in {"await", "fetch", "idle"} /\ (o.at = w \/ o.at = None)
  BY <1>6, IdleOp
<1>8. op[h].kind = "update" => ReloadsHere(o, w, t)
  BY <1>6 DEF ReloadsHere
<1>9. op[h].kind \in {"disable", "delete"} => t \in lost \/ ~Wanted(t)
  BY <1>1, <1>t DEF AboutRows, Abreast
<1> HIDE DEF o
<1>10. OneAtATime'
  BY <1>3, <1>4, <1>5, <1>7, OneKept
<1>11. Stopped(w, t) /\ op[h].t = t /\ missed \subseteq missed'
  BY <1>1, <1>w, <1>t
<1>12. t \in lost \/ ~Wanted(t) \/ ReloadsHere(o, w, t)
  BY <1>1, <1>8, <1>9
<1>13. o.step \notin {"load", "register", "write", "stop"}
  BY <1>7
<1> QED BY <1>1, <1>3, <1>4, <1>5, <1>10, <1>11, <1>12, <1>13, AbidesStopped

LEMMA AbidesRequestResumes ==
  ASSUME Inductive, Abiding, OneWorker, NEW h \in Requests, Resume(h)
  PROVE  Abiding'
<1> USE DEF Inductive, Abiding
<1>1. op[h].step = "await" /\ UNCHANGED <<row, runtime, up, led, torn, lost>>
  BY DEF Resume
<1>2. op[h] # Idle
  BY <1>1, IdleOp
<1>w. PICK w \in Workers : w = op[h].at
  BY <1>2, Located
<1>3. /\ RequestOK(op[h]) /\ op[h] \in Ops /\ w \in up /\ w # None /\ h \notin Workers
      /\ \A v \in Workers : v = w /\ op[v].step # "load"
  BY <1>1, <1>2, <1>w, Administering
<1> DEFINE o == Go(op[h])
<1>4. op' = [op EXCEPT ![h] = o]
  BY <1>3 DEF Resume, RequestOK
<1>5. o \in Ops
  BY <1>3, IdleOp DEF Go, Ops
<1>6. \/ op[h].kind = "update" /\ o.at = w /\ o.t = op[h].t /\ o.kind = "update" /\ o.step = "fetch"
      \/ op[h].kind # "update" /\ o = Idle
  BY <1>3, <1>w DEF Go, Ops
<1> HIDE DEF o
<1>7. OneAtATime'
  <2>1. \A g \in Requests \cup Workers : op[g].at = w => op[g].step = "await"
    BY <1>w DEF Resume, Free, TypeOK
  <2> QED BY <1>4, <1>5, <1>6, <2>1, IdleOp, OneKept
<1>8. Loading'
  <2>1. \A v \in Workers : op'[v].step # "load"
    BY <1>3, <1>4, <1>5, OpEffect
  <2> QED BY <2>1 DEF Loading
<1>9. Abreast(o)
  BY <1>6, IdleOp DEF Abreast
<1>10. \A v \in Workers : \A u \in Triggers : ~StopsHere(op[h], v, u)
  BY <1>1 DEF StopsHere
<1>11. \A v \in Workers : \A u \in Triggers : ReloadsHere(op[h], v, u) => ReloadsHere(o, v, u)
  BY <1>1, <1>6, <1>w DEF ReloadsHere
<1>12. h \notin up /\ \A v \in up : led'[v] = led[v]
  BY <1>1, <1>3 DEF TypeOK
<1> QED BY <1>1, <1>4, <1>5, <1>7, <1>8, <1>9, <1>10, <1>11, <1>12, AbidesQuietly

LEMMA AbidesCreate ==
  ASSUME Inductive, Abiding, OneWorker, NEW t \in Triggers, NEW c \in Configs, NEW enabled \in BOOLEAN,
         Create(t, c, enabled)
  PROVE  Abiding'
<1> USE DEF Inductive, Abiding
<1>1. /\ row[t].state = "none"
      /\ row' = [row EXCEPT ![t] = [state |-> "live", enabled |-> enabled, config |-> c]]
      /\ missed' = IF enabled THEN missed \cup {t} ELSE missed
      /\ UNCHANGED <<jobs, up, led, reg, op, torn, lost>>
  BY DEF Create
<1>2. PICK w \in up : TRUE
  BY DEF Create
<1>3. w \in Workers /\ \A v \in Workers : v = w /\ op[v].step # "load"
  BY NotLoading DEF TypeOK
<1>4. /\ \A u \in Triggers : u # t => row'[u] = row[u]
      /\ row'[t].enabled => t \in missed'
      /\ \A u \in Triggers : u \notin missed' => u \notin missed
  BY <1>1 DEF TypeOK
<1>5. ~Wanted(t) /\ \A h \in Requests : op[h] # Idle => op[h].t # t
  BY <1>1 DEF Wanted, TypeOK, RequestOK
<1>6. OneAtATime'
  BY <1>1 DEF OneAtATime
<1>7. AboutRows'
  <2>1. ASSUME NEW h \in Requests PROVE Abreast(op[h])'
    <3>1. CASE op[h] = Idle
      BY <1>1, <3>1, IdleOp DEF Abreast
    <3>2. CASE op[h] # Idle
      <4>1. op[h].t \in Triggers /\ op[h].t # t /\ Abreast(op[h])
        BY <1>5, <3>2, Located DEF AboutRows
      <4> QED BY <1>1, <1>4, <4>1 DEF Abreast, Wanted
    <3> QED BY <3>1, <3>2
  <2> QED BY <2>1 DEF AboutRows
<1>8. Loading'
  BY <1>1, <1>3 DEF Loading
<1>9. Agreeing'
  <2> SUFFICES ASSUME NEW u \in Triggers, u \notin lost, reg[w][u] # None
               PROVE  (Wanted(u)' /\ reg[w][u].config = row'[u].config) \/ \E h \in Requests : StopsHere(op[h], w, u)
    BY <1>1, <1>3 DEF Agreeing, StopsHere
  <2>1. (Wanted(u) /\ reg[w][u].config = row[u].config) \/ \E h \in Requests : StopsHere(op[h], w, u)
    BY <1>3 DEF Agreeing
  <2>2. CASE u # t
    BY <1>4, <2>1, <2>2 DEF Wanted
  <2>3. CASE u = t
    BY <1>5, <2>1, <2>3
  <2> QED BY <2>2, <2>3
<1>10. Covered'
  <2> SUFFICES ASSUME op[w].kind # "shutdown", NEW u \in Triggers, u \notin lost, u \notin missed', Wanted(u)',
                      row'[u].config.starts, row'[u].config.type = "cron" \/ Leads(w)
               PROVE  reg[w][u] # None \/ \E g \in Requests : ReloadsHere(op[g], w, u)
    <3>1. \A v \in up : v = w
      BY <1>3 DEF TypeOK
    <3> QED BY <1>1, <3>1 DEF Covered, ReloadsHere, Leads
  <2>1. u # t
    BY <1>4 DEF Wanted
  <2>2. Wanted(u) /\ row'[u] = row[u] /\ u \notin missed
    BY <1>4, <2>1 DEF Wanted
  <2> QED BY <2>2 DEF Covered
<1>11. JobsKept'
  BY <1>1, <1>3 DEF JobsKept, Job
<1> QED BY <1>6, <1>7, <1>8, <1>9, <1>10, <1>11

LEMMA AbidesUnchanged ==
  ASSUME Abiding, UNCHANGED <<row, jobs, up, led, reg, op, missed, torn, lost>>
  PROVE  Abiding'
<1> USE DEF Abiding
<1>1. OneAtATime' /\ AboutRows' /\ Loading'
  BY DEF OneAtATime, AboutRows, Abreast, Loading, Wanted
<1>2. Agreeing' /\ Covered' /\ JobsKept'
  BY DEF Agreeing, Covered, JobsKept, Wanted, StopsHere, ReloadsHere, Job, Leads
<1> QED BY <1>1, <1>2

\* The lifespan of the one worker is at work, or its heartbeat.
LEMMA WorkerAtWork ==
  ASSUME Inductive, Abiding, OneWorker, NEW w \in Workers
  PROVE  /\ w \notin Requests /\ w # None /\ w \in Requests \cup Workers
         /\ \A v \in Workers : v = w
         /\ op[w] # Idle => LifespanOK(w, op[w]) /\ op[w] \in Ops /\ op[w].at = w
         /\ w \notin up => \A h \in Requests : op[h] = Idle
         /\ op[w] # Idle /\ op[w].step # "await" =>
              /\ NobodyStops(w)
              /\ \A g \in Requests \cup Workers : g # w /\ op[g].at = w => op[g].step = "await"
<1> USE DEF Inductive, Abiding
<1>1. w \notin Requests /\ w # None /\ \A v \in Workers : v = w
  BY NoneApart DEF OneWorker
<1>2. op[w] # Idle => LifespanOK(w, op[w]) /\ op[w] \in Ops /\ op[w].at = w
  BY AtWork DEF LifespanOK
<1>3. w \notin up => \A h \in Requests : op[h] = Idle
  <2> SUFFICES ASSUME w \notin up, NEW h \in Requests, op[h] # Idle PROVE FALSE
    OBVIOUS
  <2> QED BY <1>1, Located DEF RequestOK
<1>4. ASSUME op[w] # Idle, op[w].step # "await"
      PROVE  /\ NobodyStops(w)
             /\ \A g \in Requests \cup Workers : g # w /\ op[g].at = w => op[g].step = "await"
  <2>1. \A g \in Requests \cup Workers : g # w /\ op[g].at = w => op[g].step = "await"
    BY <1>1, <1>2, <1>4, Alone
  <2> QED BY <1>1, <2>1 DEF NobodyStops, StopsHere
<1> QED BY <1>1, <1>2, <1>3, <1>4

LEMMA AbidesStart ==
  ASSUME Inductive, Abiding, OneWorker, NEW w \in Workers, Start(w)
  PROVE  Abiding'
<1> USE DEF Inductive, Abiding
<1>0. PICK won \in BOOLEAN : \E ids \in {Listed(won), {}} :
        /\ led' = [led EXCEPT ![w] = won]
        /\ op' = [op EXCEPT ![w] = [Idle EXCEPT !.kind = "boot", !.at = w, !.step = "load",
                                                !.config = Current, !.ids = ids]]
        /\ IF ids = Listed(won) THEN UNCHANGED <<lost, faults>> ELSE Fails(Listed(won))
  BY DEF Start
<1>1. PICK ids \in {Listed(won), {}} :
        /\ led' = [led EXCEPT ![w] = won]
        /\ op' = [op EXCEPT ![w] = [Idle EXCEPT !.kind = "boot", !.at = w, !.step = "load",
                                                !.config = Current, !.ids = ids]]
        /\ IF ids = Listed(won) THEN UNCHANGED <<lost, faults>> ELSE Fails(Listed(won))
  BY <1>0
<1> DEFINE o == [Idle EXCEPT !.kind = "boot", !.at = w, !.step = "load", !.config = Current, !.ids = ids]
<1>2. ids \subseteq Triggers /\ \A t \in ids : Wanted(t)
  BY DEF Listed
<1>3. Current \in [Triggers -> Configs \cup {None}] /\ \A t \in Triggers : Current[t] = row[t].config
  BY DEF Current, TypeOK
<1>4. o \in Ops /\ o.kind = "boot" /\ o.at = w /\ o.step = "load" /\ o.config = Current /\ o.ids = ids
  BY <1>2, <1>3 DEF Idle, Ops
<1>5. w \notin up /\ UNCHANGED <<row, runtime, up, torn>> /\ op[w] = Idle
  BY DEF Start
<1>6. /\ w \notin Requests /\ \A v \in Workers : v = w
      /\ \A h \in Requests : op[h] = Idle
  BY <1>5, WorkerAtWork
<1>7. op' = [op EXCEPT ![w] = o]
  BY <1>1
<1>8. lost \subseteq lost' /\ (ids = Listed(won) \/ Listed(won) \subseteq lost') /\ led'[w] = won
  BY <1>1 DEF Fails, TypeOK
<1> HIDE DEF o
<1>9. OneAtATime'
  <2>1. \A g \in Requests \cup Workers : g # w => op[g].at # w
    BY <1>6, IdleOp, NoneApart
  <2> QED BY <1>4, <1>7, <2>1, OneKept
<1>10. Loading'
  <2>1. op'[w] = o
    BY <1>4, <1>7, OpEffect
  <2>2. \A t \in ids : o.config[t] = row[t].config /\ Wanted(t)
    BY <1>2, <1>3, <1>4
  <2>3. \A t \in Triggers : t \notin lost' /\ Wanted(t) /\ (led'[w] \/ row[t].config.type = "cron") => t \in ids
    BY <1>8 DEF Listed
  <2>4. row' = row
    BY <1>5
  <2> QED BY <1>4, <1>6, <2>1, <2>2, <2>3, <2>4 DEF Loading, Wanted
<1>11. w \notin up /\ \A v \in up : v = w
  BY <1>5, <1>6 DEF TypeOK
<1> QED BY <1>4, <1>5, <1>6, <1>7, <1>8, <1>9, <1>10, <1>11, AbidesQuietly

LEMMA AbidesLoad ==
  ASSUME Inductive, Abiding, OneWorker, NEW w \in Workers, Load(w)
  PROVE  Abiding'
<1> USE DEF Inductive, Abiding
<1> DEFINE ids == op[w].ids
           config == op[w].config
<1>1. op[w].step = "load" /\ Registering(w, ids, config) /\ up' = up \cup {w}
      /\ op' = [op EXCEPT ![w] = Idle] /\ UNCHANGED <<row, led, torn, lost>>
  BY DEF Load
<1>2. op[w] # Idle /\ op[w].step # "await"
  BY <1>1, IdleOp
<1>3. LifespanOK(w, op[w]) /\ op[w] \in Ops
  BY <1>2, AtWork
<1>4. ids \in SUBSET Triggers /\ config \in [Triggers -> Configs \cup {None}] /\ Fit(ids, config) /\ w \notin up
  BY <1>1, <1>3 DEF LifespanOK, Ops, Fit
<1>5. /\ w \notin Requests /\ w \in Requests \cup Workers /\ NobodyStops(w)
      /\ \A v \in Workers : v = w
  BY <1>2, WorkerAtWork
<1>6. AsRows(ids, config)
  BY <1>1 DEF Loading, AsRows
<1>7. RestCovered(w, w, ids)
  <2>1. led'[w] = led[w]
    BY <1>1
  <2>2. \A t \in Triggers : t \notin lost /\ Wanted(t) /\ (led[w] \/ row[t].config.type = "cron") => t \in ids
    BY <1>1 DEF Loading
  <2> QED BY <2>1, <2>2 DEF RestCovered, Leads
<1>8. JobsReady(w, ids, config)
  <2> SUFFICES ASSUME NEW t \in Triggers, t \notin torn, t \notin lost, jobs[t] # Job(w, t)
               PROVE  reg[w][t] = None /\ t \in ids /\ config[t] = jobs[t] /\ config[t].starts /\ config[t].type = "cron"
    BY DEF JobsReady
  <2>1. reg[w][t] = None
    BY <1>4 DEF TypeOK, Known
  <2>2. jobs[t] # None
    BY <2>1 DEF Job
  <2>3. Wanted(t) /\ jobs[t] = row[t].config /\ jobs[t].starts /\ jobs[t].type = "cron"
    BY <1>4, <2>2 DEF JobsKept
  <2>4. t \in ids
    BY <1>1, <2>3 DEF Loading
  <2>5. config[t] = row[t].config
    BY <1>1, <2>4 DEF Loading
  <2> QED BY <2>1, <2>3, <2>4, <2>5
<1>9. NobodyLoads'
  <2>1. op'[w].step # "load"
    BY <1>1, OpEffect, IdleOp
  <2> QED BY <1>5, <2>1 DEF NobodyLoads
<1> HIDE DEF ids, config
<1> QED BY <1>1, <1>4, <1>5, <1>6, <1>7, <1>8, <1>9, AbidesRegistered

LEMMA AbidesBeat ==
  ASSUME Inductive, Abiding, OneWorker, NEW w \in Workers, Beat(w)
  PROVE  Abiding'
<1> USE DEF Inductive, Abiding
<1>1. w \in up /\ Free(w) /\ op[w] = Idle /\ UNCHANGED <<row, up, torn>>
  BY DEF Beat
<1>2. w \notin Requests /\ w # None /\ w \in Requests \cup Workers /\ \A v \in Workers : v = w
  BY WorkerAtWork
<1>3. \A g \in Requests \cup Workers : op[g].at = w => op[g].step = "await"
  BY <1>1 DEF Free, TypeOK
<1>4. NobodyStops(w)
  BY <1>3 DEF NobodyStops, StopsHere
<1>5. CASE led[w]
  <2> DEFINE o == [Idle EXCEPT !.kind = "unload", !.at = w, !.step = "stop", !.ids = NonCron(w)]
  <2>1. op' = [op EXCEPT ![w] = o] /\ UNCHANGED <<led, runtime, lost>>
    BY <1>5 DEF Beat
  <2>2. o \in Ops /\ o.kind = "unload" /\ o.at = w /\ o.step = "stop"
    BY DEF Idle, Ops, NonCron, Known
  <2> HIDE DEF o
  <2>3. OneAtATime'
    BY <1>2, <1>3, <2>1, <2>2, OneKept
  <2>4. op'[w].step # "load"
    BY <1>2, <2>1, <2>2, OpEffect
  <2>5. Loading'
    BY <1>2, <2>4 DEF Loading
  <2>6. op[w].kind # "shutdown" /\ \A v \in up : v = w
    BY <1>1, <1>2, IdleOp DEF TypeOK
  <2> QED BY <1>1, <1>2, <2>1, <2>2, <2>3, <2>5, <2>6, AbidesQuietly
<1>6. CASE ~led[w]
  <2>1. led' = [led EXCEPT ![w] = TRUE] /\ UNCHANGED op
    BY <1>6 DEF Beat
  <2>2. op' = [op EXCEPT ![w] = Idle]
    BY <1>1, <2>1 DEF TypeOK
  <2>3. NobodyLoads'
    <3>1. NobodyLoads
      BY <1>1, NotLoading DEF NobodyLoads
    <3> QED BY <2>1, <3>1 DEF NobodyLoads
  <2>4. \A t \in Triggers : Wanted(t) /\ row[t].config.type # "cron" /\ t \notin Missing(w) => reg[w][t] # None
    BY DEF Missing, Known
  <2>5. CASE Registering(w, Missing(w), Current) /\ UNCHANGED lost
    <3> DEFINE ids == Missing(w)
               config == Current
    <3>1. ids \in SUBSET Triggers /\ \A t \in ids : Wanted(t) /\ row[t].state = "live"
      BY DEF Missing, Wanted
    <3>2. config \in [Triggers -> Configs \cup {None}] /\ Fit(ids, config)
      BY <3>1 DEF Current, TypeOK, Fit
    <3>3. Registering(w, ids, config) /\ up' = up \cup {w}
      BY <1>1, <2>5
    <3>4. AsRows(ids, config)
      BY <3>1 DEF AsRows, Current
    <3>5. RestCovered(w, w, ids)
      <4>1. op[w].kind # "shutdown"
        BY <1>1, IdleOp
      <4>2. \A g \in Requests : g # w
        BY <1>2
      <4>3. \A t \in Triggers : t \notin lost /\ t \notin missed /\ Wanted(t) /\ row[t].config.starts
               /\ row[t].config.type = "cron" => reg[w][t] # None \/ \E g \in Requests : ReloadsHere(op[g], w, t)
        BY <1>1, <4>1 DEF Covered
      <4> QED BY <2>4, <4>2, <4>3 DEF RestCovered
    <3>6. JobsReady(w, ids, config)
      BY <1>1 DEF JobsKept, JobsReady
    <3> HIDE DEF ids, config
    <3> QED BY <1>1, <1>2, <1>4, <2>2, <2>3, <2>5, <3>1, <3>2, <3>3, <3>4, <3>5, <3>6, AbidesRegistered
  <2>6. CASE Fails(Missing(w)) /\ UNCHANGED runtime
    <3>1. OneAtATime'
      BY <1>1, <2>2, IdleOp, OneKept
    <3>2. Loading'
      BY <2>3 DEF Loading, NobodyLoads
    <3>3. lost \subseteq lost' /\ Missing(w) \subseteq lost'
      BY <2>6 DEF Fails
    <3>4. \A t \in Triggers : Wanted(t) /\ row[t].config.type # "cron" /\ t \notin lost' => reg[w][t] # None
      BY <2>4, <3>3
    <3>5. \A v \in up : v = w
      BY <1>2 DEF TypeOK
    <3> QED BY <1>1, <1>2, <2>2, <2>6, <3>1, <3>2, <3>3, <3>4, <3>5, IdleOp, AbidesQuietly
  <2> QED BY <1>6, <2>5, <2>6 DEF Beat
<1> QED BY <1>5, <1>6

LEMMA AbidesStopNext ==
  ASSUME Inductive, Abiding, OneWorker, NEW w \in Workers, StopNext(w)
  PROVE  Abiding'
<1> USE DEF Inductive, Abiding
<1>1. PICK t \in op[w].ids :
        /\ Stopped(w, t)
        /\ missed' = IF TurnedCron(w, t) THEN missed \cup {t} ELSE missed
        /\ op' = [op EXCEPT ![w].ids = @ \ {t}, ![w].step = IF Awaits(w, t) THEN "await" ELSE "stop"]
  BY DEF StopNext
<1> DEFINE o == [op[w] EXCEPT !.ids = @ \ {t}, !.step = IF Awaits(w, t) THEN "await" ELSE "stop"]
<1>2. op[w].step = "stop" /\ op[w].kind \in {"unload", "shutdown"} /\ UNCHANGED <<row, up, led, torn, lost>>
  BY DEF StopNext
<1>3. op[w] # Idle /\ op[w].step # "await"
  BY <1>2, IdleOp
<1>4. /\ LifespanOK(w, op[w]) /\ op[w] \in Ops /\ op[w].at = w
      /\ w \notin Requests /\ w \in Requests \cup Workers /\ NobodyStops(w)
      /\ \A g \in Requests \cup Workers : g # w /\ op[g].at = w => op[g].step = "await"
  BY <1>3, WorkerAtWork
<1>5. t \in Triggers /\ w \in up
  BY <1>2, <1>4 DEF Ops, LifespanOK
<1>6. o \in Ops /\ o.at = w /\ o.kind = op[w].kind /\ o.step \in {"stop", "await"}
  BY <1>2, <1>4 DEF Ops
<1>7. op' = [op EXCEPT ![w] = o]
  BY <1>1 DEF TypeOK
<1> HIDE DEF o
<1>8. OneAtATime'
  BY <1>4, <1>6, <1>7, OneKept
<1>9. missed \subseteq missed'
  BY <1>1
<1>10. t \in lost \/ t \in missed' \/ op[w].kind = "shutdown" \/ (row[t].config.type # "cron" /\ ~Leads(w))
         \/ (w \in Workers /\ reg[w][t] = None)
  <2> SUFFICES ASSUME op[w].kind = "unload", t \notin lost, t \notin missed', reg[w][t] # None
               PROVE  row[t].config.type # "cron" /\ ~Leads(w)
    BY <1>2
  <2>1. reg[w][t].config.type # "cron"
    BY <1>1, <1>5 DEF TurnedCron, Known
  <2>2. reg[w][t].config = row[t].config
    BY <1>4, <1>5 DEF Agreeing, NobodyStops
  <2> QED BY <2>1, <2>2 DEF Leads
<1>11. /\ o.step \notin {"load", "register", "write", "stop"} \/ w = w
       /\ w \in Workers => o.step # "load"
       /\ w \in Workers => o.kind = op[w].kind /\ w = w
       /\ w \in Requests => op[w].t = t
  BY <1>4, <1>6
<1>12. t \in lost \/ t \in missed' \/ ~Wanted(t) \/ ~row[t].config.starts \/ op[w].kind = "shutdown"
         \/ (w \in Requests /\ ReloadsHere(o, w, t)) \/ (row[t].config.type # "cron" /\ ~Leads(w))
         \/ (w \in Workers /\ reg[w][t] = None)
  BY <1>10
<1>13. o \in Ops /\ Stopped(w, t) /\ UNCHANGED <<row, up, led, lost, torn>>
  BY <1>1, <1>2, <1>6
<1> QED BY <1>4, <1>5, <1>7, <1>8, <1>9, <1>11, <1>12, <1>13, AbidesStopped

LEMMA AbidesStoppedAll ==
  ASSUME Inductive, Abiding, OneWorker, NEW w \in Workers, StoppedAll(w)
  PROVE  Abiding'
<1> USE DEF Inductive, Abiding
<1>1. /\ op[w].step = "stop" /\ op[w].ids = {} /\ op[w].kind \in {"unload", "shutdown"}
      /\ op' = [op EXCEPT ![w] = Idle] /\ led' = [led EXCEPT ![w] = FALSE]
      /\ UNCHANGED <<row, jobs, reg, overlaid, missed, torn, lost>>
  BY DEF StoppedAll
<1>2. op[w] # Idle
  BY <1>1, IdleOp
<1>3. w \notin Requests /\ w \in Requests \cup Workers /\ \A v \in Workers : v = w
  BY WorkerAtWork
<1>4. OneAtATime'
  BY <1>1, <1>3, IdleOp, OneKept
<1>5. \A g \in Requests \cup Workers : op'[g] = IF g = w THEN Idle ELSE op[g]
  BY <1>1, <1>3, OpEffect, IdleOp
<1>6. Loading'
  BY <1>3, <1>5, IdleOp DEF Loading
<1>7. CASE op[w].kind = "unload"
  <2>1. UNCHANGED <<row, runtime, up, torn>> /\ lost \subseteq lost'
    BY <1>1, <1>7 DEF StoppedAll, runtime
  <2>2. op[w].kind # "shutdown" /\ ~led'[w] /\ \A v \in up : v = w
    BY <1>1, <1>3, <1>7 DEF TypeOK
  <2> QED BY <1>1, <1>3, <1>4, <1>6, <2>1, <2>2, IdleOp, AbidesQuietly
<1>8. CASE op[w].kind = "shutdown"
  <2>1. up' = up \ {w}
    BY <1>1, <1>8 DEF StoppedAll
  <2>2. (\A t \in Triggers : reg[w][t] = None) /\ (\A h \in Requests : op[h].at # w)
    BY <1>1, <1>8 DEF ShuttingDown, Known
  <2>3. \A h \in Requests : op'[h] = op[h] /\ op[h] = Idle
    BY <1>3, <1>5, <2>2, Located
  <2>4. AboutRows'
    BY <2>3, IdleOp DEF AboutRows, Abreast
  <2>5. Agreeing'
    BY <1>1, <1>3, <2>2 DEF Agreeing
  <2>6. Covered'
    BY <1>3, <2>1 DEF Covered, TypeOK
  <2>7. JobsKept'
    <3>1. w \in up
      <4>1. LifespanOK(w, op[w])
        BY <1>2, AtWork
      <4> QED BY <1>8, <4>1 DEF LifespanOK
    <3>2. \A t \in Triggers : t \notin torn /\ t \notin lost => jobs[t] = None
      BY <2>2, <3>1 DEF JobsKept, Job
    <3> QED BY <1>1, <1>3, <2>1, <3>2 DEF JobsKept
  <2> QED BY <1>4, <1>6, <2>4, <2>5, <2>6, <2>7
<1> QED BY <1>1, <1>7, <1>8

LEMMA AbidesResume ==
  ASSUME Inductive, Abiding, OneWorker, NEW w \in Workers, Resume(w)
  PROVE  Abiding'
<1> USE DEF Inductive, Abiding
<1> DEFINE o == [op[w] EXCEPT !.step = "stop"]
<1>1. op[w].step = "await" /\ UNCHANGED <<row, runtime, up, led, torn, lost>> /\ Free(op[w].at)
  BY DEF Resume
<1>2. op[w] # Idle
  BY <1>1, IdleOp
<1>3. /\ LifespanOK(w, op[w]) /\ op[w] \in Ops /\ op[w].at = w
      /\ w \notin Requests /\ w \in Requests \cup Workers /\ \A v \in Workers : v = w
  BY <1>2, WorkerAtWork
<1>4. op[w].kind \in {"unload", "shutdown"}
  BY <1>1, <1>3 DEF LifespanOK
<1>5. op' = [op EXCEPT ![w] = o]
  BY <1>4 DEF Resume
<1>6. o \in Ops /\ o.at = w /\ o.kind = op[w].kind /\ o.step = "stop"
  BY <1>3 DEF Ops
<1> HIDE DEF o
<1>7. OneAtATime'
  <2>1. \A g \in Requests \cup Workers : g # w /\ op[g].at = w => op[g].step = "await"
    BY <1>1, <1>3 DEF Free, TypeOK
  <2> QED BY <1>3, <1>5, <1>6, <2>1, OneKept
<1>8. Loading'
  <2>1. op'[w].step # "load"
    BY <1>3, <1>5, <1>6, OpEffect
  <2> QED BY <1>3, <2>1 DEF Loading
<1>9. led'[w] /\ o.kind # "unload" => Leads(w)
  BY <1>1, <1>6 DEF Leads
<1>10. \A v \in up : v = w
  BY <1>3 DEF TypeOK
<1> QED BY <1>1, <1>3, <1>5, <1>6, <1>7, <1>8, <1>9, <1>10, AbidesQuietly

LEMMA AbidesShutdown ==
  ASSUME Inductive, Abiding, OneWorker, NEW w \in Workers, Shutdown(w)
  PROVE  Abiding'
<1> USE DEF Inductive, Abiding
<1> DEFINE o == [Idle EXCEPT !.kind = "shutdown", !.at = w, !.step = "stop", !.ids = Known(w)]
<1>1. w \in up /\ UNCHANGED <<row, runtime, up, led, torn, lost>> /\ op' = [op EXCEPT ![w] = o]
      /\ op[w].step \in {"idle", "await"} /\ \A h \in Requests : op[h].at # w
  BY DEF Shutdown
<1>2. o \in Ops /\ o.at = w /\ o.kind = "shutdown" /\ o.step = "stop"
  BY DEF Idle, Ops, Known
<1> HIDE DEF o
<1>3. w \notin Requests /\ w \in Requests \cup Workers /\ \A v \in Workers : v = w
  BY WorkerAtWork
<1>4. OneAtATime'
  <2>1. \A g \in Requests \cup Workers : g # w => op[g].at # w
    BY <1>1, <1>3
  <2> QED BY <1>1, <1>2, <1>3, <2>1, OneKept
<1>5. AboutRows' /\ Agreeing' /\ JobsKept'
  <2>1. \A h \in Requests : op'[h] = op[h]
    BY <1>1, <1>2, <1>3, OpEffect
  <2>2. /\ row' = row /\ lost' = lost /\ torn' = torn /\ reg' = reg /\ jobs' = jobs /\ up' = up
    BY <1>1 DEF runtime
  <2>3. AboutRows'
    BY <2>1, <2>2 DEF AboutRows, Abreast, Wanted
  <2>4. Agreeing'
    BY <2>1, <2>2 DEF Agreeing, Wanted, StopsHere
  <2>5. JobsKept'
    BY <2>2 DEF JobsKept, Job, Wanted
  <2> QED BY <2>3, <2>4, <2>5
<1>6. op'[w] = o
  BY <1>1, <1>2, <1>3, OpEffect
<1>7. Loading'
  BY <1>2, <1>3, <1>6 DEF Loading
<1>8. Covered'
  BY <1>1, <1>2, <1>3, <1>6 DEF Covered, TypeOK
<1> QED BY <1>4, <1>5, <1>7, <1>8

LEMMA AbidesKill ==
  ASSUME Inductive, Abiding, OneWorker, NEW w \in Workers, Kill(w)
  PROVE  Abiding'
<1> USE DEF Inductive, Abiding
<1>1. /\ w \in up /\ UNCHANGED <<row, jobs, missed, lost>> /\ up' = up \ {w}
      /\ torn' = torn \cup {op[h].t : h \in {g \in Requests : op[g].at = w}}
      /\ reg' = [reg EXCEPT ![w] = [t \in Triggers |-> None]]
      /\ op' = [h \in DOMAIN op |-> IF op[h].at = w THEN Idle ELSE op[h]]
  BY DEF Kill
<1>2. w \notin Requests /\ \A v \in Workers : v = w
  BY WorkerAtWork
<1>3. \A g \in Requests \cup Workers : op'[g] = IF op[g].at = w THEN Idle ELSE op[g]
  BY <1>1 DEF TypeOK
<1>4. \A g \in Requests \cup Workers : op'[g] = Idle
  <2>1. \A h \in Requests : op'[h] = Idle
    BY <1>2, <1>3, Located
  <2>2. op'[w] = Idle
    BY <1>3, AtWork DEF LifespanOK
  <2> QED BY <1>2, <2>1, <2>2
<1>5. \A t \in Triggers : reg'[w][t] = None
  BY <1>1 DEF TypeOK
<1>6. OneAtATime' /\ AboutRows' /\ Loading'
  BY <1>4, IdleOp DEF OneAtATime, AboutRows, Abreast, Loading
<1>7. Agreeing'
  BY <1>2, <1>5 DEF Agreeing
<1>8. Covered'
  BY <1>1, <1>2 DEF Covered, TypeOK
<1>9. JobsKept'
  <2> SUFFICES ASSUME NEW t \in Triggers, t \notin torn', t \notin lost, jobs[t] # None
               PROVE  Wanted(t) /\ jobs[t] = row[t].config /\ jobs[t].starts /\ jobs[t].type = "cron"
    BY <1>1, <1>2 DEF JobsKept, Wanted
  <2>1. reg[w][t] # None /\ jobs[t] = reg[w][t].config /\ jobs[t].type = "cron"
    BY <1>1 DEF JobsKept, Job
  <2>2. jobs[t].starts
    BY <2>1 DEF TypeOK, Known
  <2>3. \A h \in Requests : ~StopsHere(op[h], w, t)
    BY <1>1 DEF StopsHere
  <2>4. Wanted(t) /\ reg[w][t].config = row[t].config
    BY <2>1, <2>3 DEF Agreeing
  <2> QED BY <2>1, <2>2, <2>4
<1> QED BY <1>6, <1>7, <1>8, <1>9

LEMMA AbidingKept ==
  ASSUME OneWorker, Inductive, Abiding, [Next]_vars
  PROVE  Abiding'
<1>1. ASSUME NEW t \in Triggers, NEW c \in Configs, NEW enabled \in BOOLEAN, Create(t, c, enabled)
      PROVE  Abiding'
  BY <1>1, AbidesCreate
<1>2. ASSUME NEW h \in Requests, Administer(h) PROVE Abiding'
  <2>1. ASSUME NEW w \in Workers, NEW kind \in {"update", "enable", "disable", "delete"}, NEW t \in Triggers,
               NEW c \in Configs, kind # "update" => c = row[t].config, Request(h, w, kind, t, c)
        PROVE  Abiding'
    BY <2>1, AbidesRequest
  <2> QED BY <1>2, <2>1, AbidesWrite, AbidesEnable, AbidesStopOne, AbidesFetch, AbidesRequestResumes DEF Administer
<1>3. ASSUME NEW w \in Workers, Live(w) PROVE Abiding'
  BY <1>3, AbidesStart, AbidesLoad, AbidesBeat, AbidesStopNext, AbidesStoppedAll, AbidesResume,
     AbidesShutdown, AbidesKill DEF Live
<1>4. ASSUME NEW w \in Workers, WatchFails(w) PROVE Abiding'
  BY <1>4, AbidesUnchanged DEF WatchFails
<1>5. CASE UNCHANGED vars
  BY <1>5, AbidesUnchanged DEF vars
<1> QED BY <1>1, <1>2, <1>3, <1>4, <1>5 DEF Next

LEMMA AbidingAlways == OneWorker => (Spec => [](Inductive /\ Abiding))
<1> SUFFICES ASSUME OneWorker PROVE Spec => [](Inductive /\ Abiding)
  OBVIOUS
<1>1. Init => Abiding
  BY InitAbiding
<1>2. Inductive /\ Inductive' /\ Abiding /\ [Next]_vars => Abiding'
  BY AbidingKept
<1> QED BY <1>1, <1>2, InductiveAlways, PTL DEF Spec

LEMMA QuietFacts ==
  ASSUME Inductive, NEW w \in Workers, Quiet(w)
  PROVE  /\ w \in up /\ op[w] = Idle
         /\ \A t \in Triggers : \A h \in Requests : ~StopsHere(op[h], w, t) /\ ~ReloadsHere(op[h], w, t)
<1>1. \A h \in Requests \cup Workers : op[h].at # w
  BY DEF Quiet, Inductive, TypeOK
<1>2. op[w] = Idle
  BY <1>1 DEF Inductive, TypeOK, LifespanOK
<1> QED BY <1>1, <1>2 DEF Quiet, StopsHere, ReloadsHere

\* With one worker, whatever triggers there are and however requests,
\* heartbeats, failed statements and restarts interleave: when nobody works on
\* the registry, it holds nothing but enabled triggers in the configuration of
\* their rows.
THEOREM OneWorkerOnlyWanted == OneWorker => (Spec => []OnlyWanted)
<1> SUFFICES ASSUME OneWorker PROVE Spec => []OnlyWanted
  OBVIOUS
<1>1. Inductive /\ Abiding => OnlyWanted
  BY QuietFacts DEF Abiding, Agreeing, OnlyWanted, Known
<1> QED BY <1>1, AbidingAlways, PTL

\* And all of them, but those created enabled, or dropped with the others
\* after they had turned cron.
THEOREM OneWorkerAllWanted == OneWorker => (Spec => []AllWanted)
<1> SUFFICES ASSUME OneWorker PROVE Spec => []AllWanted
  OBVIOUS
<1>1. Inductive /\ Abiding => AllWanted
  BY QuietFacts, IdleOp DEF Abiding, Covered, Leads, AllWanted, Known
<1> QED BY <1>1, AbidingAlways, PTL

\* And the job store has a job for each cron trigger of the registry, and no
\* other, across shutdowns, kills and starts.
THEOREM OneWorkerJobsAgree == OneWorker => (Spec => []JobsAgree)
<1> SUFFICES ASSUME OneWorker PROVE Spec => []JobsAgree
  OBVIOUS
<1>1. Inductive /\ Abiding => JobsAgree
  BY QuietFacts DEF Abiding, JobsKept, Job, JobsAgree, Known
<1> QED BY <1>1, AbidingAlways, PTL
=============================================================================
