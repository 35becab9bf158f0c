------------------------------ MODULE MemoryTiers ------------------------------
(***************************************************************************)
(* The memory of the agents, in one worker process: three tiers over one   *)
(* SQLite table keyed by id, and one searcher per tier that recall builds  *)
(* when it first needs it and that writers keep up to date afterwards.     *)
(*                                                                         *)
(* "immediate" is a bounded cache per session, "short_term" a cache with a *)
(* time to live, and both write their rows behind the cache; "long_term"   *)
(* is the table itself.  A restart brings the caches back from the rows.   *)
(*                                                                         *)
(* Memories are numbered as they are created.  The storage has one lock    *)
(* that serves in order, so a write to a cache and the write of its row    *)
(* are one step; but the storage may fail, and then the caches have        *)
(* changed and the rows have not: most writers only log it.  Content is    *)
(* left out: what matters is which memories the rows, the caches and the   *)
(* searchers hold, and which handlers hold copies across an await          *)
(* (searchers build, conflicts are resolved by a model, decay saves what   *)
(* it listed).                                                             *)
(***************************************************************************)
EXTENDS Naturals, Sequences, FiniteSets, SequencesExt, Lists

CONSTANTS
  Handlers,       \* requests and jobs that run at once
  MaxMemories,    \* memories created
  SessionOf,      \* the session of each memory
  MaxSize,        \* immediate memories of a session
  MaxSessions,    \* sessions with immediate memories
  MaxJobs,        \* requests and jobs that remember nothing
  MaxFaults,      \* steps whose writes the storage fails
  MaxRestarts

ASSUME MemoryAssumption ==
  /\ MaxMemories \in Nat /\ MaxSize \in Nat \ {0} /\ MaxSessions \in Nat \ {0} /\ MaxJobs \in Nat
  /\ MaxFaults \in Nat /\ MaxRestarts \in Nat
  /\ DOMAIN SessionOf = 1..MaxMemories
  /\ IsFiniteSet(Handlers)

VARIABLES
  row,            \* tier column of each row, "none" for no row
  imm, lru,       \* immediate caches, oldest first; their sessions, oldest first
  st,             \* short-term caches of the sessions that have one
  stale,          \* memories not accessed within the time to live
  old,            \* short-term rows whose last_accessed is that old (a touch is not saved)
  doomed,         \* rows that an eviction or a sweep has still to delete
  built, index,   \* which tiers have a searcher, and how often it holds a memory
  audit,          \* audited merges: <<kept, merged>>
  op,             \* what each handler is doing
  made,           \* memories created so far
  gone,           \* history: forgotten while nobody else held them
  stray,          \* history: stored under a build, or put back after they had gone
  twice,          \* history: added to a searcher that was built with them
  torn,           \* history: the storage or another tier set row and cache apart
  jobs, faults, restarts

vars == <<row, imm, lru, st, stale, old, doomed, built, index, audit, op, made, gone, stray,
          twice, torn, jobs, faults, restarts>>

Ids == 1..MaxMemories
Sessions == {SessionOf[m] : m \in Ids}
Tiers == {"immediate", "short_term", "long_term"}
Idle == [pc |-> "idle", m |-> 0, tier |-> "none", ids |-> {}, alone |-> TRUE]

InImm == UNION {ToSet(imm[s]) : s \in Sessions}
InSt == UNION {st[s] : s \in DOMAIN st}

Members(t) == CASE t = "immediate"  -> InImm
                [] t = "short_term" -> InSt \ stale
                [] t = "long_term"  -> {m \in Ids : row[m] = "long_term"}

Found(t) == IF t \in built THEN {m \in Ids : index[t][m] > 0} ELSE Members(t)

\* ShortTermMemory._lock is held by an add that waits for the storage.
Unlocked == \A h \in Handlers : op[h].pc # "put"

(***************************************************************************)
(* A handler that takes up a memory ends the solitude of the others that   *)
(* work on it.                                                             *)
(***************************************************************************)
Holds(h, m) == op[h].pc # "idle" /\ (op[h].m = m \/ m \in op[h].ids)

Go(h, pc, m, t, ids) ==
  op' = [g \in Handlers |->
           IF g = h THEN [pc |-> pc, m |-> m, tier |-> t, ids |-> ids,
                          alone |-> (op[h].pc = "idle" \/ op[h].alone)
                                      /\ \A k \in Handlers \ {h} : ~Holds(k, m)]
           ELSE IF op[g].m \in (ids \cup {m}) \ {0} THEN [op[g] EXCEPT !.alone = FALSE] ELSE op[g]]

\* A request or a job begins.
Start(h, pc, m, t, ids) ==
  /\ op[h] = Idle /\ jobs < MaxJobs
  /\ jobs' = jobs + 1
  /\ Go(h, pc, m, t, ids)

Done(h) == op' = [op EXCEPT ![h] = Idle]

Caches == <<imm, lru, st>>
Searchers == <<built, index>>
Past == <<audit, made, gone, twice, restarts>>
Rest == <<audit, made, gone, stray, twice, torn, jobs, faults, restarts>>

(***************************************************************************)
(* The storage.                                                            *)
(***************************************************************************)
Fault == faults < MaxFaults /\ faults' = faults + 1
Sound == UNCHANGED <<torn, faults>>

Saved(m, t) == row' = [row EXCEPT ![m] = t]
Without(ids) == [m \in Ids |-> IF m \in ids THEN "none" ELSE row[m]]

\* A save behind a cache: a failure is logged.
SavedBehind(m, t) ==
  \/ Saved(m, t) /\ Sound
  \/ Fault /\ torn' = torn \cup {m} /\ UNCHANGED row

\* Deletions behind a cache, one by one: each may fail and is logged.
DeletedBehind(ids) ==
  \E lost \in SUBSET ids :
     /\ row' = Without(ids \ lost)
     /\ torn' = torn \cup lost
     /\ IF lost = {} THEN UNCHANGED faults ELSE Fault

\* A long-term copy is saved: the row may have been deleted meanwhile.
SavedAgain(m) ==
  /\ Saved(m, "long_term")
  /\ stray' = IF row[m] # "long_term" THEN stray \cup {m} ELSE stray

\* What writes to the long-term tier does not catch a failure: the handler
\* ends, and the job of the decay goes on behind its loop.
Raise(h) ==
  /\ op[h].pc \in {"resolve", "forget", "forgot", "decay", "rollback", "rebuild"}
       \/ (op[h].pc = "update" /\ op[h].tier = "long_term")
  /\ Fault
  /\ op' = [op EXCEPT ![h] = IF @.tier = "decay" THEN [@ EXCEPT !.pc = "decay", !.m = 0, !.ids = {}] ELSE Idle]
  /\ UNCHANGED <<row, Caches, stale, old, doomed, Searchers, stray, torn, jobs, Past>>

(***************************************************************************)
(* remember.                                                               *)
(***************************************************************************)
\* Places that an add makes in the cache of a session.
Over(s) == IF Len(imm[s]) >= MaxSize THEN Len(imm[s]) - MaxSize + 1 ELSE 0
Oldest(s, n) == ToSet(SubSeq(imm[s], 1, n))

RememberImmediate(h) ==
  LET m == made + 1
      s == SessionOf[m]
      full == s \notin ToSet(lru) /\ Len(lru) >= MaxSessions
      out == IF full THEN ToSet(imm[Head(lru)]) ELSE {}
      rows == Without(Oldest(s, Over(s)))
  IN /\ op[h] = Idle /\ made < MaxMemories
     /\ made' = m
     /\ lru' = Append(Only(IF full THEN Tail(lru) ELSE lru, Sessions \ {s}), s)
     /\ imm' = [r \in Sessions |-> IF r = s THEN Append(SubSeq(imm[s], Over(s) + 1, Len(imm[s])), m)
                                   ELSE IF full /\ r = Head(lru) THEN <<>> ELSE imm[r]]
     /\ \/ row' = [rows EXCEPT ![m] = "immediate"] /\ Sound
        \/ row' = rows /\ Fault /\ torn' = torn \cup {m}
     /\ doomed' = doomed \cup out
     /\ Go(h, "look", m, "immediate", {})
     /\ UNCHANGED <<st, stale, old, Searchers, audit, gone, stray, twice, jobs, restarts>>

\* The deletion of the k-th memory that is evicted raises out of the add.
EvictRaises(h) ==
  LET s == SessionOf[made + 1]
  IN /\ op[h] = Idle /\ made < MaxMemories /\ Fault
     /\ made' = made + 1
     /\ \E k \in 1..Over(s) :
           /\ imm' = [imm EXCEPT ![s] = SubSeq(@, k + 1, Len(@))]
           /\ row' = Without(Oldest(s, k - 1))
           /\ torn' = torn \cup {imm[s][k]}
     /\ UNCHANGED <<lru, st, stale, old, doomed, Searchers, op, audit, gone, stray, twice, jobs, restarts>>

\* What has expired is deleted first; the cache of the session may be swept
\* while the add waits for that, and then the add raises.
RememberShort(h) ==
  LET m == made + 1
      s == SessionOf[m]
      cache == IF s \in DOMAIN st THEN st[s] ELSE {}
      dead == cache \cap stale
  IN /\ op[h] = Idle /\ made < MaxMemories /\ Unlocked
     /\ made' = m
     /\ IF dead = {}
        THEN /\ st' = [r \in DOMAIN st \cup {s} |-> IF r = s THEN cache \cup {m} ELSE st[r]]
             /\ SavedBehind(m, "short_term")
             /\ Go(h, "look", m, "short_term", {})
        ELSE /\ st' = [st EXCEPT ![s] = cache \ dead]
             /\ DeletedBehind(dead)
             /\ Go(h, "put", m, "short_term", {})
     /\ UNCHANGED <<imm, lru, stale, old, doomed, Searchers, audit, gone, stray, twice, jobs, restarts>>

PutShort(h) ==
  LET m == op[h].m
      s == SessionOf[m]
  IN /\ op[h].pc = "put"
     /\ IF s \in DOMAIN st
        THEN /\ st' = [st EXCEPT ![s] = @ \cup {m}]
             /\ SavedBehind(m, "short_term")
             /\ Go(h, "look", m, "short_term", {})
        ELSE Done(h) /\ Sound /\ UNCHANGED <<st, row>>
     /\ UNCHANGED <<imm, lru, stale, old, doomed, Searchers, stray, jobs, Past>>

\* The candidates of a conflict are rows; a model decides.
RememberLong(h) ==
  /\ op[h] = Idle /\ made < MaxMemories
  /\ made' = made + 1
  /\ \/ Saved(made + 1, "long_term") /\ UNCHANGED faults /\ Go(h, "look", made + 1, "long_term", {})
     \/ \E target \in Members("long_term") :
           Go(h, "resolve", made + 1, "long_term", {target}) /\ UNCHANGED <<row, faults>>
     \/ Fault /\ UNCHANGED <<row, op>>
  /\ UNCHANGED <<Caches, stale, old, doomed, Searchers, audit, gone, stray, twice, torn, jobs, restarts>>

ResolveAdd(h) ==
  /\ op[h].pc = "resolve"
  /\ Saved(op[h].m, "long_term")
  /\ Go(h, "look", op[h].m, "long_term", {})
  /\ UNCHANGED <<Caches, stale, old, doomed, Searchers, Rest>>

\* The audit of a merge may fail after the merge; that is only logged.
ResolveMerge(h) ==
  /\ op[h].pc = "resolve"
  /\ \E target \in op[h].ids :
        /\ SavedAgain(target)
        /\ \/ audit' = audit \cup {<<target, op[h].m>>} /\ UNCHANGED faults
           \/ Fault /\ UNCHANGED audit
  /\ Done(h)
  /\ UNCHANGED <<Caches, stale, old, doomed, Searchers, made, gone, twice, torn, jobs, restarts>>

ResolveNone(h) ==
  /\ op[h].pc = "resolve" /\ Done(h)
  /\ UNCHANGED <<row, Caches, stale, old, doomed, Searchers, Rest>>

\* Some searcher of the tier is being built, and without the memory.
BuiltWithout(m, t) ==
  \E h \in Handlers : op[h].pc = "build" /\ op[h].tier = t /\ m \notin op[h].ids

\* Mutant: only the searcher of the long-term tier.
LookLong(h) ==
  /\ op[h].pc = "look"
  /\ IF op[h].tier = "long_term" /\ op[h].tier \in built
     THEN op' = [op EXCEPT ![h].pc = "index"] ELSE Done(h)
  /\ stray' = IF BuiltWithout(op[h].m, op[h].tier) THEN stray \cup {op[h].m} ELSE stray
  /\ UNCHANGED <<row, Caches, stale, old, doomed, Searchers, torn, jobs, faults, Past>>

\* _incremental_index_update, when the memory has been stored: the searcher of
\* the tier, if there is one by now.
Look(h) ==
  /\ op[h].pc = "look"
  /\ IF op[h].tier \in built THEN op' = [op EXCEPT ![h].pc = "index"] ELSE Done(h)
  /\ stray' = IF BuiltWithout(op[h].m, op[h].tier) THEN stray \cup {op[h].m} ELSE stray
  /\ UNCHANGED <<row, Caches, stale, old, doomed, Searchers, torn, jobs, faults, Past>>

\* The searcher appends the memory, which it may have been built with.
IndexAdd(h) ==
  LET m == op[h].m
      t == op[h].tier
  IN /\ op[h].pc = "index"
     /\ index' = [index EXCEPT ![t][m] = @ + 1]
     /\ twice' = IF index[t][m] > 0 THEN twice \cup {m} ELSE twice
     /\ Done(h)
     /\ UNCHANGED <<row, Caches, stale, old, doomed, built, audit, made, gone, stray, torn, jobs, faults, restarts>>

(***************************************************************************)
(* recall: only what it does to the searchers matters.                     *)
(***************************************************************************)
Build(h, t) ==
  /\ t \notin built
  /\ t = "short_term" => Unlocked
  /\ Start(h, "build", 0, t, Members(t))
  /\ UNCHANGED <<row, Caches, stale, old, doomed, Searchers, stray, torn, faults, Past>>

\* It replaces a searcher that another recall has registered meanwhile, also
\* for the writers that wait for an embedding to add to that one.
Register(h) ==
  LET t == op[h].tier
  IN /\ op[h].pc = "build"
     /\ built' = built \cup {t}
     /\ index' = [index EXCEPT ![t] = [m \in Ids |-> IF m \in op[h].ids THEN 1 ELSE 0]]
     /\ op' = [g \in Handlers |-> IF g = h \/ (op[g].pc = "index" /\ op[g].tier = t) THEN Idle ELSE op[g]]
     /\ UNCHANGED <<row, Caches, stale, old, doomed, Rest>>

\* invalidate_search_index(): a writer that waits for an embedding adds it to
\* a searcher that nobody uses any more.
Empty == [t \in Tiers |-> [m \in Ids |-> 0]]
Invalidate == built' = {} /\ index' = Empty
DoneInvalid(h) == op' = [g \in Handlers |-> IF g = h \/ op[g].pc = "index" THEN Idle ELSE op[g]]

(***************************************************************************)
(* forget, and the delete of the administration, which names a tier.       *)
(***************************************************************************)
\* Mutant: a short-term cache keeps the memory.
UncachedImmediate(m) ==
  /\ imm' = [s \in Sessions |-> Only(imm[s], Ids \ {m})]
  /\ UNCHANGED st

Uncached(m) ==
  /\ imm' = [s \in Sessions |-> Only(imm[s], Ids \ {m})]
  /\ st' = [s \in DOMAIN st |-> st[s] \ {m}]

Cached(m) == m \in InImm \cup InSt

ForgetCached(m) ==
  /\ Unlocked
  /\ Uncached(m)
  /\ DeletedBehind(IF Cached(m) THEN {m} ELSE {})

Forget(h, m) ==
  /\ Cached(m) \/ row[m] # "none"
  /\ Start(h, IF Cached(m) THEN "forgot" ELSE "forget", m, "none", {})
  /\ ForgetCached(m)
  /\ UNCHANGED <<lru, stale, old, doomed, Searchers, stray, Past>>

\* The handler goes on with its loop, or is done.
Back(h) == IF op[h].tier = "decay" THEN [op[h] EXCEPT !.pc = "decay", !.m = 0] ELSE Idle

ForgetRow(h) ==
  /\ op[h].pc \in {"forget", "forgot"}
  /\ Saved(op[h].m, "none")
  /\ op' = [op EXCEPT ![h] = IF @.pc = "forgot" \/ row[@.m] # "none"
                             THEN [@ EXCEPT !.pc = "unindex"] ELSE Back(h)]
  /\ UNCHANGED <<Caches, stale, old, doomed, Searchers, Rest>>

Less(n) == IF n > 0 THEN n - 1 ELSE 0

\* Mutant: only the searcher of the long-term tier.
ForgetIndexLong(h) ==
  LET m == op[h].m
  IN /\ op[h].pc = "unindex"
     /\ index' = [index EXCEPT !["long_term"][m] = Less(@)]
     /\ gone' = IF op[h].alone THEN gone \cup {m} ELSE gone
     /\ op' = [op EXCEPT ![h] = Back(h)]
     /\ UNCHANGED <<row, Caches, stale, old, doomed, built, audit, made, stray, twice, torn, jobs, faults, restarts>>

\* Each searcher drops one copy.
ForgetIndex(h) ==
  LET m == op[h].m
  IN /\ op[h].pc = "unindex"
     /\ index' = [t \in Tiers |-> [index[t] EXCEPT ![m] = Less(@)]]
     /\ gone' = IF op[h].alone THEN gone \cup {m} ELSE gone
     /\ op' = [op EXCEPT ![h] = Back(h)]
     /\ UNCHANGED <<row, Caches, stale, old, doomed, built, audit, made, stray, twice, torn, jobs, faults, restarts>>

\* By id, whatever the tier of the row: with "long_term", the default, the
\* caches keep what they have.
Delete(m, t) ==
  /\ jobs < MaxJobs /\ jobs' = jobs + 1
  /\ \/ /\ t = "immediate" /\ m \in InImm
        /\ imm' = [s \in Sessions |-> Only(imm[s], Ids \ {m})]
        /\ DeletedBehind({m}) /\ UNCHANGED st
     \/ /\ t = "short_term" /\ m \in InSt /\ Unlocked
        /\ st' = [s \in DOMAIN st |-> st[s] \ {m}]
        /\ DeletedBehind({m}) /\ UNCHANGED imm
     \/ /\ t = "long_term" /\ row[m] # "none"
        /\ Saved(m, "none")
        /\ torn' = IF Cached(m) THEN torn \cup {m} ELSE torn
        /\ UNCHANGED <<imm, st, faults>>
  /\ UNCHANGED <<lru, stale, old, doomed, Searchers, op, stray, Past>>

(***************************************************************************)
(* The update of the administration: read, change, write.                  *)
(***************************************************************************)
Gets(m, t) == IF t = "long_term" THEN row[m] # "none" ELSE m \in Members(t)

UpdateGet(h, m, t) ==
  /\ Gets(m, t)
  /\ t = "short_term" => Unlocked
  /\ Start(h, "update", m, t, {})
  /\ UNCHANGED <<row, Caches, stale, old, doomed, Searchers, stray, torn, faults, Past>>

\* The cache, its row, and all searchers.  The memory may have left the cache.
UpdateCached(h) ==
  LET m == op[h].m
      t == op[h].tier
      s == SessionOf[m]
      back == IF m \in Members(t) THEN {} ELSE {m}
  IN /\ op[h].pc = "update" /\ t # "long_term"
     /\ t = "short_term" => Unlocked
     /\ imm' = IF t = "short_term" \/ s \notin ToSet(lru) THEN imm
               ELSE [imm EXCEPT ![s] = Append(Only(@, Ids \ {m}), m)]
     /\ st' = IF t = "immediate" THEN st
              ELSE [r \in DOMAIN st \cup {s} |->
                      (IF r \in DOMAIN st THEN st[r] ELSE {}) \cup (IF r = s THEN {m} ELSE {})]
     /\ stale' = stale \ {m}
     /\ \/ Saved(m, t) /\ old' = old \ {m} /\ torn' = torn \cup back /\ UNCHANGED faults
        \/ Fault /\ torn' = torn \cup {m} /\ UNCHANGED <<row, old>>
     /\ Invalidate /\ DoneInvalid(h)
     /\ stray' = stray \cup back
     /\ UNCHANGED <<lru, doomed, jobs, Past>>

\* The row becomes one of the long-term tier; a cache that has the memory keeps it.
UpdateLong(h) ==
  /\ op[h].pc = "update" /\ op[h].tier = "long_term"
  /\ SavedAgain(op[h].m)
  /\ torn' = IF row[op[h].m] # "long_term" THEN torn \cup {op[h].m} ELSE torn
  /\ Invalidate /\ DoneInvalid(h)
  /\ UNCHANGED <<Caches, stale, old, doomed, jobs, faults, Past>>

\* A get finds the memory expired.
ExpiredGet(m) ==
  /\ m \in InSt \cap stale /\ Unlocked
  /\ st' = [s \in DOMAIN st |-> st[s] \ {m}]
  /\ DeletedBehind({m})
  /\ UNCHANGED <<imm, lru, stale, old, doomed, Searchers, op, stray, jobs, Past>>

(***************************************************************************)
(* The decay job: every long-term memory it listed is saved or forgotten,  *)
(* and then the short-term caches are swept.                               *)
(***************************************************************************)
Decay(h) ==
  /\ Start(h, "decay", 0, "decay", Members("long_term"))
  /\ UNCHANGED <<row, Caches, stale, old, doomed, Searchers, stray, torn, faults, Past>>

DecaySave(h) ==
  /\ op[h].pc = "decay"
  /\ \E m \in op[h].ids : SavedAgain(m) /\ op' = [op EXCEPT ![h].ids = @ \ {m}]
  /\ UNCHANGED <<Caches, stale, old, doomed, Searchers, torn, jobs, faults, Past>>

DecayForget(h) ==
  /\ op[h].pc = "decay"
  /\ \E m \in op[h].ids :
        /\ ForgetCached(m)
        /\ op' = [op EXCEPT ![h] = [pc |-> IF Cached(m) THEN "forgot" ELSE "forget", m |-> m,
                                    tier |-> "decay", ids |-> @.ids \ {m},
                                    alone |-> \A k \in Handlers \ {h} : ~Holds(k, m)]]
  /\ UNCHANGED <<lru, stale, old, doomed, Searchers, stray, jobs, Past>>

Sweep(h) ==
  /\ op[h].pc = "decay" /\ op[h].ids = {}
  /\ st' = [s \in {r \in DOMAIN st : st[r] \ stale # {}} |-> st[s] \ stale]
  /\ doomed' = doomed \cup (InSt \cap stale)
  /\ Done(h)
  /\ UNCHANGED <<row, imm, lru, stale, old, Searchers, Rest>>

(***************************************************************************)
(* The clearing of a user, here the only one: tier by tier.                *)
(***************************************************************************)
Clear(h) ==
  /\ Start(h, "clear", 0, "none", InImm)
  /\ imm' = [s \in Sessions |-> <<>>]
  /\ DeletedBehind(InImm)
  /\ UNCHANGED <<lru, st, stale, old, doomed, Searchers, stray, Past>>

ClearShort(h) ==
  LET ids == Members("short_term")
  IN /\ op[h].pc = "clear" /\ Unlocked
     /\ st' = [s \in DOMAIN st |-> st[s] \ ids]
     /\ DeletedBehind(ids)
     /\ Go(h, "clearlong", 0, "none", op[h].ids)
     /\ UNCHANGED <<imm, lru, stale, old, doomed, Searchers, stray, jobs, Past>>

\* A deletion that raises leaves the other rows, and the searchers.
ClearLong(h) ==
  /\ op[h].pc = "clearlong"
  /\ \/ row' = Without(Members("long_term")) /\ UNCHANGED faults /\ Invalidate /\ DoneInvalid(h)
     \/ /\ \E left \in SUBSET Members("long_term") \ {{}} : row' = Without(Members("long_term") \ left)
        /\ Fault /\ Done(h) /\ UNCHANGED Searchers
  /\ UNCHANGED <<Caches, stale, old, doomed, stray, torn, jobs, Past>>

(***************************************************************************)
(* The rollback of a merge.  It means to invalidate the searcher of the    *)
(* tier, under a key that no searcher has.                                 *)
(***************************************************************************)
Rollback(h) ==
  /\ \E a \in audit : Start(h, "rollback", a[2], "long_term", {m \in {a[1]} : row[m] # "none"})
  /\ UNCHANGED <<row, Caches, stale, old, doomed, Searchers, stray, torn, faults, Past>>

RollbackKept(h) ==
  /\ op[h].pc = "rollback"
  /\ row' = [m \in Ids |-> IF m \in op[h].ids THEN "long_term" ELSE row[m]]
  /\ stray' = stray \cup {m \in op[h].ids : row[m] # "long_term"}
  /\ op' = [op EXCEPT ![h].pc = "rebuild"]
  /\ UNCHANGED <<Caches, stale, old, doomed, Searchers, torn, jobs, faults, Past>>

RollbackMerged(h) ==
  /\ op[h].pc = "rebuild"
  /\ SavedAgain(op[h].m)
  /\ gone' = gone \ {op[h].m}
  /\ Done(h)
  /\ UNCHANGED <<Caches, stale, old, doomed, Searchers, audit, made, twice, torn, jobs, faults, restarts>>

(***************************************************************************)
(* Time, background tasks, and the end of the process.                     *)
(***************************************************************************)
Age(m) ==
  /\ m \in InSt \ stale
  /\ old' = old \cup {m}
  /\ \/ stale' = stale \cup {m}
     \/ m \notin old /\ UNCHANGED stale
  /\ UNCHANGED <<row, Caches, doomed, Searchers, op, Rest>>

DropRow(m) ==
  /\ m \in doomed
  /\ doomed' = doomed \ {m}
  /\ DeletedBehind({m})
  /\ UNCHANGED <<Caches, stale, old, Searchers, op, stray, jobs, Past>>

\* Mutant: one session fewer.
LoadFewer(rows) ==
  LET take(acc, m) ==
        LET s == SessionOf[m]
        IN IF acc.full \/ rows[m] # "immediate" THEN acc
           ELSE IF s \notin ToSet(acc.lru) /\ Len(acc.lru) + 1 >= MaxSessions THEN [acc EXCEPT !.full = TRUE]
           ELSE [acc EXCEPT !.lru = Append(Only(@, Sessions \ {s}), s), !.imm[s] = Append(@, m)]
  IN FoldLeft(take, [imm |-> [s \in Sessions |-> <<>>], lru |-> <<>>, full |-> FALSE],
              [i \in Ids |-> MaxMemories + 1 - i])

\* Mutant: no limit.
LoadAll(rows) ==
  LET take(acc, m) ==
        IF rows[m] # "immediate" THEN acc
        ELSE [acc EXCEPT !.lru = Append(Only(@, Sessions \ {SessionOf[m]}), SessionOf[m]),
                         !.imm[SessionOf[m]] = Append(@, m)]
  IN FoldLeft(take, [imm |-> [s \in Sessions |-> <<>>], lru |-> <<>>],
              [i \in Ids |-> MaxMemories + 1 - i])

\* load_from_storage of the immediate tier: the newest first, up to the first
\* one whose session does not fit.
Taken(rows, acc, m) ==
  LET s == SessionOf[m]
  IN IF acc.full \/ rows[m] # "immediate" THEN acc
     ELSE IF s \notin ToSet(acc.lru)
          THEN IF Len(acc.lru) >= MaxSessions THEN [acc EXCEPT !.full = TRUE]
               ELSE [acc EXCEPT !.lru = Append(@, s), !.imm[s] = <<m>>]
          ELSE IF Len(acc.imm[s]) >= MaxSize THEN acc
               ELSE [acc EXCEPT !.imm[s] = Append(@, m)]

Nothing == [imm |-> [s \in Sessions |-> <<>>], lru |-> <<>>, full |-> FALSE]

Load(rows) ==
  LET loaded[i \in 0..MaxMemories] ==
        IF i = 0 THEN Nothing ELSE Taken(rows, loaded[i - 1], MaxMemories + 1 - i)
  IN loaded[MaxMemories]

Restart ==
  LET short == {m \in Ids : row[m] = "short_term" /\ m \notin old}
  IN /\ restarts < MaxRestarts
     /\ restarts' = restarts + 1
     /\ imm' = Load(row).imm /\ lru' = Load(row).lru
     /\ st' = [s \in {SessionOf[m] : m \in short} |-> {m \in short : SessionOf[m] = s}]
     /\ stale' = old
     /\ doomed' = {}
     /\ Invalidate
     /\ op' = [h \in Handlers |-> Idle]
     /\ UNCHANGED <<row, old, audit, made, gone, stray, twice, torn, jobs, faults>>

Init ==
  /\ row = [m \in Ids |-> "none"]
  /\ imm = [s \in Sessions |-> <<>>] /\ lru = <<>>
  /\ st = [s \in {} |-> {}]
  /\ stale = {} /\ old = {} /\ doomed = {}
  /\ built = {} /\ index = Empty
  /\ audit = {} /\ gone = {} /\ stray = {} /\ twice = {} /\ torn = {}
  /\ op = [h \in Handlers |-> Idle]
  /\ made = 0 /\ jobs = 0 /\ faults = 0 /\ restarts = 0

Remember(h) == RememberImmediate(h) \/ EvictRaises(h) \/ RememberShort(h) \/ PutShort(h) \/ RememberLong(h)
                 \/ ResolveAdd(h) \/ ResolveMerge(h) \/ ResolveNone(h) \/ Look(h) \/ IndexAdd(h)
Recall(h) == (\E t \in Tiers : Build(h, t)) \/ Register(h)
Forgetting(h) == (\E m \in Ids : Forget(h, m)) \/ ForgetRow(h) \/ ForgetIndex(h)
Update(h) == (\E m \in Ids, t \in Tiers : UpdateGet(h, m, t)) \/ UpdateCached(h) \/ UpdateLong(h)
Decaying(h) == Decay(h) \/ DecaySave(h) \/ DecayForget(h) \/ Sweep(h)
Clearing(h) == Clear(h) \/ ClearShort(h) \/ ClearLong(h)
RollingBack(h) == Rollback(h) \/ RollbackKept(h) \/ RollbackMerged(h)

Next == \/ \E h \in Handlers : \/ Remember(h) \/ Recall(h) \/ Forgetting(h) \/ Update(h)
                               \/ Decaying(h) \/ Clearing(h) \/ RollingBack(h) \/ Raise(h)
        \/ \E m \in Ids : Age(m) \/ DropRow(m) \/ ExpiredGet(m) \/ \E t \in Tiers : Delete(m, t)
        \/ Restart

Spec == Init /\ [][Next]_vars

(***************************************************************************)
(* Properties.                                                             *)
(***************************************************************************)
TypeOK ==
  /\ row \in [Ids -> Tiers \cup {"none"}]
  /\ Len(lru) <= MaxSessions /\ IsInjective(lru)
  /\ \A s \in Sessions : /\ Len(imm[s]) <= MaxSize + Cardinality(Handlers)
                         /\ IsInjective(imm[s])
                         /\ imm[s] # <<>> => s \in ToSet(lru)
                         /\ \A m \in ToSet(imm[s]) : SessionOf[m] = s
  /\ \A s \in DOMAIN st : \A m \in st[s] : SessionOf[m] = s
  /\ stale \subseteq old
  /\ index \in [Tiers -> [Ids -> Nat]]
  /\ \A t \in Tiers \ built : index[t] = [m \in Ids |-> 0]

\* A memory in a cache has its row, in the tier of the cache, so that a restart
\* can bring it back; unless the storage failed a write of it, or the
\* administration reached it through another tier or after it had left the cache.
CachedDurable ==
  /\ \A m \in InImm \ torn : row[m] = "immediate"
  /\ \A m \in InSt \ torn : row[m] = "short_term"

\* recall finds every memory of a tier, though searchers are updated one memory
\* at a time, unless the memory was stored while the searcher was being built
\* or was put back after it had gone.
Complete ==
  \A t \in built :
    Members(t) \ Found(t) \subseteq stray \cup {op[h].m : h \in {g \in Handlers : op[g].pc \in {"look", "index"}}}

\* A forgotten memory stays forgotten, in the rows, the caches and what
\* recall finds, also across restarts, if nobody else held it meanwhile; a
\* searcher that has it twice keeps one copy.
ForgottenStays ==
  \A m \in gone : /\ row[m] = "none" /\ ~Cached(m)
                  /\ \A t \in Tiers : m \in Found(t) => m \in twice

\* The first restart brings every cached memory back that has not expired, if
\* the background deletions were done, nothing had set rows and caches apart,
\* and no update had gone past the limit.
RestartKeeps ==
  [][Restart /\ restarts = 0 /\ doomed = {} /\ torn = {}
       /\ (\A s \in Sessions : Len(imm[s]) <= MaxSize)
     => InImm \cup (InSt \ old) \subseteq InImm' \cup InSt']_vars
=============================================================================
