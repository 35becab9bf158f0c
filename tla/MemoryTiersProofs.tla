--------------------------- MODULE MemoryTiersProofs ---------------------------
(***************************************************************************)
(* The properties of MemoryTiers hold for any number of handlers, memories *)
(* and sessions, any limits of the caches, jobs and restarts.              *)
(***************************************************************************)
EXTENDS MemoryTiers, ListsProofs

Pcs == {"idle", "put", "resolve", "look", "index", "build", "forget", "forgot", "unindex", "update",
        "decay", "clear", "clearlong", "rollback", "rebuild"}

Ops == [pc : Pcs, m : 0..MaxMemories, tier : Tiers \cup {"none", "decay"},
        ids : SUBSET Ids, alone : BOOLEAN]

CachesTyped ==
  /\ imm \in [Sessions -> Seq(Ids)] /\ lru \in Seq(Sessions)
  /\ DOMAIN st \subseteq Sessions /\ \A s \in DOMAIN st : st[s] \subseteq Ids

RestTyped ==
  /\ row \in [Ids -> Tiers \cup {"none"}]
  /\ stale \subseteq old /\ old \subseteq Ids /\ doomed \subseteq Ids
  /\ gone \subseteq Ids /\ stray \subseteq Ids /\ twice \subseteq Ids /\ torn \subseteq Ids
  /\ built \subseteq Tiers /\ index \in [Tiers -> [Ids -> Nat]]
  /\ \A t \in Tiers : t \notin built => index[t] = [m \in Ids |-> 0]
  /\ audit \subseteq Ids \X Ids
  /\ made \in 0..MaxMemories /\ restarts \in Nat

\* A handler at an await has what it needs to go on.
OnMemory == {"put", "resolve", "look", "index", "update", "forget", "forgot", "unindex", "rollback", "rebuild"}

Kind(o, searchers) ==
  /\ o.pc = "idle" => o = Idle
  /\ o.m # 0 <=> o.pc \in OnMemory
  /\ o.pc = "put" => o.tier = "short_term"
  /\ o.pc \in {"resolve", "rollback", "rebuild"} => o.tier = "long_term"
  /\ o.pc = "index" => o.tier \in searchers
  /\ o.pc \in {"look", "index", "build", "update"} => o.tier \in Tiers
  /\ o.pc \in {"forget", "forgot", "unindex"} => o.tier \in {"none", "decay"} /\ o.m \notin o.ids
  /\ o.pc = "decay" => o.tier = "decay"
  /\ o.pc \in {"clear", "clearlong"} => o.tier = "none"

Kinded == \A h \in Handlers : Kind(op[h], built)

Typed == CachesTyped /\ RestTyped /\ op \in [Handlers -> Ops] /\ Kinded

\* The immediate caches keep to their sessions.
Shaped ==
  /\ Len(lru) <= MaxSessions /\ IsInjective(lru)
  /\ \A s \in Sessions : /\ IsInjective(imm[s])
                         /\ imm[s] # <<>> => s \in ToSet(lru)
                         /\ \A m \in ToSet(imm[s]) : SessionOf[m] = s
  /\ \A s \in DOMAIN st : \A m \in st[s] : SessionOf[m] = s

\* A cache goes past its limit only by what updates put back.
Updater(g, s) == op[g].pc = "update" /\ op[g].tier = "immediate" /\ SessionOf[op[g].m] = s

Updating(s) == {op[h].m : h \in {g \in Handlers : Updater(g, s)}}

Bounded ==
  \A s \in Sessions : Cardinality(ToSet(imm[s]) \cup Updating(s)) <= MaxSize + Cardinality(Handlers)

\* What has not been stored is known to nobody but its handler.
Unseen(m) ==
  /\ row[m] = "none" /\ m \notin InImm \cup InSt
  /\ m \notin doomed \cup gone
  /\ \A a \in audit : m # a[1] /\ m # a[2]

Fresh ==
  \A m \in Ids : m > made => Unseen(m) /\ \A k \in Handlers : ~Holds(k, m)

Pending ==
  \A h \in Handlers :
    op[h].pc \in {"put", "resolve"} =>
      /\ Unseen(op[h].m) /\ op[h].m \notin op[h].ids
      /\ \A k \in Handlers \ {h} : ~Holds(k, op[h].m)

\* Whatever says of a memory which tier it is in says the same; the row of a
\* memory that is torn may have come to the long-term tier.
Claims(o, m, t) ==
  \/ /\ o.pc \in {"put", "resolve", "update", "rollback", "rebuild"}
     /\ o.tier = t /\ o.m = m
     /\ o.pc = "update" => t # "long_term"
  \/ /\ t = "long_term" /\ m \in o.ids
     /\ o.pc \in {"resolve", "rollback", "rebuild"} \/ o.tier = "decay"

Said(m, t) ==
  \/ row[m] = t
  \/ t = "immediate" /\ m \in InImm
  \/ t = "short_term" /\ m \in InSt
  \/ t = "long_term" /\ \E a \in audit : m \in {a[1], a[2]}
  \/ \E h \in Handlers : Claims(op[h], m, t)

OneTier ==
  \A m \in Ids : \A t, u \in Tiers :
    Said(m, t) /\ Said(m, u) => t = u \/ (m \in torn /\ "long_term" \in {t, u})

\* A memory that is on its way out is in no cache any more, except by an update.
Leaving ==
  /\ \A m \in doomed : m \in InImm \cup InSt => m \in stray \cap torn
  /\ \A h \in Handlers :
       /\ op[h].pc \in {"forget", "forgot", "unindex"} /\ op[h].m \in InImm \cup InSt
            => op[h].m \in stray \cap torn /\ ~op[h].alone
       /\ op[h].pc = "unindex" /\ row[op[h].m] # "none" => op[h].m \in stray /\ ~op[h].alone

\* A writer has still to see to the searcher of the tier.
Looks(m, t) == \E h \in Handlers : op[h].pc = "look" /\ op[h].m = m /\ op[h].tier = t
Adds(m, t) == \E h \in Handlers : op[h].pc = "index" /\ op[h].m = m /\ op[h].tier = t

\* A searcher that is being built has what was there.
Collected ==
  \A h \in Handlers : op[h].pc = "build" =>
    \A m \in Members(op[h].tier) : m \in op[h].ids \cup stray \/ Looks(m, op[h].tier)

\* A searcher that is there has what is in its tier, once.
Searched ==
  \A t \in built : \A m \in Members(t) :
    index[t][m] > 0 \/ m \in stray \/ Looks(m, t) \/ Adds(m, t)

Copies == \A t \in Tiers : \A m \in Ids : index[t][m] <= 1 \/ m \in twice

Alone ==
  \A h \in Handlers : op[h].alone /\ op[h].m # 0 => \A k \in Handlers \ {h} : ~Holds(k, op[h].m)

\* Nobody but a rollback holds what is forgotten.
Forgotten ==
  \A m \in gone :
    /\ row[m] = "none" /\ m \notin InImm \cup InSt
    /\ \A t \in Tiers : index[t][m] > 0 => m \in twice
    /\ \A h \in Handlers : m \notin op[h].ids /\ (op[h].m = m => op[h].pc \in {"rollback", "rebuild"})

\* Until a restart, an immediate row has its cache or will be deleted.
RowsCached ==
  restarts = 0 => \A m \in Ids : row[m] = "immediate" => m \in InImm \cup doomed \cup torn

-----------------------------------------------------------------------------
(* What a step does to the handlers.                                       *)

\* g goes on with what it holds.
Waits(g) ==
  /\ op'[g].pc = op[g].pc /\ op'[g].m = op[g].m
  /\ op'[g].tier = op[g].tier /\ op'[g].ids = op[g].ids
  /\ op'[g].alone => op[g].alone
  /\ op[g].m = 0 => op'[g] = op[g]

Others(h) == \A g \in Handlers \ {h} : op'[g] \in Ops /\ Waits(g)

\* A handler at rest holds nothing.
LEMMA IdleIs ==
  /\ Idle \in Ops
  /\ Idle.pc = "idle" /\ Idle.m = 0 /\ Idle.tier = "none" /\ Idle.ids = {} /\ Idle.alone = TRUE
<1>1. 0 \in 0..MaxMemories
  BY MemoryAssumption
<1> QED BY <1>1 DEF Idle, Ops, Pcs

\* Go parks a handler at an await; who else waits for one of its memories is not alone any more.
LEMMA GoIs ==
  ASSUME op \in [Handlers -> Ops], NEW h \in Handlers, NEW pc \in Pcs, NEW m \in 0..MaxMemories,
         NEW t \in Tiers \cup {"none", "decay"}, NEW ids \in SUBSET Ids, Go(h, pc, m, t, ids)
  PROVE  /\ op' \in [Handlers -> Ops]
         /\ op'[h].pc = pc /\ op'[h].m = m /\ op'[h].tier = t /\ op'[h].ids = ids
         /\ op'[h].alone => \A k \in Handlers \ {h} : ~Holds(k, m)
         /\ Others(h)
         /\ \A g \in Handlers \ {h} : op'[g].alone => op[g].m \notin (ids \cup {m}) \ {0}
<1> DEFINE mine == [pc |-> pc, m |-> m, tier |-> t, ids |-> ids,
                    alone |-> (op[h].pc = "idle" \/ op[h].alone)
                                /\ \A k \in Handlers \ {h} : ~Holds(k, m)]
<1>1. op' = [g \in Handlers |-> IF g = h THEN mine
                                ELSE IF op[g].m \in (ids \cup {m}) \ {0} THEN [op[g] EXCEPT !.alone = FALSE]
                                ELSE op[g]]
  BY DEF Go
<1>2. mine \in Ops
  <2>1. mine.alone \in BOOLEAN
    BY Zenon
  <2> QED BY DEF Ops
<1>3. \A g \in Handlers : op[g] \in Ops /\ [op[g] EXCEPT !.alone = FALSE] \in Ops
  BY DEF Ops
<1>4. mine.alone => \A k \in Handlers \ {h} : ~Holds(k, m)
  BY Zenon
<1>5. mine.pc = pc /\ mine.m = m /\ mine.tier = t /\ mine.ids = ids
  OBVIOUS
<1> HIDE DEF mine
<1>6. op'[h] = mine /\ op' \in [Handlers -> Ops]
  BY <1>1, <1>2, <1>3
<1>7. ASSUME NEW g \in Handlers \ {h}
      PROVE  /\ op'[g] \in Ops /\ Waits(g)
             /\ op'[g].alone => op[g].m \notin (ids \cup {m}) \ {0}
  <2>1. CASE op[g].m \in (ids \cup {m}) \ {0}
    BY <1>1, <1>3, <2>1 DEF Waits, Ops
  <2>2. CASE op[g].m \notin (ids \cup {m}) \ {0}
    BY <1>1, <1>3, <2>2 DEF Waits
  <2> QED BY <2>1, <2>2
<1> QED BY <1>4, <1>5, <1>6, <1>7 DEF Others

\* The handler changes its own state.
LEMMA TurnIs ==
  ASSUME op \in [Handlers -> Ops], NEW h \in Handlers, NEW o \in Ops, op' = [op EXCEPT ![h] = o]
  PROVE  op' \in [Handlers -> Ops] /\ op'[h] = o /\ Others(h)
BY DEF Others, Waits

\* Done puts a handler at rest.
LEMMA DoneIs ==
  ASSUME op \in [Handlers -> Ops], NEW h \in Handlers, Done(h)
  PROVE  op' \in [Handlers -> Ops] /\ op'[h] = Idle /\ Others(h)
BY IdleIs, TurnIs DEF Done

\* Invalidating the searchers also ends the waits for them.
LEMMA DoneInvalidIs ==
  ASSUME op \in [Handlers -> Ops], NEW h \in Handlers, DoneInvalid(h)
  PROVE  /\ op' \in [Handlers -> Ops] /\ op'[h] = Idle
         /\ \A g \in Handlers \ {h} : op'[g] = IF op[g].pc = "index" THEN Idle ELSE op[g]
BY IdleIs DEF DoneInvalid

\* Nobody moves.
LEMMA UnchangedIs ==
  ASSUME op \in [Handlers -> Ops], op' = op
  PROVE  op' \in [Handlers -> Ops] /\ \A h \in Handlers : Others(h) /\ op'[h] = op[h]
BY DEF Others, Waits

\* After an inner forget a decay goes on and any other handler is at rest.
LEMMA BackIs ==
  ASSUME op \in [Handlers -> Ops], NEW h \in Handlers
  PROVE  /\ Back(h) \in Ops
         /\ op[h].tier = "decay" => /\ Back(h).pc = "decay" /\ Back(h).m = 0
                                    /\ Back(h).tier = "decay" /\ Back(h).ids = op[h].ids
         /\ op[h].tier # "decay" => Back(h) = Idle
<1>1. 0 \in 0..MaxMemories
  BY MemoryAssumption
<1> QED BY <1>1, IdleIs DEF Back, Ops, Pcs

-----------------------------------------------------------------------------
(* The caches.                                                             *)

\* What is cached is a memory, and is in the cache of a session.
LEMMA InImmIs ==
  ASSUME CachesTyped
  PROVE  /\ InImm \subseteq Ids /\ InSt \subseteq Ids
         /\ \A m : m \in InImm <=> \E s \in Sessions : m \in ToSet(imm[s])
         /\ \A m : m \in InSt <=> \E s \in DOMAIN st : m \in st[s]
<1>1. \A s \in Sessions : ToSet(imm[s]) \subseteq Ids
  BY MembersUpTo DEF CachesTyped
<1> QED BY <1>1 DEF CachesTyped, InImm, InSt

\* A cached memory is in the cache of its session.
LEMMA SessionIs ==
  ASSUME CachesTyped, Shaped
  PROVE  /\ \A m \in Ids : SessionOf[m] \in Sessions
         /\ \A m : m \in InImm <=> m \in Ids /\ m \in ToSet(imm[SessionOf[m]])
         /\ \A m : m \in InImm => SessionOf[m] \in ToSet(lru)
         /\ \A m : m \in InSt <=> m \in Ids /\ SessionOf[m] \in DOMAIN st /\ m \in st[SessionOf[m]]
<1>1. \A m \in Ids : SessionOf[m] \in Sessions
  BY DEF Sessions
<1>2. \A s \in Sessions : \A m \in ToSet(imm[s]) : SessionOf[m] = s /\ s \in ToSet(lru)
  <2> SUFFICES ASSUME NEW s \in Sessions, NEW m \in ToSet(imm[s])
               PROVE  SessionOf[m] = s /\ s \in ToSet(lru)
    OBVIOUS
  <2>1. imm[s] # <<>>
    BY NoMembers DEF CachesTyped
  <2> QED BY <2>1 DEF Shaped
<1> QED BY <1>1, <1>2, InImmIs DEF Shaped

\* The same caches hold the same memories.
LEMMA SameCaches ==
  /\ UNCHANGED imm => InImm' = InImm
  /\ UNCHANGED st => InSt' = InSt
BY DEF InImm, InSt

\* Taking a memory out of every immediate cache.
LEMMA ImmWithout ==
  ASSUME CachesTyped, NEW m, imm' = [s \in Sessions |-> Only(imm[s], Ids \ {m})]
  PROVE  /\ imm' \in [Sessions -> Seq(Ids)]
         /\ \A s \in Sessions : /\ ToSet(imm'[s]) = ToSet(imm[s]) \ {m}
                                /\ IsInjective(imm[s]) => IsInjective(imm'[s])
         /\ InImm' = InImm \ {m}
<1>1. ASSUME NEW s \in Sessions
      PROVE  /\ imm'[s] \in Seq(Ids) /\ ToSet(imm'[s]) = ToSet(imm[s]) \ {m}
             /\ IsInjective(imm[s]) => IsInjective(imm'[s])
  <2>1. imm[s] \in Seq(Ids) /\ imm'[s] = Only(imm[s], Ids \ {m})
    BY DEF CachesTyped
  <2>2. /\ Only(imm[s], Ids \ {m}) \in Seq(Ids \ {m})
        /\ ToSet(Only(imm[s], Ids \ {m})) = ToSet(imm[s]) \cap (Ids \ {m})
        /\ IsInjective(imm[s]) => IsInjective(Only(imm[s], Ids \ {m}))
    BY <2>1, OnlyMembers
  <2>3. ToSet(imm[s]) \subseteq Ids
    BY <2>1, MembersUpTo
  <2>4. Only(imm[s], Ids \ {m}) \in Seq(Ids)
    BY <2>2, SeqMonotonic
  <2> QED BY <2>1, <2>2, <2>3, <2>4
<1>2. imm' \in [Sessions -> Seq(Ids)]
  BY <1>1
<1>3. InImm' = UNION {ToSet(imm'[s]) : s \in Sessions}
  BY DEF InImm
<1>4. InImm' = InImm \ {m}
  <2>1. \A s \in Sessions : ToSet(imm'[s]) = ToSet(imm[s]) \ {m}
    BY <1>1
  <2>2. \A e : e \in InImm' <=> \E s \in Sessions : e \in ToSet(imm'[s])
    BY <1>3, Zenon
  <2>3. \A e : e \in InImm <=> \E s \in Sessions : e \in ToSet(imm[s])
    BY InImmIs
  <2>4. ASSUME NEW e PROVE e \in InImm' <=> e \in InImm /\ e # m
    <3>1. ASSUME NEW s \in Sessions PROVE e \in ToSet(imm'[s]) <=> e \in ToSet(imm[s]) /\ e # m
      BY <2>1
    <3> QED BY <2>2, <2>3, <3>1, Zenon
  <2> QED BY <2>4
<1> QED BY <1>1, <1>2, <1>4

\* Taking memories out of every short-term cache.
LEMMA StWithout ==
  ASSUME NEW S, st' = [s \in DOMAIN st |-> st[s] \ S]
  PROVE  /\ DOMAIN st' = DOMAIN st /\ \A s \in DOMAIN st : st'[s] = st[s] \ S
         /\ InSt' = InSt \ S
BY DEF InSt

\* A memory less, or a cache less, and the caches keep to their sessions.
LEMMA FewerCached ==
  ASSUME CachesTyped, Shaped, UNCHANGED lru,
         imm' \in [Sessions -> Seq(Ids)],
         \A s \in Sessions : ToSet(imm'[s]) \subseteq ToSet(imm[s]) /\ IsInjective(imm'[s]),
         DOMAIN st' \subseteq DOMAIN st, \A s \in DOMAIN st' : st'[s] \subseteq st[s]
  PROVE  CachesTyped' /\ Shaped'
<1>1. CachesTyped'
  BY DEF CachesTyped
<1>2. ASSUME NEW s \in Sessions, imm'[s] # <<>> PROVE imm[s] # <<>>
  <2>1. ToSet(imm'[s]) # {}
    BY <1>2, NoMembers
  <2> QED BY <2>1, NoMembers DEF CachesTyped
<1> QED BY <1>1, <1>2 DEF Shaped

\* Caches that stay keep their shape.
LEMMA CachesUnchanged ==
  ASSUME CachesTyped, Shaped, UNCHANGED Caches
  PROVE  /\ CachesTyped' /\ Shaped' /\ InImm' = InImm /\ InSt' = InSt
         /\ \A s \in Sessions : ToSet(imm'[s]) \subseteq ToSet(imm[s])
BY SameCaches DEF Caches, CachesTyped, Shaped

\* A memory taken out of both caches.
LEMMA UncachedIs ==
  ASSUME CachesTyped, Shaped, NEW m, Uncached(m), UNCHANGED lru
  PROVE  /\ CachesTyped' /\ Shaped'
         /\ InImm' = InImm \ {m} /\ InSt' = InSt \ {m}
         /\ \A s \in Sessions : ToSet(imm'[s]) \subseteq ToSet(imm[s])
<1>1. /\ imm' = [s \in Sessions |-> Only(imm[s], Ids \ {m})]
      /\ st' = [s \in DOMAIN st |-> st[s] \ {m}]
  BY DEF Uncached
<1>2. /\ imm' \in [Sessions -> Seq(Ids)]
      /\ \A s \in Sessions : ToSet(imm'[s]) = ToSet(imm[s]) \ {m} /\ IsInjective(imm'[s])
      /\ InImm' = InImm \ {m}
  BY <1>1, ImmWithout DEF Shaped
<1>3. /\ DOMAIN st' = DOMAIN st /\ \A s \in DOMAIN st : st'[s] = st[s] \ {m}
      /\ InSt' = InSt \ {m}
  BY <1>1, StWithout
<1>4. CachesTyped' /\ Shaped'
  BY <1>2, <1>3, FewerCached
<1> QED BY <1>2, <1>3, <1>4

\* Only the short-term caches lose something.
LEMMA StFewer ==
  ASSUME CachesTyped, Shaped, NEW S, st' = [s \in DOMAIN st |-> st[s] \ S], UNCHANGED <<imm, lru>>
  PROVE  /\ CachesTyped' /\ Shaped'
         /\ InImm' = InImm /\ InSt' = InSt \ S
         /\ \A s \in Sessions : ToSet(imm'[s]) \subseteq ToSet(imm[s])
<1>1. /\ DOMAIN st' = DOMAIN st /\ \A s \in DOMAIN st : st'[s] = st[s] \ S
      /\ InSt' = InSt \ S
  BY StWithout
<1>2. CachesTyped' /\ Shaped'
  BY <1>1, FewerCached DEF CachesTyped, Shaped
<1> QED BY <1>1, <1>2, SameCaches

\* DELETE /memory/{id} takes a memory out of the cache of its tier, if it names that tier.
LEMMA DeleteCaches ==
  ASSUME CachesTyped, Shaped, NEW m, NEW t \in Tiers, Delete(m, t)
  PROVE  /\ CachesTyped' /\ Shaped'
         /\ InImm' = IF t = "immediate" THEN InImm \ {m} ELSE InImm
         /\ InSt' = IF t = "short_term" THEN InSt \ {m} ELSE InSt
         /\ \A s \in Sessions : ToSet(imm'[s]) \subseteq ToSet(imm[s])
<1>1. CASE t = "long_term"
  BY <1>1, CachesUnchanged DEF Delete, Caches
<1>2. CASE t = "immediate"
  <2>1. imm' = [s \in Sessions |-> Only(imm[s], Ids \ {m})] /\ st' = st /\ lru' = lru
    BY <1>2 DEF Delete
  <2>2. /\ imm' \in [Sessions -> Seq(Ids)]
        /\ \A s \in Sessions : ToSet(imm'[s]) = ToSet(imm[s]) \ {m} /\ IsInjective(imm'[s])
        /\ InImm' = InImm \ {m}
    BY <2>1, ImmWithout DEF Shaped
  <2>3. CachesTyped' /\ Shaped'
    BY <2>1, <2>2, FewerCached
  <2> QED BY <1>2, <2>1, <2>2, <2>3, SameCaches
<1>3. CASE t = "short_term"
  <2>1. st' = [s \in DOMAIN st |-> st[s] \ {m}] /\ imm' = imm /\ lru' = lru
    BY <1>3 DEF Delete
  <2> QED BY <1>3, <2>1, StFewer
<1> QED BY <1>1, <1>2, <1>3 DEF Tiers

\* The sweep takes what has expired out of the short-term caches.
LEMMA SweepCaches ==
  ASSUME CachesTyped, Shaped, NEW h \in Handlers, Sweep(h)
  PROVE  /\ CachesTyped' /\ Shaped'
         /\ InImm' = InImm /\ InSt' = InSt \ stale
         /\ \A s \in Sessions : ToSet(imm'[s]) \subseteq ToSet(imm[s])
<1>1. /\ st' = [s \in {r \in DOMAIN st : st[r] \ stale # {}} |-> st[s] \ stale]
      /\ imm' = imm /\ lru' = lru
  BY DEF Sweep
<1>2. /\ DOMAIN st' \subseteq DOMAIN st
      /\ \A s \in DOMAIN st' : st'[s] = st[s] \ stale
      /\ \A s \in DOMAIN st \ DOMAIN st' : st[s] \subseteq stale
  BY <1>1
<1>3. InSt' = InSt \ stale
  BY <1>2 DEF InSt
<1>4. CachesTyped' /\ Shaped'
  BY <1>1, <1>2, FewerCached DEF CachesTyped, Shaped
<1> QED BY <1>1, <1>3, <1>4, SameCaches

\* clear() first empties the immediate caches.
LEMMA ClearCaches ==
  ASSUME CachesTyped, Shaped, NEW h \in Handlers, Clear(h)
  PROVE  /\ CachesTyped' /\ Shaped'
         /\ InImm' = {} /\ InSt' = InSt
         /\ \A s \in Sessions : ToSet(imm'[s]) \subseteq ToSet(imm[s])
<1>1. imm' = [s \in Sessions |-> <<>>] /\ lru' = lru /\ st' = st
  BY DEF Clear
<1>2. /\ imm' \in [Sessions -> Seq(Ids)]
      /\ \A s \in Sessions : ToSet(imm'[s]) = {} /\ IsInjective(imm'[s])
  <2>1. <<>> \in Seq(Ids) /\ ToSet(<<>>) = {}
    BY EmptySeq, NoMembers
  <2>2. IsInjective(<<>>)
    BY DEF IsInjective
  <2> QED BY <1>1, <2>1, <2>2
<1>3. CachesTyped' /\ Shaped'
  BY <1>1, <1>2, FewerCached DEF CachesTyped
<1> QED BY <1>1, <1>2, <1>3, SameCaches DEF InImm

\* A memory more in the short-term cache of its session.
LEMMA StMore ==
  ASSUME CachesTyped, Shaped, NEW m \in Ids, UNCHANGED <<imm, lru>>,
         DOMAIN st' = DOMAIN st \cup {SessionOf[m]},
         \A s \in DOMAIN st' : st'[s] = (IF s \in DOMAIN st THEN st[s] ELSE {})
                                          \cup (IF s = SessionOf[m] THEN {m} ELSE {})
  PROVE  /\ CachesTyped' /\ Shaped'
         /\ InImm' = InImm /\ InSt' = InSt \cup {m}
         /\ \A s \in Sessions : ToSet(imm'[s]) \subseteq ToSet(imm[s])
<1>1. CachesTyped'
  BY DEF CachesTyped, Sessions
<1>2. Shaped'
  BY DEF Shaped
<1>3. InSt' = InSt \cup {m}
  <2>1. \A s \in DOMAIN st : s \in DOMAIN st' /\ st[s] \subseteq st'[s]
    OBVIOUS
  <2>2. \A s \in DOMAIN st' : st'[s] \subseteq InSt \cup {m}
    BY DEF InSt
  <2>3. m \in st'[SessionOf[m]] /\ SessionOf[m] \in DOMAIN st'
    OBVIOUS
  <2> QED BY <2>1, <2>2, <2>3 DEF InSt
<1> QED BY <1>1, <1>2, <1>3, SameCaches

\* RememberImmediate, its parts named.
NewSession == SessionOf[made + 1]
Full == NewSession \notin ToSet(lru) /\ Len(lru) >= MaxSessions
Room == Over(NewSession)
Dropped == Oldest(NewSession, Room)
Evicted == IF Full THEN ToSet(imm[Head(lru)]) ELSE {}

\* ImmediateMemory.add, taken apart.
LEMMA ImmediateParts ==
  ASSUME NEW h \in Handlers, RememberImmediate(h)
  PROVE  /\ op[h] = Idle /\ made < MaxMemories /\ made' = made + 1
         /\ lru' = Append(Only(IF Full THEN Tail(lru) ELSE lru, Sessions \ {NewSession}), NewSession)
         /\ imm' = [r \in Sessions |->
                      IF r = NewSession
                      THEN Append(SubSeq(imm[NewSession], Room + 1, Len(imm[NewSession])), made + 1)
                      ELSE IF Full /\ r = Head(lru) THEN <<>> ELSE imm[r]]
         /\ \/ row' = [Without(Dropped) EXCEPT ![made + 1] = "immediate"] /\ Sound
            \/ row' = Without(Dropped) /\ Fault /\ torn' = torn \cup {made + 1}
         /\ doomed' = doomed \cup Evicted
         /\ Go(h, "look", made + 1, "immediate", {})
         /\ UNCHANGED <<st, stale, old, Searchers, audit, gone, stray, twice, jobs, restarts>>
BY DEF RememberImmediate, NewSession, Full, Room, Dropped, Evicted

\* There is a next memory as long as the bound is not reached.
LEMMA NewMemory ==
  ASSUME RestTyped, made < MaxMemories
  PROVE  made + 1 \in Ids /\ SessionOf[made + 1] \in Sessions /\ made + 1 > made
BY MemoryAssumption DEF RestTyped, Ids, Sessions

\* The session of the new memory ends up last in the LRU order, and only its head goes.
LEMMA NewSessionLast ==
  ASSUME CachesTyped, Shaped, RestTyped, made < MaxMemories,
         lru' = Append(Only(IF Full THEN Tail(lru) ELSE lru, Sessions \ {NewSession}), NewSession)
  PROVE  /\ lru' \in Seq(Sessions) /\ IsInjective(lru') /\ Len(lru') <= MaxSessions
         /\ NewSession \in ToSet(lru')
         /\ \A r \in ToSet(lru) : (Full /\ r = Head(lru)) \/ r \in ToSet(lru')
<1> DEFINE s == NewSession
           base == IF Full THEN Tail(lru) ELSE lru
           rest == Only(base, Sessions \ {s})
<1>1. s \in Sessions
  BY NewMemory DEF NewSession
<1>2. lru \in Seq(Sessions) /\ IsInjective(lru) /\ Len(lru) <= MaxSessions
      /\ MaxSessions \in Nat \ {0}
  BY MemoryAssumption DEF CachesTyped, Shaped
<1>3. Len(lru) \in Nat /\ ToSet(lru) \subseteq Sessions
      /\ IsFiniteSet(ToSet(lru)) /\ Cardinality(ToSet(lru)) = Len(lru)
  BY <1>2, LengthIs, MembersUpTo
<1>4. Full => lru # <<>>
  BY <1>2, <1>3, EmptySeq DEF Full
<1>5. /\ base \in Seq(Sessions) /\ IsInjective(base)
      /\ ToSet(base) = IF Full THEN ToSet(lru) \ {Head(lru)} ELSE ToSet(lru)
      /\ Full => Head(lru) \in ToSet(lru)
  <2>1. CASE Full
    <3>1. /\ Tail(lru) \in Seq(Sessions) /\ ToSet(lru) = ToSet(Tail(lru)) \cup {Head(lru)}
          /\ IsInjective(Tail(lru)) /\ Head(lru) \notin ToSet(Tail(lru))
      BY <1>2, <1>4, <2>1, TailMembers
    <3>2. ToSet(base) = ToSet(Tail(lru)) /\ base = Tail(lru)
      BY <2>1
    <3> HIDE DEF base
    <3> QED BY <2>1, <3>1, <3>2
  <2>2. CASE ~Full
    BY <1>2, <2>2
  <2> QED BY <2>1, <2>2
<1> HIDE DEF base
<1>6. rest \in Seq(Sessions \ {s}) /\ ToSet(rest) = ToSet(base) \ {s} /\ IsInjective(rest)
  <2>1. ToSet(base) \subseteq Sessions
    BY <1>5, MembersUpTo
  <2> QED BY <1>5, <2>1, OnlyMembers
<1>7. rest \in Seq(Sessions)
  BY <1>6, SeqMonotonic
<1>8. lru' = Append(rest, s)
  BY DEF base
<1> HIDE DEF rest
<1>9. /\ lru' \in Seq(Sessions) /\ ToSet(lru') = ToSet(rest) \cup {s} /\ IsInjective(lru')
      /\ Len(lru') = Len(rest) + 1
  <2>1. s \notin ToSet(rest)
    BY <1>6
  <2>2. /\ Append(rest, s) \in Seq(Sessions) /\ ToSet(Append(rest, s)) = ToSet(rest) \cup {s}
        /\ IsInjective(Append(rest, s))
    BY <1>1, <1>6, <1>7, <2>1, AppendMembers
  <2>3. Len(Append(rest, s)) = Len(rest) + 1
    BY <1>1, <1>7, AppendProperties
  <2> QED BY <1>8, <2>2, <2>3
<1>10. Len(rest) + 1 <= MaxSessions
  <2>1. Len(rest) \in Nat /\ IsFiniteSet(ToSet(rest)) /\ Cardinality(ToSet(rest)) = Len(rest)
    BY <1>6, <1>7, LengthIs
  <2>2. ASSUME NEW e, e \in ToSet(lru), ToSet(rest) = ToSet(lru) \ {e}
        PROVE  Len(rest) + 1 <= MaxSessions
    <3>1. Cardinality(ToSet(rest)) = Cardinality(ToSet(lru)) - 1
      BY <1>3, <2>2, FS_RemoveElement
    <3> QED BY <1>2, <1>3, <2>1, <3>1
  <2>3. CASE s \in ToSet(lru)
    <3>1. ~Full
      BY <2>3 DEF Full
    <3> QED BY <1>5, <1>6, <2>2, <2>3, <3>1
  <2>4. CASE Full
    <3>1. s \notin ToSet(lru)
      BY <2>4 DEF Full
    <3> QED BY <1>5, <1>6, <2>2, <2>4, <3>1
  <2>5. CASE s \notin ToSet(lru) /\ ~Full
    <3>1. ToSet(rest) = ToSet(lru) /\ Len(lru) < MaxSessions
      BY <1>2, <1>3, <1>5, <1>6, <2>5 DEF Full
    <3> QED BY <1>2, <1>3, <2>1, <3>1
  <2> QED BY <2>3, <2>4, <2>5
<1> QED BY <1>5, <1>6, <1>9, <1>10

\* ImmediateMemory.add: the new memory comes in, what is over a limit goes out.
LEMMA ImmediateCaches ==
  ASSUME CachesTyped, Shaped, RestTyped, Fresh, NEW h \in Handlers, RememberImmediate(h)
  PROVE  /\ CachesTyped' /\ Shaped'
         /\ Dropped \subseteq InImm /\ Evicted \subseteq InImm
         /\ InImm' = (InImm \ (Dropped \cup Evicted)) \cup {made + 1} /\ InSt' = InSt
         /\ \A r \in Sessions : ToSet(imm'[r]) \subseteq ToSet(imm[r]) \/ Len(imm'[r]) <= MaxSize
<1> DEFINE s == NewSession
           m == made + 1
           l == imm[s]
           q == SubSeq(l, Room + 1, Len(l))
<1>1. /\ made < MaxMemories /\ st' = st
      /\ lru' = Append(Only(IF Full THEN Tail(lru) ELSE lru, Sessions \ {s}), s)
      /\ imm' = [r \in Sessions |-> IF r = s THEN Append(q, m)
                                    ELSE IF Full /\ r = Head(lru) THEN <<>> ELSE imm[r]]
  BY ImmediateParts
<1>2. m \in Ids /\ s \in Sessions /\ SessionOf[m] = s /\ m \notin InImm
  BY <1>1, NewMemory DEF NewSession, Fresh, Unseen
<1>3. /\ lru' \in Seq(Sessions) /\ IsInjective(lru') /\ Len(lru') <= MaxSessions
      /\ s \in ToSet(lru')
      /\ \A r \in ToSet(lru) : (Full /\ r = Head(lru)) \/ r \in ToSet(lru')
  BY <1>1, NewSessionLast
<1>4. l \in Seq(Ids) /\ IsInjective(l) /\ Len(l) \in Nat /\ MaxSize \in Nat \ {0}
  BY <1>2, MemoryAssumption, LenProperties DEF CachesTyped, Shaped
<1>5. Room \in 0..Len(l) /\ Len(l) - Room + 1 <= MaxSize
  BY <1>4 DEF Room, Over
<1>6. /\ q \in Seq(Ids) /\ Len(q) = Len(l) - Room
      /\ ToSet(q) = ToSet(l) \ Dropped /\ IsInjective(q) /\ Dropped \subseteq ToSet(l)
  BY <1>4, <1>5, SuffixMembers, PrefixMembers DEF Dropped, Oldest
<1>7. m \notin ToSet(l)
  BY <1>2, InImmIs
<1> HIDE DEF q, m, l
<1>8. /\ Append(q, m) \in Seq(Ids) /\ ToSet(Append(q, m)) = ToSet(q) \cup {m}
      /\ IsInjective(Append(q, m)) /\ Len(Append(q, m)) = Len(q) + 1
  BY <1>2, <1>6, <1>7, AppendMembers, AppendProperties
<1>9. /\ imm'[s] \in Seq(Ids) /\ IsInjective(imm'[s])
      /\ ToSet(imm'[s]) = (ToSet(l) \ Dropped) \cup {m} /\ Len(imm'[s]) <= MaxSize
  BY <1>1, <1>2, <1>5, <1>6, <1>8
<1>10. ASSUME NEW r \in Sessions, r # s
       PROVE  /\ imm'[r] \in Seq(Ids) /\ IsInjective(imm'[r])
              /\ Full /\ r = Head(lru) => imm'[r] = <<>>
              /\ ~(Full /\ r = Head(lru)) => imm'[r] = imm[r]
  <2>1. IsInjective(<<>>) /\ <<>> \in Seq(Ids)
    BY EmptySeq DEF IsInjective
  <2> QED BY <1>1, <1>10, <2>1 DEF CachesTyped, Shaped
<1>11. ToSet(<<>>) = {}
  BY NoMembers, EmptySeq
<1>12. CachesTyped'
  BY <1>1, <1>3, <1>9, <1>10 DEF CachesTyped
<1>13. Shaped'
  <2>1. ASSUME NEW r \in Sessions
        PROVE  /\ IsInjective(imm'[r]) /\ (imm'[r] # <<>> => r \in ToSet(lru'))
               /\ \A e \in ToSet(imm'[r]) : SessionOf[e] = r
    <3>1. CASE r = s
      <4>1. \A e \in ToSet(l) : SessionOf[e] = s
        BY <1>2 DEF Shaped, l
      <4> QED BY <1>2, <1>3, <1>9, <3>1, <4>1
    <3>2. CASE r # s /\ Full /\ r = Head(lru)
      BY <1>10, <1>11, <3>2
    <3>3. CASE r # s /\ ~(Full /\ r = Head(lru))
      BY <1>3, <1>10, <3>3 DEF Shaped
    <3> QED BY <3>1, <3>2, <3>3
  <2> QED BY <1>1, <1>3, <2>1 DEF Shaped
<1>14. Dropped \subseteq InImm /\ Dropped \subseteq ToSet(imm[s])
  BY <1>2, <1>6, InImmIs DEF l
<1>15. Evicted \subseteq InImm /\ (Full => Head(lru) \in Sessions /\ Head(lru) # s)
  <2>1. CASE Full
    <3>1. lru # <<>>
      BY <2>1, EmptySeq, MemoryAssumption DEF Full
    <3>2. Head(lru) \in ToSet(lru) /\ ToSet(lru) \subseteq Sessions
      BY <3>1, TailMembers, MembersUpTo DEF CachesTyped
    <3> QED BY <2>1, <3>2, InImmIs DEF Evicted, Full
  <2> QED BY <2>1 DEF Evicted
<1>16. InImm' = (InImm \ (Dropped \cup Evicted)) \cup {m}
  <2>1. ASSUME NEW e \in InImm' PROVE e \in (InImm \ (Dropped \cup Evicted)) \cup {m}
    <3>1. PICK r \in Sessions : e \in ToSet(imm'[r])
      BY <2>1 DEF InImm
    <3>2. CASE r = s /\ e # m
      <4>1. e \in ToSet(imm[s]) \ Dropped
        BY <1>9, <3>1, <3>2 DEF l
      <4>2. e \notin Evicted
        BY <1>2, <1>15, <4>1 DEF Evicted, Shaped
      <4> QED BY <1>2, <4>1, <4>2, InImmIs
    <3>3. CASE r # s
      <4>1. ~(Full /\ r = Head(lru)) /\ e \in ToSet(imm[r])
        BY <1>10, <1>11, <3>1, <3>3
      <4>2. e \notin Evicted /\ e \notin Dropped
        BY <1>2, <1>14, <1>15, <3>3, <4>1 DEF Evicted, Shaped
      <4> QED BY <4>1, <4>2, InImmIs
    <3> QED BY <3>2, <3>3
  <2>2. ASSUME NEW e \in InImm, e \notin Dropped \cup Evicted PROVE e \in InImm'
    <3>1. PICK r \in Sessions : e \in ToSet(imm[r])
      BY <2>2, InImmIs
    <3>2. e \in ToSet(imm'[r])
      BY <1>9, <1>10, <2>2, <3>1 DEF l, Evicted
    <3> QED BY <3>2 DEF InImm
  <2>3. m \in InImm'
    BY <1>2, <1>9 DEF InImm
  <2> QED BY <2>1, <2>2, <2>3
<1> QED BY <1>1, <1>2, <1>9, <1>10, <1>11, <1>12, <1>13, <1>14, <1>15, <1>16, SameCaches DEF m

\* An add that an eviction ends has made places, and no more.
LEMMA EvictRaisesCaches ==
  ASSUME CachesTyped, Shaped, RestTyped, NEW h \in Handlers, EvictRaises(h)
  PROVE  \E k \in 1..Room :
           /\ CachesTyped' /\ Shaped'
           /\ Oldest(NewSession, k - 1) \subseteq InImm
           /\ imm[NewSession][k] \in InImm
           /\ InImm' = (InImm \ Oldest(NewSession, k - 1)) \ {imm[NewSession][k]}
           /\ InSt' = InSt
           /\ \A s \in Sessions : ToSet(imm'[s]) \subseteq ToSet(imm[s])
           /\ row' = Without(Oldest(NewSession, k - 1))
           /\ torn' = torn \cup {imm[NewSession][k]}
<1> DEFINE s == NewSession
           l == imm[s]
<1>1. made < MaxMemories /\ st' = st /\ lru' = lru
  BY DEF EvictRaises
<1>2. s \in Sessions
  BY <1>1, NewMemory DEF NewSession
<1>3. PICK k \in 1..Room : /\ imm' = [imm EXCEPT ![s] = SubSeq(@, k + 1, Len(@))]
                            /\ row' = Without(Oldest(s, k - 1))
                            /\ torn' = torn \cup {l[k]}
  BY DEF EvictRaises, NewSession, Room
<1>4. l \in Seq(Ids) /\ IsInjective(l) /\ Len(l) \in Nat /\ MaxSize \in Nat \ {0}
  BY <1>2, MemoryAssumption, LenProperties DEF CachesTyped, Shaped
<1>5. k \in 1..Len(l) /\ k - 1 \in 0..Len(l) /\ k \in 0..Len(l) /\ (k - 1) + 1 = k
  BY <1>3, <1>4 DEF Room, Over
<1> DEFINE q == SubSeq(l, k + 1, Len(l))
<1>6. /\ q \in Seq(Ids) /\ ToSet(q) = ToSet(l) \ ToSet(SubSeq(l, 1, k)) /\ IsInjective(q)
      /\ ToSet(SubSeq(l, 1, k)) \subseteq ToSet(l)
  BY <1>4, <1>5, SuffixMembers, PrefixMembers
<1>7. Oldest(s, k - 1) = {l[i] : i \in 1..(k - 1)}
  BY <1>4, <1>5, PrefixMembers DEF Oldest
<1>8. ToSet(SubSeq(l, 1, k)) = Oldest(s, k - 1) \cup {l[k]}
  BY <1>4, <1>5, <1>7, PrefixMembers
<1>9. imm'[s] = q /\ \A r \in Sessions \ {s} : imm'[r] = imm[r]
  BY <1>2, <1>3 DEF CachesTyped
<1> HIDE DEF q, l, s
<1>10. imm' \in [Sessions -> Seq(Ids)]
  BY <1>2, <1>3, <1>6, <1>9 DEF CachesTyped
<1>11. \A r \in Sessions : ToSet(imm'[r]) \subseteq ToSet(imm[r]) /\ IsInjective(imm'[r])
  BY <1>6, <1>9 DEF Shaped, l
<1>12. CachesTyped' /\ Shaped'
  BY <1>1, <1>10, <1>11, FewerCached DEF CachesTyped
<1>13. Oldest(s, k - 1) \cup {l[k]} \subseteq ToSet(imm[s])
  BY <1>6, <1>8 DEF l
<1>14. InImm' = InImm \ (Oldest(s, k - 1) \cup {l[k]})
  <2>1. ASSUME NEW e \in InImm' PROVE e \in InImm /\ e \notin Oldest(s, k - 1) \cup {l[k]}
    <3>1. PICK r \in Sessions : e \in ToSet(imm'[r])
      BY <2>1 DEF InImm
    <3>2. CASE r = s
      BY <1>2, <1>6, <1>8, <1>9, <3>1, <3>2, InImmIs DEF l
    <3>3. CASE r # s
      <4>1. e \in ToSet(imm[r])
        BY <1>9, <3>1, <3>3
      <4>2. SessionOf[e] = r /\ e \notin ToSet(imm[s])
        BY <1>2, <3>3, <4>1 DEF Shaped
      <4> QED BY <1>13, <4>1, <4>2, InImmIs
    <3> QED BY <3>2, <3>3
  <2>2. ASSUME NEW e \in InImm, e \notin Oldest(s, k - 1) \cup {l[k]} PROVE e \in InImm'
    <3>1. PICK r \in Sessions : e \in ToSet(imm[r])
      BY <2>2, InImmIs
    <3>2. e \in ToSet(imm'[r])
      BY <1>6, <1>8, <1>9, <2>2, <3>1 DEF l
    <3> QED BY <3>2 DEF InImm
  <2> QED BY <2>1, <2>2
<1>15. Oldest(s, k - 1) \subseteq InImm /\ l[k] \in InImm
  BY <1>2, <1>13, InImmIs
<1>16. InSt' = InSt
  BY <1>1, SameCaches
<1> WITNESS k \in 1..Room
<1> QED BY <1>3, <1>11, <1>12, <1>14, <1>15, <1>16 DEF l, s

\* What a handler holds is a memory where its step is about one.
LEMMA OpIs ==
  ASSUME Typed, NEW h \in Handlers
  PROVE  /\ op[h] \in Ops /\ op[h].m \in 0..MaxMemories /\ op[h].ids \subseteq Ids
         /\ op[h].m # 0 => op[h].m \in Ids
         /\ op[h].pc \in OnMemory => op[h].m \in Ids
         /\ Kind(op[h], built)
BY MemoryAssumption DEF Typed, Kinded, Kind, OnMemory, Ops, Ids

\* ShortTermMemory.add: the memory is put, or the expired ones make room first.
LEMMA ShortCaches ==
  ASSUME Typed, Shaped, NEW h \in Handlers, RememberShort(h)
  PROVE  /\ CachesTyped' /\ Shaped' /\ InImm' = InImm
         /\ \A s \in Sessions : ToSet(imm'[s]) \subseteq ToSet(imm[s])
         /\ op[h] = Idle /\ made < MaxMemories /\ made' = made + 1
         /\ UNCHANGED <<stale, old, doomed, built, index, audit, gone, stray, twice, restarts>>
         /\ \/ /\ InSt' = InSt \cup {made + 1}
               /\ SavedBehind(made + 1, "short_term") /\ Go(h, "look", made + 1, "short_term", {})
            \/ \E dead \in SUBSET (InSt \cap stale) :
                 /\ InSt' = InSt \ dead
                 /\ DeletedBehind(dead)
                 /\ Go(h, "put", made + 1, "short_term", {})
<1> DEFINE m == made + 1
           s == SessionOf[m]
           cache == IF s \in DOMAIN st THEN st[s] ELSE {}
           dead == cache \cap stale
<1>1. /\ op[h] = Idle /\ made < MaxMemories /\ made' = made + 1
      /\ UNCHANGED <<imm, lru, stale, old, doomed, built, index, audit, gone, stray, twice, restarts>>
  BY DEF RememberShort, Searchers
<1>2. m \in Ids /\ CachesTyped
  BY <1>1, NewMemory DEF Typed
<1>3. CASE dead = {}
  <2>1. /\ st' = [r \in DOMAIN st \cup {s} |-> IF r = s THEN cache \cup {m} ELSE st[r]]
        /\ SavedBehind(m, "short_term") /\ Go(h, "look", m, "short_term", {})
    BY <1>3 DEF RememberShort
  <2>2. /\ DOMAIN st' = DOMAIN st \cup {SessionOf[m]}
        /\ \A r \in DOMAIN st' : st'[r] = (IF r \in DOMAIN st THEN st[r] ELSE {})
                                            \cup (IF r = SessionOf[m] THEN {m} ELSE {})
    BY <2>1
  <2> HIDE DEF m, s, cache, dead
  <2>3. /\ CachesTyped' /\ Shaped' /\ InImm' = InImm /\ InSt' = InSt \cup {m}
        /\ \A r \in Sessions : ToSet(imm'[r]) \subseteq ToSet(imm[r])
    BY <1>1, <1>2, <2>2, StMore
  <2> QED BY <1>1, <2>1, <2>3 DEF m
<1>4. CASE dead # {}
  <2>1. /\ st' = [st EXCEPT ![s] = cache \ dead]
        /\ DeletedBehind(dead)
        /\ Go(h, "put", m, "short_term", {})
    BY <1>4 DEF RememberShort
  <2>2. s \in DOMAIN st /\ cache = st[s] /\ dead \subseteq st[s] \cap stale
    BY <1>4
  <2>3. dead \subseteq InSt \cap stale
    BY <1>2, <2>2, InImmIs
  <2>4. \A r \in DOMAIN st \ {s} : st[r] \cap dead = {}
    BY <2>2 DEF Shaped
  <2>5. DOMAIN st' = DOMAIN st /\ \A r \in DOMAIN st : st'[r] = st[r] \ dead
    BY <2>1, <2>2, <2>4
  <2> HIDE DEF m, s, cache, dead
  <2>6. InSt' = InSt \ dead
    BY <2>5 DEF InSt
  <2>7. CachesTyped' /\ Shaped'
    BY <1>1, <1>2, <2>5, FewerCached DEF CachesTyped, Shaped
  <2> QED BY <1>1, <2>1, <2>3, <2>6, <2>7, SameCaches DEF m
<1> QED BY <1>3, <1>4

\* ShortTermMemory.add after it has made room.
LEMMA PutCaches ==
  ASSUME Typed, Shaped, NEW h \in Handlers, PutShort(h)
  PROVE  /\ CachesTyped' /\ Shaped' /\ InImm' = InImm
         /\ \A s \in Sessions : ToSet(imm'[s]) \subseteq ToSet(imm[s])
         /\ op[h].pc = "put" /\ op[h].m \in Ids
         /\ UNCHANGED <<made, stale, old, doomed, built, index, audit, gone, stray, twice, restarts>>
         /\ \/ /\ InSt' = InSt \cup {op[h].m}
               /\ SavedBehind(op[h].m, "short_term") /\ Go(h, "look", op[h].m, "short_term", {})
            \/ InSt' = InSt /\ Done(h) /\ UNCHANGED <<row, torn>>
<1> DEFINE m == op[h].m
           s == SessionOf[m]
<1>1. /\ op[h].pc = "put"
      /\ UNCHANGED <<imm, lru, made, stale, old, doomed, built, index, audit, gone, stray, twice, restarts>>
  BY DEF PutShort, Searchers, Past
<1>2. m \in Ids /\ CachesTyped
  BY <1>1, OpIs DEF Typed, OnMemory
<1>3. CASE s \in DOMAIN st
  <2>1. /\ st' = [st EXCEPT ![s] = @ \cup {m}]
        /\ SavedBehind(m, "short_term") /\ Go(h, "look", m, "short_term", {})
    BY <1>3 DEF PutShort
  <2>2. /\ DOMAIN st' = DOMAIN st \cup {SessionOf[m]}
        /\ \A r \in DOMAIN st' : st'[r] = (IF r \in DOMAIN st THEN st[r] ELSE {})
                                            \cup (IF r = SessionOf[m] THEN {m} ELSE {})
    BY <1>3, <2>1
  <2> HIDE DEF m, s
  <2>3. /\ CachesTyped' /\ Shaped' /\ InImm' = InImm /\ InSt' = InSt \cup {m}
        /\ \A r \in Sessions : ToSet(imm'[r]) \subseteq ToSet(imm[r])
    BY <1>1, <1>2, <2>2, StMore
  <2> QED BY <1>1, <1>2, <2>1, <2>3 DEF m
<1>4. CASE s \notin DOMAIN st
  <2>1. Done(h) /\ UNCHANGED <<st, row, torn>>
    BY <1>4 DEF PutShort, Sound
  <2>2. UNCHANGED Caches
    BY <1>1, <2>1 DEF Caches
  <2> QED BY <1>1, <1>2, <2>1, <2>2, CachesUnchanged
<1> QED BY <1>3, <1>4

\* update puts the memory back into the cache of its tier.
LEMMA UpdateCaches ==
  ASSUME Typed, Shaped, NEW h \in Handlers, UpdateCached(h)
  PROVE  /\ CachesTyped' /\ Shaped'
         /\ op[h].pc = "update" /\ op[h].m \in Ids /\ op[h].tier \in Tiers \ {"long_term"}
         /\ InImm' = IF op[h].tier = "immediate" /\ SessionOf[op[h].m] \in ToSet(lru)
                     THEN InImm \cup {op[h].m} ELSE InImm
         /\ InSt' = IF op[h].tier = "short_term" THEN InSt \cup {op[h].m} ELSE InSt
         /\ \A s \in Sessions : ToSet(imm'[s]) \subseteq ToSet(imm[s])
                                  \cup (IF s = SessionOf[op[h].m] THEN {op[h].m} ELSE {})
<1> DEFINE m == op[h].m
           s == SessionOf[m]
           t == op[h].tier
<1>1. op[h].pc = "update" /\ t # "long_term" /\ UNCHANGED lru
  BY DEF UpdateCached
<1>2. m \in Ids /\ t \in Tiers /\ CachesTyped
  BY <1>1, OpIs DEF Typed, Kind, OnMemory
<1>3. CASE t = "short_term"
  <2>1. /\ imm' = imm
        /\ st' = [r \in DOMAIN st \cup {s} |->
                    (IF r \in DOMAIN st THEN st[r] ELSE {}) \cup (IF r = s THEN {m} ELSE {})]
    BY <1>3 DEF UpdateCached
  <2>2. /\ DOMAIN st' = DOMAIN st \cup {SessionOf[m]}
        /\ \A r \in DOMAIN st' : st'[r] = (IF r \in DOMAIN st THEN st[r] ELSE {})
                                            \cup (IF r = SessionOf[m] THEN {m} ELSE {})
    BY <2>1
  <2> HIDE DEF m, s, t
  <2>3. /\ CachesTyped' /\ Shaped' /\ InImm' = InImm /\ InSt' = InSt \cup {m}
        /\ \A r \in Sessions : ToSet(imm'[r]) \subseteq ToSet(imm[r])
    BY <1>1, <1>2, <2>1, <2>2, StMore
  <2> QED BY <1>1, <1>2, <1>3, <2>3 DEF m, t
<1>4. CASE t = "immediate" /\ s \notin ToSet(lru)
  <2>1. imm' = imm /\ st' = st
    BY <1>4 DEF UpdateCached
  <2>2. UNCHANGED Caches
    BY <1>1, <2>1 DEF Caches
  <2> HIDE DEF m, s, t
  <2>3. /\ CachesTyped' /\ Shaped' /\ InImm' = InImm /\ InSt' = InSt
        /\ \A r \in Sessions : ToSet(imm'[r]) \subseteq ToSet(imm[r])
    BY <1>2, <2>2, CachesUnchanged
  <2> QED BY <1>1, <1>2, <1>4, <2>3 DEF m, s, t
<1>5. CASE t = "immediate" /\ s \in ToSet(lru)
  <2> DEFINE rest == Only(imm[s], Ids \ {m})
  <2>1. st' = st /\ imm' = [imm EXCEPT ![s] = Append(rest, m)]
    BY <1>5 DEF UpdateCached
  <2>2. s \in Sessions /\ imm[s] \in Seq(Ids) /\ IsInjective(imm[s])
    BY <1>2 DEF Sessions, CachesTyped, Shaped
  <2> HIDE DEF m, s, t
  <2>3. /\ rest \in Seq(Ids \ {m}) /\ ToSet(rest) = ToSet(imm[s]) \ {m} /\ IsInjective(rest)
    <3>1. ToSet(imm[s]) \subseteq Ids
      BY <2>2, MembersUpTo
    <3> QED BY <2>2, <3>1, OnlyMembers
  <2>4. rest \in Seq(Ids)
    BY <2>3, SeqMonotonic
  <2> HIDE DEF rest
  <2>5. /\ Append(rest, m) \in Seq(Ids) /\ ToSet(Append(rest, m)) = ToSet(imm[s]) \cup {m}
        /\ IsInjective(Append(rest, m))
    BY <1>2, <2>3, <2>4, AppendMembers
  <2>6. /\ imm' \in [Sessions -> Seq(Ids)]
        /\ ToSet(imm'[s]) = ToSet(imm[s]) \cup {m} /\ IsInjective(imm'[s])
        /\ \A r \in Sessions \ {s} : imm'[r] = imm[r]
    BY <1>2, <2>1, <2>2, <2>5 DEF CachesTyped
  <2>7. CachesTyped'
    BY <1>1, <1>2, <2>1, <2>6 DEF CachesTyped
  <2>8. Shaped'
    <3>1. ASSUME NEW r \in Sessions
          PROVE  /\ IsInjective(imm'[r]) /\ (imm'[r] # <<>> => r \in ToSet(lru'))
                 /\ \A e \in ToSet(imm'[r]) : SessionOf[e] = r
      <4>1. CASE r = s
        <5>1. \A e \in ToSet(imm[s]) : SessionOf[e] = s
          BY <2>2 DEF Shaped
        <5> QED BY <1>1, <1>5, <2>6, <4>1, <5>1 DEF s
      <4>2. CASE r # s
        BY <1>1, <2>6, <4>2 DEF Shaped
      <4> QED BY <4>1, <4>2
    <3> QED BY <1>1, <2>1, <3>1 DEF Shaped
  <2>9. InImm' = InImm \cup {m}
    <3>1. \A e : e \in InImm' <=> \E r \in Sessions : e \in ToSet(imm'[r])
      BY DEF InImm
    <3>2. \A e : e \in InImm <=> \E r \in Sessions : e \in ToSet(imm[r])
      BY <1>2, InImmIs
    <3>3. ASSUME NEW e PROVE e \in InImm' <=> e \in InImm \/ e = m
      <4>1. \A r \in Sessions : e \in ToSet(imm'[r]) <=> e \in ToSet(imm[r]) \/ (r = s /\ e = m)
        BY <2>6
      <4> QED BY <2>2, <3>1, <3>2, <4>1, Zenon
    <3> QED BY <3>3
  <2> QED BY <1>1, <1>2, <1>5, <2>1, <2>6, <2>7, <2>8, <2>9, SameCaches DEF m, s, t
<1> QED BY <1>1, <1>2, <1>3, <1>4, <1>5 DEF Tiers

-----------------------------------------------------------------------------
(* What a restart loads.                                                   *)

LoadStep(rows, g, i) ==
  IF i = 0 THEN Nothing ELSE Taken(rows, g[i - 1], MaxMemories + 1 - i)

\* The recursive function that loads the rows exists.
LEMMA LoadExists ==
  ASSUME NEW rows, NEW n \in Nat
  PROVE  \E g : g = [i \in 0..n |-> LoadStep(rows, g, i)]
<1> DEFINE Bad == {m \in Nat : ~ \E g : g = [i \in 0..m |-> LoadStep(rows, g, i)]}
<1> SUFFICES ASSUME Bad # {} PROVE FALSE
  OBVIOUS
<1>1. PICK m \in Bad : \A k \in Bad : m <= k
  <2>1. Bad \in SUBSET Nat
    OBVIOUS
  <2> HIDE DEF Bad
  <2> QED BY <2>1, LeastOf
<1>2. CASE m = 0
  <2> DEFINE g == [i \in 0..0 |-> Nothing]
  <2>1. g = [i \in 0..0 |-> LoadStep(rows, g, i)]
    BY DEF LoadStep
  <2> QED BY <1>1, <1>2, <2>1
<1>3. CASE m # 0
  <2>1. m - 1 \in Nat /\ m - 1 \notin Bad
    BY <1>1, <1>3
  <2>2. PICK f : f = [i \in 0..m - 1 |-> LoadStep(rows, f, i)]
    BY <2>1
  <2> DEFINE g == [i \in 0..m |-> LoadStep(rows, f, i)]
  <2>3. \A i \in 0..m - 1 : g[i] = f[i]
    <3>1. \A i \in 0..m - 1 : f[i] = LoadStep(rows, f, i)
      BY <2>2
    <3> QED BY <2>1, <3>1
  <2>4. \A i \in 0..m : LoadStep(rows, g, i) = LoadStep(rows, f, i)
    <3>1. \A i \in 0..m : i # 0 => i - 1 \in 0..m - 1
      BY <1>1
    <3> HIDE DEF g
    <3> QED BY <2>3, <3>1 DEF LoadStep
  <2>5. g = [i \in 0..m |-> LoadStep(rows, g, i)]
    BY <2>4
  <2> QED BY <1>1, <2>5
<1> QED BY <1>2, <1>3

\* Load is the last value of its recursion.
LEMMA LoadSteps ==
  ASSUME NEW rows
  PROVE  \E g : /\ \A i \in 0..MaxMemories : g[i] = LoadStep(rows, g, i)
                /\ Load(rows) = g[MaxMemories]
<1> DEFINE loaded == CHOOSE g : g = [i \in 0..MaxMemories |-> LoadStep(rows, g, i)]
<1>1. loaded = [i \in 0..MaxMemories |-> LoadStep(rows, loaded, i)]
  BY LoadExists, MemoryAssumption
<1>2. Load(rows) = loaded[MaxMemories]
  BY DEF Load, LoadStep
<1> HIDE DEF loaded
<1>3. \A i \in 0..MaxMemories : loaded[i] = LoadStep(rows, loaded, i)
  BY <1>1
<1> QED BY <1>2, <1>3

\* What has been loaded of the i newest rows.
Accs == [imm : [Sessions -> Seq(Ids)], lru : Seq(Sessions), full : BOOLEAN]

Fitting(rows, acc, i) ==
  /\ acc \in Accs
  /\ IsInjective(acc.lru) /\ Len(acc.lru) <= MaxSessions
  /\ \A s \in Sessions : /\ IsInjective(acc.imm[s]) /\ Len(acc.imm[s]) <= MaxSize
                         /\ ToSet(acc.imm[s]) # {} <=> s \in ToSet(acc.lru)
                         /\ \A m \in ToSet(acc.imm[s]) :
                              SessionOf[m] = s /\ rows[m] = "immediate" /\ m > MaxMemories - i

\* The loading starts with empty caches.
LEMMA NothingFits ==
  ASSUME NEW rows PROVE Fitting(rows, Nothing, 0)
<1>1. <<>> \in Seq(Ids) /\ <<>> \in Seq(Sessions) /\ ToSet(<<>>) = {} /\ Len(<<>>) = 0
  BY EmptySeq, NoMembers
<1>2. IsInjective(<<>>)
  BY DEF IsInjective
<1>3. /\ Nothing \in Accs /\ Nothing.lru = <<>>
      /\ \A s \in Sessions : Nothing.imm[s] = <<>>
  BY <1>1 DEF Nothing, Accs
<1>4. MaxSessions \in Nat /\ MaxSize \in Nat
  BY MemoryAssumption
<1> QED BY <1>1, <1>2, <1>3, <1>4 DEF Fitting

\* A sequence of one element.
LEMMA OneIs ==
  ASSUME NEW T, NEW e \in T
  PROVE  <<e>> \in Seq(T) /\ ToSet(<<e>>) = {e} /\ IsInjective(<<e>>) /\ Len(<<e>>) = 1
<1>1. <<e>> \in Seq(T) /\ Len(<<e>>) = 1 /\ DOMAIN <<e>> = {1} /\ <<e>>[1] = e
  OBVIOUS
<1> QED BY <1>1 DEF ToSet, IsInjective

\* Taking one more row keeps the caches within their limits.
LEMMA TakenFits ==
  ASSUME NEW rows, NEW acc, NEW i \in Nat, i < MaxMemories, Fitting(rows, acc, i)
  PROVE  Fitting(rows, Taken(rows, acc, MaxMemories - i), i + 1)
<1> DEFINE m == MaxMemories - i
           s == SessionOf[m]
           new == Taken(rows, acc, m)
<1>1. m \in Ids /\ m \in Nat /\ s \in Sessions /\ MaxMemories - (i + 1) < m
      /\ \A e \in Ids : e > m => e > MaxMemories - (i + 1) /\ e # m
  BY MemoryAssumption DEF Ids, Sessions
<1>2. /\ acc \in Accs /\ IsInjective(acc.lru) /\ Len(acc.lru) <= MaxSessions
      /\ \A r \in Sessions : /\ IsInjective(acc.imm[r]) /\ Len(acc.imm[r]) <= MaxSize
                             /\ ToSet(acc.imm[r]) # {} <=> r \in ToSet(acc.lru)
                             /\ \A e \in ToSet(acc.imm[r]) :
                                  SessionOf[e] = r /\ rows[e] = "immediate" /\ e > m
  BY DEF Fitting
<1> HIDE DEF m
<1>3. /\ acc.imm \in [Sessions -> Seq(Ids)] /\ acc.lru \in Seq(Sessions)
      /\ \A r \in Sessions : acc.imm[r] \in Seq(Ids) /\ ToSet(acc.imm[r]) \subseteq Ids
  <2>1. acc.imm \in [Sessions -> Seq(Ids)] /\ acc.lru \in Seq(Sessions)
    BY <1>2 DEF Accs
  <2> QED BY <2>1, MembersUpTo
<1>4. MaxSessions \in Nat \ {0} /\ MaxSize \in Nat \ {0}
  BY MemoryAssumption
<1>5. CASE new.imm = acc.imm /\ new.lru = acc.lru /\ new \in Accs
  <2>1. \A r \in Sessions : \A e \in ToSet(new.imm[r]) : e > MaxMemories - (i + 1)
    BY <1>1, <1>2, <1>3, <1>5
  <2> HIDE DEF new
  <2> QED BY <1>2, <1>5, <2>1 DEF Fitting, m, new
<1>6. CASE /\ ~acc.full /\ rows[m] = "immediate" /\ s \notin ToSet(acc.lru)
           /\ ~(Len(acc.lru) >= MaxSessions)
  <2>1. new = [acc EXCEPT !.lru = Append(@, s), !.imm[s] = <<m>>]
    BY <1>6 DEF Taken
  <2>2. /\ Append(acc.lru, s) \in Seq(Sessions) /\ IsInjective(Append(acc.lru, s))
        /\ ToSet(Append(acc.lru, s)) = ToSet(acc.lru) \cup {s}
        /\ Len(Append(acc.lru, s)) = Len(acc.lru) + 1 /\ Len(acc.lru) \in Nat
    BY <1>1, <1>2, <1>3, <1>6, AppendMembers, AppendProperties, LenProperties
  <2>3. /\ <<m>> \in Seq(Ids) /\ ToSet(<<m>>) = {m} /\ IsInjective(<<m>>) /\ Len(<<m>>) = 1
    BY <1>1, OneIs
  <2>4. /\ new \in Accs /\ new.lru = Append(acc.lru, s) /\ new.imm[s] = <<m>>
        /\ \A r \in Sessions \ {s} : new.imm[r] = acc.imm[r]
    <3> HIDE DEF s, m, new
    <3> QED BY <1>1, <1>2, <2>1, <2>2, <2>3 DEF Accs
  <2> HIDE DEF new
  <2>5. ASSUME NEW r \in Sessions
        PROVE  /\ IsInjective(new.imm[r]) /\ Len(new.imm[r]) <= MaxSize
               /\ ToSet(new.imm[r]) # {} <=> r \in ToSet(new.lru)
               /\ \A e \in ToSet(new.imm[r]) :
                    SessionOf[e] = r /\ rows[e] = "immediate" /\ e > MaxMemories - (i + 1)
    <3>1. CASE r = s
      <4>1. IsInjective(new.imm[r]) /\ Len(new.imm[r]) <= MaxSize /\ ToSet(new.imm[r]) = {m}
        <5>1. new.imm[r] = <<m>>
          BY <2>4, <3>1
        <5>2. 1 <= MaxSize
          BY <1>4
        <5> QED BY <2>3, <5>1, <5>2
      <4>2. r \in ToSet(new.lru)
        BY <2>2, <2>4, <3>1
      <4>3. SessionOf[m] = r /\ rows[m] = "immediate" /\ m > MaxMemories - (i + 1)
        BY <1>1, <1>6, <3>1
      <4> QED BY <4>1, <4>2, <4>3
    <3>2. CASE r # s
      BY <1>1, <1>2, <1>3, <2>2, <2>4, <3>2
    <3> QED BY <3>1, <3>2
  <2>6. IsInjective(new.lru) /\ Len(new.lru) <= MaxSessions
    BY <1>2, <1>4, <1>6, <2>2, <2>4
  <2> QED BY <2>4, <2>5, <2>6 DEF Fitting, new, m
<1>7. CASE /\ ~acc.full /\ rows[m] = "immediate" /\ s \in ToSet(acc.lru)
           /\ ~(Len(acc.imm[s]) >= MaxSize)
  <2>1. new = [acc EXCEPT !.imm[s] = Append(@, m)]
    BY <1>7 DEF Taken
  <2>2. m \notin ToSet(acc.imm[s])
    BY <1>1, <1>2
  <2>3. /\ Append(acc.imm[s], m) \in Seq(Ids) /\ IsInjective(Append(acc.imm[s], m))
        /\ ToSet(Append(acc.imm[s], m)) = ToSet(acc.imm[s]) \cup {m}
        /\ Len(Append(acc.imm[s], m)) = Len(acc.imm[s]) + 1 /\ Len(acc.imm[s]) \in Nat
    BY <1>1, <1>2, <1>3, <2>2, AppendMembers, AppendProperties, LenProperties
  <2>4. /\ new \in Accs /\ new.lru = acc.lru /\ new.imm[s] = Append(acc.imm[s], m)
        /\ \A r \in Sessions \ {s} : new.imm[r] = acc.imm[r]
    <3> HIDE DEF s, m, new
    <3> QED BY <1>1, <1>2, <2>1, <2>3 DEF Accs
  <2> HIDE DEF new
  <2>5. ASSUME NEW r \in Sessions
        PROVE  /\ IsInjective(new.imm[r]) /\ Len(new.imm[r]) <= MaxSize
               /\ ToSet(new.imm[r]) # {} <=> r \in ToSet(new.lru)
               /\ \A e \in ToSet(new.imm[r]) :
                    SessionOf[e] = r /\ rows[e] = "immediate" /\ e > MaxMemories - (i + 1)
    <3>1. CASE r = s
      <4>1. /\ IsInjective(new.imm[r]) /\ Len(new.imm[r]) <= MaxSize
            /\ ToSet(new.imm[r]) = ToSet(acc.imm[s]) \cup {m}
        <5>1. new.imm[r] = Append(acc.imm[s], m)
          BY <2>4, <3>1
        <5>2. Len(acc.imm[s]) + 1 <= MaxSize
          BY <1>4, <1>7, <2>3
        <5> QED BY <2>3, <5>1, <5>2
      <4>2. r \in ToSet(new.lru)
        BY <1>7, <2>4, <3>1
      <4>3. SessionOf[m] = r /\ rows[m] = "immediate" /\ m > MaxMemories - (i + 1)
        BY <1>1, <1>7, <3>1
      <4>4. \A e \in ToSet(acc.imm[s]) :
              SessionOf[e] = s /\ rows[e] = "immediate" /\ e > MaxMemories - (i + 1)
        BY <1>1, <1>2, <1>3
      <4> QED BY <3>1, <4>1, <4>2, <4>3, <4>4
    <3>2. CASE r # s
      BY <1>1, <1>2, <1>3, <2>4, <3>2
    <3> QED BY <3>1, <3>2
  <2> QED BY <1>2, <2>4, <2>5 DEF Fitting, new, m
<1>8. \/ new = acc
      \/ new = [acc EXCEPT !.full = TRUE]
      \/ ~acc.full /\ rows[m] = "immediate" /\ s \notin ToSet(acc.lru) /\ ~(Len(acc.lru) >= MaxSessions)
      \/ ~acc.full /\ rows[m] = "immediate" /\ s \in ToSet(acc.lru) /\ ~(Len(acc.imm[s]) >= MaxSize)
  BY DEF Taken
<1>9. new = acc \/ new = [acc EXCEPT !.full = TRUE]
        => new.imm = acc.imm /\ new.lru = acc.lru /\ new \in Accs
  <2> HIDE DEF new
  <2> QED BY <1>2 DEF Accs
<1> QED BY <1>5, <1>6, <1>7, <1>8, <1>9

\* What load_from_storage loads is within the limits, and has a row each.
LEMMA LoadFits ==
  ASSUME NEW rows PROVE Fitting(rows, Load(rows), MaxMemories)
<1>1. PICK g : /\ \A i \in 0..MaxMemories : g[i] = LoadStep(rows, g, i)
               /\ Load(rows) = g[MaxMemories]
  BY LoadSteps
<1>2. MaxMemories \in Nat
  BY MemoryAssumption
<1> DEFINE Bad == {i \in 0..MaxMemories : ~Fitting(rows, g[i], i)}
<1>3. Bad = {}
  <2> SUFFICES ASSUME Bad # {} PROVE FALSE
    OBVIOUS
  <2>1. PICK i \in Bad : \A k \in Bad : i <= k
    <3>1. Bad \in SUBSET Nat
      BY <1>2
    <3> HIDE DEF Bad
    <3> QED BY <3>1, LeastOf
  <2>2. CASE i = 0
    BY <1>1, <2>1, <2>2, NothingFits DEF LoadStep
  <2>3. CASE i # 0
    <3>1. i - 1 \in Nat /\ i - 1 \in 0..MaxMemories /\ i - 1 < MaxMemories /\ ~(i <= i - 1)
          /\ MaxMemories - (i - 1) = MaxMemories + 1 - i /\ i - 1 + 1 = i
      BY <1>2, <2>1, <2>3
    <3>2. Fitting(rows, g[i - 1], i - 1)
      BY <2>1, <3>1
    <3>3. Fitting(rows, Taken(rows, g[i - 1], MaxMemories - (i - 1)), i - 1 + 1)
      BY <3>1, <3>2, TakenFits
    <3>4. g[i] = Taken(rows, g[i - 1], MaxMemories + 1 - i)
      BY <1>1, <2>1, <2>3 DEF LoadStep
    <3> QED BY <2>1, <3>1, <3>3, <3>4
  <2> QED BY <2>2, <2>3
<1> QED BY <1>1, <1>2, <1>3

\* A restart caches rows of the tier of each cache only, and every short-term row not expired.
LEMMA RestartCaches ==
  ASSUME Typed, Restart
  PROVE  /\ CachesTyped' /\ Shaped'
         /\ \A m : m \in InImm' => m \in Ids /\ row[m] = "immediate"
         /\ \A m : m \in InSt' <=> m \in Ids /\ row[m] = "short_term" /\ m \notin old
         /\ \A s \in Sessions : Len(imm'[s]) <= MaxSize
<1> DEFINE short == {m \in Ids : row[m] = "short_term" /\ m \notin old}
<1>1. /\ imm' = Load(row).imm /\ lru' = Load(row).lru
      /\ st' = [s \in {SessionOf[m] : m \in short} |-> {m \in short : SessionOf[m] = s}]
  BY DEF Restart
<1>2. /\ Load(row) \in Accs
      /\ IsInjective(lru') /\ Len(lru') <= MaxSessions
      /\ \A s \in Sessions : /\ IsInjective(imm'[s]) /\ Len(imm'[s]) <= MaxSize
                             /\ ToSet(imm'[s]) # {} <=> s \in ToSet(lru')
                             /\ \A m \in ToSet(imm'[s]) : SessionOf[m] = s /\ row[m] = "immediate"
  BY <1>1, LoadFits DEF Fitting
<1>3. imm' \in [Sessions -> Seq(Ids)] /\ lru' \in Seq(Sessions)
  BY <1>1, <1>2 DEF Accs
<1>4. DOMAIN st' \subseteq Sessions /\ \A s \in DOMAIN st' : st'[s] \subseteq Ids
  BY <1>1 DEF Sessions
<1>5. CachesTyped'
  BY <1>3, <1>4 DEF CachesTyped
<1>6. \A s \in Sessions : ToSet(imm'[s]) \subseteq Ids /\ (imm'[s] # <<>> => ToSet(imm'[s]) # {})
  BY <1>3, MembersUpTo, NoMembers
<1>7. Shaped'
  BY <1>1, <1>2, <1>6 DEF Shaped
<1>8. \A m : m \in InImm' => m \in Ids /\ row[m] = "immediate"
  BY <1>2, <1>6 DEF InImm
<1>9. \A m : m \in InSt' <=> m \in short
  <2>1. \A s \in DOMAIN st' : st'[s] \subseteq short
    BY <1>1
  <2>2. \A m \in short : SessionOf[m] \in DOMAIN st' /\ m \in st'[SessionOf[m]]
    BY <1>1
  <2> HIDE DEF short
  <2> QED BY <2>1, <2>2 DEF InSt
<1> QED BY <1>2, <1>5, <1>7, <1>8, <1>9

\* What fits into the caches once fits again.
LEMMA TakenKeeps ==
  ASSUME NEW rows, NEW acc, NEW i \in Nat, i < MaxMemories, Fitting(rows, acc, i), ~acc.full,
         NEW f \in [Sessions -> Seq(Ids)], NEW l \in Seq(Sessions), IsInjective(l), Len(l) <= MaxSessions,
         \A s \in Sessions : IsInjective(f[s]) /\ Len(f[s]) <= MaxSize,
         \A e \in Ids : rows[e] = "immediate" => e \in ToSet(f[SessionOf[e]]) /\ SessionOf[e] \in ToSet(l)
  PROVE  LET new == Taken(rows, acc, MaxMemories - i)
         IN  /\ ~new.full
             /\ \A s \in Sessions : ToSet(acc.imm[s]) \subseteq ToSet(new.imm[s])
             /\ rows[MaxMemories - i] = "immediate"
                  => MaxMemories - i \in ToSet(new.imm[SessionOf[MaxMemories - i]])
<1> DEFINE m == MaxMemories - i
           s == SessionOf[m]
           new == Taken(rows, acc, m)
<1>1. m \in Ids /\ s \in Sessions
  BY MemoryAssumption DEF Ids, Sessions
<1>2. /\ acc \in Accs /\ IsInjective(acc.lru)
      /\ \A r \in Sessions : /\ IsInjective(acc.imm[r])
                             /\ ToSet(acc.imm[r]) # {} <=> r \in ToSet(acc.lru)
                             /\ \A e \in ToSet(acc.imm[r]) :
                                  SessionOf[e] = r /\ rows[e] = "immediate" /\ e > m
  BY DEF Fitting
<1>3. m \in Nat /\ ~(m > m)
  BY <1>1 DEF Ids
<1> HIDE DEF m
<1>4. /\ acc.imm \in [Sessions -> Seq(Ids)] /\ acc.lru \in Seq(Sessions) /\ ToSet(acc.lru) \subseteq Sessions
      /\ \A r \in Sessions : acc.imm[r] \in Seq(Ids) /\ ToSet(acc.imm[r]) \subseteq Ids
  <2>1. acc.imm \in [Sessions -> Seq(Ids)] /\ acc.lru \in Seq(Sessions)
    BY <1>2 DEF Accs
  <2> QED BY <2>1, MembersUpTo
<1>5. CASE rows[m] # "immediate"
  <2>1. new = acc
    BY <1>5 DEF Taken
  <2> QED BY <1>5, <2>1 DEF m
<1>6. CASE rows[m] = "immediate" /\ s \notin ToSet(acc.lru)
  <2>1. ToSet(acc.lru) \cup {s} \subseteq ToSet(l)
    <3>1. ASSUME NEW r \in ToSet(acc.lru) PROVE r \in ToSet(l)
      <4>1. PICK e \in ToSet(acc.imm[r]) : TRUE
        BY <1>2, <1>4
      <4>2. e \in Ids /\ SessionOf[e] = r /\ rows[e] = "immediate"
        BY <1>2, <1>4
      <4> QED BY <4>2
    <3> QED BY <1>1, <1>6, <3>1
  <2>2. Len(acc.lru) + 1 <= Len(l)
    <3>1. /\ Len(acc.lru) \in Nat /\ IsFiniteSet(ToSet(acc.lru)) /\ Cardinality(ToSet(acc.lru)) = Len(acc.lru)
          /\ Len(l) \in Nat /\ IsFiniteSet(ToSet(l)) /\ Cardinality(ToSet(l)) = Len(l)
      BY <1>2, <1>4, LengthIs
    <3>2. Cardinality(ToSet(acc.lru) \cup {s}) = Len(acc.lru) + 1
      BY <1>6, <3>1, FS_AddElement
    <3> QED BY <2>1, <3>1, <3>2, FS_Subset
  <2>3. ~(Len(acc.lru) >= MaxSessions)
    BY <1>2, <1>4, <2>2, LengthIs, MemoryAssumption
  <2>4. new = [acc EXCEPT !.lru = Append(@, s), !.imm[s] = <<m>>]
    BY <1>6, <2>3 DEF Taken
  <2>5. ToSet(acc.imm[s]) = {} /\ ToSet(<<m>>) = {m}
    BY <1>1, <1>2, <1>6, OneIs
  <2>6. /\ new.full = acc.full /\ new.imm[s] = <<m>>
        /\ \A r \in Sessions \ {s} : new.imm[r] = acc.imm[r]
    <3> HIDE DEF s, new
    <3> QED BY <1>1, <1>2, <2>4 DEF Accs
  <2> HIDE DEF new
  <2>7. \A r \in Sessions : ToSet(acc.imm[r]) \subseteq ToSet(new.imm[r])
    BY <2>5, <2>6
  <2>8. m \in ToSet(new.imm[s])
    BY <2>5, <2>6
  <2> QED BY <2>6, <2>7, <2>8 DEF m, new
<1>7. CASE rows[m] = "immediate" /\ s \in ToSet(acc.lru)
  <2>1. ToSet(acc.imm[s]) \cup {m} \subseteq ToSet(f[s])
    BY <1>1, <1>2, <1>4, <1>7
  <2>2. Len(acc.imm[s]) + 1 <= Len(f[s])
    <3>1. /\ Len(acc.imm[s]) \in Nat /\ IsFiniteSet(ToSet(acc.imm[s]))
          /\ Cardinality(ToSet(acc.imm[s])) = Len(acc.imm[s])
          /\ Len(f[s]) \in Nat /\ IsFiniteSet(ToSet(f[s])) /\ Cardinality(ToSet(f[s])) = Len(f[s])
      BY <1>1, <1>2, <1>4, LengthIs
    <3>2. m \notin ToSet(acc.imm[s])
      BY <1>1, <1>2, <1>3
    <3>3. Cardinality(ToSet(acc.imm[s]) \cup {m}) = Len(acc.imm[s]) + 1
      BY <3>1, <3>2, FS_AddElement
    <3> QED BY <2>1, <3>1, <3>3, FS_Subset
  <2>3. Len(acc.imm[s]) \in Nat /\ Len(f[s]) \in Nat /\ Len(f[s]) <= MaxSize /\ MaxSize \in Nat
    BY <1>1, <1>2, <1>4, LengthIs, MemoryAssumption
  <2>4. ~(Len(acc.imm[s]) >= MaxSize)
    BY <2>2, <2>3
  <2>5. new = [acc EXCEPT !.imm[s] = Append(@, m)]
    BY <1>7, <2>4 DEF Taken
  <2>6. ToSet(Append(acc.imm[s], m)) = ToSet(acc.imm[s]) \cup {m}
    BY <1>1, <1>4, AppendMembers
  <2>7. /\ new.full = acc.full /\ new.imm[s] = Append(acc.imm[s], m)
        /\ \A r \in Sessions \ {s} : new.imm[r] = acc.imm[r]
    <3> HIDE DEF s, new
    <3> QED BY <1>1, <1>2, <2>5 DEF Accs
  <2> HIDE DEF new
  <2>8. \A r \in Sessions : ToSet(acc.imm[r]) \subseteq ToSet(new.imm[r])
    BY <2>6, <2>7
  <2>9. m \in ToSet(new.imm[s])
    BY <2>6, <2>7
  <2> QED BY <2>7, <2>8, <2>9 DEF m, new
<1> QED BY <1>5, <1>6, <1>7

\* If caches within the limits can hold every immediate row, loading drops none of them.
LEMMA LoadKeeps ==
  ASSUME NEW rows,
         NEW f \in [Sessions -> Seq(Ids)], NEW l \in Seq(Sessions), IsInjective(l), Len(l) <= MaxSessions,
         \A s \in Sessions : IsInjective(f[s]) /\ Len(f[s]) <= MaxSize,
         \A e \in Ids : rows[e] = "immediate" => e \in ToSet(f[SessionOf[e]]) /\ SessionOf[e] \in ToSet(l)
  PROVE  \A e \in Ids : rows[e] = "immediate" => e \in ToSet(Load(rows).imm[SessionOf[e]])
<1>1. PICK g : /\ \A i \in 0..MaxMemories : g[i] = LoadStep(rows, g, i)
               /\ Load(rows) = g[MaxMemories]
  BY LoadSteps
<1>2. MaxMemories \in Nat
  BY MemoryAssumption
<1> DEFINE Kept_(i) == /\ Fitting(rows, g[i], i) /\ ~g[i].full
                       /\ \A e \in Ids : e > MaxMemories - i /\ rows[e] = "immediate"
                                           => e \in ToSet(g[i].imm[SessionOf[e]])
           Bad == {i \in 0..MaxMemories : ~Kept_(i)}
<1>3. Bad = {}
  <2> SUFFICES ASSUME Bad # {} PROVE FALSE
    OBVIOUS
  <2>1. PICK i \in Bad : \A k \in Bad : i <= k
    <3>1. Bad \in SUBSET Nat
      BY <1>2
    <3> HIDE DEF Bad
    <3> QED BY <3>1, LeastOf
  <2>2. CASE i = 0
    <3>1. g[0] = Nothing
      BY <1>1, <1>2 DEF LoadStep
    <3>2. ~Nothing.full /\ MaxMemories - 0 = MaxMemories /\ \A e \in Ids : ~(e > MaxMemories)
      BY <1>2 DEF Nothing, Ids
    <3> QED BY <2>1, <2>2, <3>1, <3>2, NothingFits
  <2>3. CASE i # 0
    <3> DEFINE j == i - 1
               m == MaxMemories - j
    <3>1. j \in Nat /\ j \in 0..MaxMemories /\ j < MaxMemories /\ ~(i <= j)
          /\ m = MaxMemories + 1 - i /\ j + 1 = i /\ MaxMemories - j = m
          /\ \A e \in Ids : e > MaxMemories - i => e > m \/ e = m
      BY <1>2, <2>1, <2>3 DEF Ids
    <3>2. Kept_(j)
      BY <2>1, <3>1
    <3>3. g[i] = Taken(rows, g[j], m)
      BY <1>1, <2>1, <2>3, <3>1 DEF LoadStep
    <3>4. Fitting(rows, g[i], i)
      BY <3>1, <3>2, <3>3, TakenFits
    <3>5. /\ ~g[i].full
          /\ \A s \in Sessions : ToSet(g[j].imm[s]) \subseteq ToSet(g[i].imm[s])
          /\ rows[m] = "immediate" => m \in ToSet(g[i].imm[SessionOf[m]])
      BY <3>1, <3>2, <3>3, TakenKeeps
    <3> HIDE DEF j, m
    <3>6. \A e \in Ids : SessionOf[e] \in Sessions
      BY DEF Sessions
    <3>7. ASSUME NEW e \in Ids, e > MaxMemories - i, rows[e] = "immediate"
          PROVE  e \in ToSet(g[i].imm[SessionOf[e]])
      <4>1. CASE e = m
        BY <3>5, <3>7, <4>1
      <4>2. CASE e > m
        <5>1. e \in ToSet(g[j].imm[SessionOf[e]])
          BY <3>1, <3>2, <3>7, <4>2
        <5> QED BY <3>5, <3>6, <5>1
      <4> QED BY <3>1, <3>7, <4>1, <4>2
    <3>8. Kept_(i)
      BY <3>4, <3>5, <3>7
    <3> QED BY <2>1, <3>8
  <2> QED BY <2>2, <2>3
<1>4. Kept_(MaxMemories)
  BY <1>2, <1>3
<1>5. \A e \in Ids : e > MaxMemories - MaxMemories
  BY <1>2 DEF Ids
<1> QED BY <1>1, <1>4, <1>5

-----------------------------------------------------------------------------
(* What each action does to its handler.                                   *)

\* The tiers, and the number that stands for no memory.
LEMMA NamesIs ==
  /\ {"immediate", "short_term", "long_term"} = Tiers
  /\ Tiers \subseteq Tiers \cup {"none", "decay"}
  /\ 0 \in 0..MaxMemories /\ Ids \subseteq 0..MaxMemories /\ 0 \notin Ids
BY MemoryAssumption DEF Tiers, Ids

\* Start takes a handler at rest to its first await.
LEMMA StartIs ==
  ASSUME Typed, NEW h \in Handlers, NEW pc \in Pcs, NEW m \in 0..MaxMemories,
         NEW t \in Tiers \cup {"none", "decay"}, NEW ids \in SUBSET Ids, Start(h, pc, m, t, ids)
  PROVE  /\ op[h] = Idle
         /\ op' \in [Handlers -> Ops]
         /\ op'[h].pc = pc /\ op'[h].m = m /\ op'[h].tier = t /\ op'[h].ids = ids
         /\ op'[h].alone => \A k \in Handlers \ {h} : ~Holds(k, m)
         /\ Others(h)
         /\ \A g \in Handlers \ {h} : op'[g].alone => op[g].m \notin (ids \cup {m}) \ {0}
<1>1. op[h] = Idle /\ Go(h, pc, m, t, ids)
  BY DEF Start
<1> QED BY <1>1, GoIs DEF Typed

\* A memory that has been stored: its handler goes on to look at the searchers.
LEMMA GoLook ==
  ASSUME Typed, NEW h \in Handlers, NEW m \in Ids, NEW t \in Tiers, Go(h, "look", m, t, {})
  PROVE  /\ op' \in [Handlers -> Ops]
         /\ op'[h].pc = "look" /\ op'[h].m = m /\ op'[h].tier = t /\ op'[h].ids = {}
         /\ op'[h].alone => \A k \in Handlers \ {h} : ~Holds(k, m)
         /\ Others(h)
         /\ \A g \in Handlers \ {h} : op'[g].alone => op[g].m # m
         /\ \A searchers : Kind(op'[h], searchers)
<1>1. "look" \in Pcs /\ m \in 0..MaxMemories /\ t \in Tiers \cup {"none", "decay"} /\ m # 0
      /\ {} \in SUBSET Ids
  BY NamesIs DEF Pcs
<1>2. /\ op' \in [Handlers -> Ops]
      /\ op'[h].pc = "look" /\ op'[h].m = m /\ op'[h].tier = t /\ op'[h].ids = {}
      /\ op'[h].alone => \A k \in Handlers \ {h} : ~Holds(k, m)
      /\ Others(h)
      /\ \A g \in Handlers \ {h} : op'[g].alone => op[g].m \notin ({} \cup {m}) \ {0}
  BY <1>1, GoIs DEF Typed
<1> QED BY <1>1, <1>2 DEF Kind, OnMemory

\* A handler at rest has all it needs.
LEMMA KindIdle ==
  ASSUME NEW searchers PROVE Kind(Idle, searchers)
BY IdleIs DEF Kind, OnMemory

\* One handler goes on; the searchers stay.
LEMMA KindedTurn ==
  ASSUME Typed, NEW h \in Handlers, Others(h), Kind(op'[h], built'), built \subseteq built'
  PROVE  Kinded'
<1> SUFFICES ASSUME NEW g \in Handlers PROVE Kind(op'[g], built')
  BY DEF Kinded
<1>1. CASE g = h
  BY <1>1
<1>2. CASE g # h
  <2>1. op[g] \in Ops /\ op'[g] \in Ops /\ Waits(g) /\ Kind(op[g], built)
    BY <1>2, OpIs DEF Others
  <2> QED BY <2>1, IdleIs DEF Waits, Kind
<1> QED BY <1>1, <1>2

\* What forget does to its handler once the row is deleted.
LEMMA ForgetRowOp ==
  ASSUME Typed, NEW h \in Handlers, ForgetRow(h)
  PROVE  /\ op' \in [Handlers -> Ops] /\ Others(h)
         /\ op[h].pc \in {"forget", "forgot"} /\ op[h].m \in Ids
         /\ \/ /\ op'[h].pc = "unindex" /\ op'[h].m = op[h].m /\ op'[h].tier = op[h].tier
               /\ op'[h].ids = op[h].ids /\ op'[h].alone = op[h].alone
            \/ op'[h] = Back(h)
         /\ Kind(op'[h], built)
<1>1. op[h].pc \in {"forget", "forgot"} /\ op[h] \in Ops /\ op[h].m \in Ids /\ Kind(op[h], built)
  BY OpIs DEF ForgetRow, OnMemory
<1> DEFINE o == [op[h] EXCEPT !.pc = "unindex"]
<1>2. /\ o \in Ops /\ o.pc = "unindex" /\ o.m = op[h].m /\ o.tier = op[h].tier
      /\ o.ids = op[h].ids /\ o.alone = op[h].alone
  BY <1>1 DEF Ops, Pcs
<1>3. op' = [op EXCEPT ![h] = o] \/ op' = [op EXCEPT ![h] = Back(h)]
  BY DEF ForgetRow
<1> HIDE DEF o
<1>4. Kind(o, built) /\ Kind(Back(h), built) /\ Back(h) \in Ops
  BY <1>1, <1>2, BackIs, KindIdle, NamesIs DEF Typed, Kind, OnMemory
<1>5. CASE op' = [op EXCEPT ![h] = o]
  <2>1. op' \in [Handlers -> Ops] /\ op'[h] = o /\ Others(h)
    BY <1>2, <1>5, TurnIs DEF Typed
  <2> QED BY <1>1, <1>2, <1>4, <2>1
<1>6. CASE op' = [op EXCEPT ![h] = Back(h)]
  <2>1. op' \in [Handlers -> Ops] /\ op'[h] = Back(h) /\ Others(h)
    BY <1>4, <1>6, TurnIs DEF Typed
  <2> QED BY <1>1, <1>4, <2>1
<1> QED BY <1>3, <1>5, <1>6

\* What forget does to its handler once the searcher is told.
LEMMA ForgetIndexOp ==
  ASSUME Typed, NEW h \in Handlers, ForgetIndex(h)
  PROVE  /\ op' \in [Handlers -> Ops] /\ Others(h)
         /\ op[h].pc = "unindex" /\ op[h].m \in Ids
         /\ op'[h] = Back(h) /\ Kind(op'[h], built)
<1>1. op[h].pc = "unindex" /\ op[h].m \in Ids /\ Kind(op[h], built) /\ op' = [op EXCEPT ![h] = Back(h)]
  BY OpIs DEF ForgetIndex, OnMemory
<1>2. Back(h) \in Ops /\ Kind(Back(h), built)
  BY <1>1, BackIs, KindIdle, NamesIs DEF Typed, Kind, OnMemory
<1> QED BY <1>1, <1>2, TurnIs DEF Typed

\* What the decay does to its handler when it saves a memory.
LEMMA DecaySaveOp ==
  ASSUME Typed, NEW h \in Handlers, DecaySave(h)
  PROVE  \E m \in op[h].ids :
           /\ m \in Ids /\ SavedAgain(m) /\ op[h].pc = "decay"
           /\ op' \in [Handlers -> Ops] /\ Others(h)
           /\ op'[h].pc = "decay" /\ op'[h].m = op[h].m /\ op'[h].tier = op[h].tier
           /\ op'[h].ids = op[h].ids \ {m} /\ op'[h].alone = op[h].alone
           /\ Kind(op'[h], built)
<1>1. op[h].pc = "decay" /\ op[h] \in Ops /\ op[h].ids \subseteq Ids /\ Kind(op[h], built)
  BY OpIs DEF DecaySave
<1>2. PICK m \in op[h].ids : SavedAgain(m) /\ op' = [op EXCEPT ![h].ids = @ \ {m}]
  BY DEF DecaySave
<1> DEFINE o == [op[h] EXCEPT !.ids = op[h].ids \ {m}]
<1>3. /\ o \in Ops /\ o.pc = "decay" /\ o.m = op[h].m /\ o.tier = op[h].tier
      /\ o.ids = op[h].ids \ {m} /\ o.alone = op[h].alone
  BY <1>1 DEF Ops
<1>4. op' = [op EXCEPT ![h] = o]
  BY <1>2
<1> HIDE DEF o
<1>5. Kind(o, built)
  BY <1>1, <1>3, NamesIs DEF Kind, OnMemory
<1>6. op' \in [Handlers -> Ops] /\ op'[h] = o /\ Others(h)
  BY <1>3, <1>4, TurnIs DEF Typed
<1> QED BY <1>1, <1>2, <1>3, <1>5, <1>6

\* What the decay does to its handler when it forgets a memory.
LEMMA DecayForgetOp ==
  ASSUME Typed, NEW h \in Handlers, DecayForget(h)
  PROVE  \E m \in op[h].ids :
           /\ m \in Ids /\ ForgetCached(m) /\ op[h].pc = "decay" /\ op[h].tier = "decay"
           /\ op' \in [Handlers -> Ops] /\ Others(h)
           /\ op'[h].pc = (IF m \in InImm \cup InSt THEN "forgot" ELSE "forget")
           /\ op'[h].m = m /\ op'[h].tier = "decay" /\ op'[h].ids = op[h].ids \ {m}
           /\ op'[h].alone => \A k \in Handlers \ {h} : ~Holds(k, m)
           /\ Kind(op'[h], built)
<1>1. op[h].pc = "decay" /\ op[h] \in Ops /\ op[h].ids \subseteq Ids /\ op[h].tier = "decay"
  BY OpIs DEF DecayForget, Kind
<1>2. PICK m \in op[h].ids :
        /\ ForgetCached(m)
        /\ op' = [op EXCEPT ![h] = [pc |-> IF Cached(m) THEN "forgot" ELSE "forget", m |-> m,
                                    tier |-> "decay", ids |-> @.ids \ {m},
                                    alone |-> \A k \in Handlers \ {h} : ~Holds(k, m)]]
  BY DEF DecayForget
<1> DEFINE o == [pc |-> IF Cached(m) THEN "forgot" ELSE "forget", m |-> m,
                 tier |-> "decay", ids |-> op[h].ids \ {m},
                 alone |-> \A k \in Handlers \ {h} : ~Holds(k, m)]
<1>3. /\ o.pc = (IF m \in InImm \cup InSt THEN "forgot" ELSE "forget")
      /\ o.m = m /\ o.tier = "decay" /\ o.ids = op[h].ids \ {m}
  BY DEF Cached
<1>4. (o.alone => \A k \in Handlers \ {h} : ~Holds(k, m)) /\ o.alone \in BOOLEAN
  BY Zenon
<1>5. o \in Ops
  BY <1>1, <1>3, <1>4, NamesIs DEF Ops, Pcs, Cached
<1>6. op' = [op EXCEPT ![h] = o]
  BY <1>2
<1> HIDE DEF o
<1>7. Kind(o, built)
  BY <1>1, <1>3, NamesIs DEF Kind, OnMemory
<1>8. op' \in [Handlers -> Ops] /\ op'[h] = o /\ Others(h)
  BY <1>5, <1>6, TurnIs DEF Typed
<1> QED BY <1>1, <1>2, <1>3, <1>4, <1>7, <1>8

\* What a rollback does to its handler between its two saves.
LEMMA RollbackKeptOp ==
  ASSUME Typed, NEW h \in Handlers, RollbackKept(h)
  PROVE  /\ op[h].pc = "rollback" /\ op[h].m \in Ids /\ op[h].tier = "long_term"
         /\ op' \in [Handlers -> Ops] /\ Others(h)
         /\ op'[h].pc = "rebuild" /\ op'[h].m = op[h].m /\ op'[h].tier = op[h].tier
         /\ op'[h].ids = op[h].ids /\ op'[h].alone = op[h].alone
         /\ Kind(op'[h], built)
<1>1. op[h].pc = "rollback" /\ op[h] \in Ops /\ Kind(op[h], built) /\ op[h].m \in Ids
  BY OpIs DEF RollbackKept, OnMemory
<1> DEFINE o == [op[h] EXCEPT !.pc = "rebuild"]
<1>2. /\ o \in Ops /\ o.pc = "rebuild" /\ o.m = op[h].m /\ o.tier = op[h].tier
      /\ o.ids = op[h].ids /\ o.alone = op[h].alone
  BY <1>1 DEF Ops, Pcs
<1>3. op' = [op EXCEPT ![h] = o]
  BY DEF RollbackKept
<1> HIDE DEF o
<1>4. Kind(o, built) /\ op[h].tier = "long_term"
  BY <1>1, <1>2, NamesIs DEF Kind, OnMemory
<1>5. op' \in [Handlers -> Ops] /\ op'[h] = o /\ Others(h)
  BY <1>2, <1>3, TurnIs DEF Typed
<1> QED BY <1>1, <1>2, <1>4, <1>5

\* What the look at the searchers does to its handler.
LEMMA LookOp ==
  ASSUME Typed, NEW h \in Handlers, Look(h)
  PROVE  /\ op[h].pc = "look" /\ op[h].m \in Ids /\ op[h].tier \in Tiers
         /\ op' \in [Handlers -> Ops] /\ Others(h)
         /\ IF op[h].tier \in built
            THEN /\ op'[h].pc = "index" /\ op'[h].m = op[h].m /\ op'[h].tier = op[h].tier
                 /\ op'[h].ids = op[h].ids /\ op'[h].alone = op[h].alone
            ELSE op'[h] = Idle
         /\ Kind(op'[h], built)
<1>1. op[h].pc = "look" /\ op[h] \in Ops /\ op[h].m \in Ids /\ Kind(op[h], built) /\ op[h].tier \in Tiers
  BY OpIs DEF Look, OnMemory, Kind
<1>2. CASE op[h].tier \in built
  <2> DEFINE o == [op[h] EXCEPT !.pc = "index"]
  <2>1. /\ o \in Ops /\ o.pc = "index" /\ o.m = op[h].m /\ o.tier = op[h].tier
        /\ o.ids = op[h].ids /\ o.alone = op[h].alone
    BY <1>1 DEF Ops, Pcs
  <2>2. op' = [op EXCEPT ![h] = o]
    BY <1>2 DEF Look
  <2> HIDE DEF o
  <2>3. Kind(o, built)
    BY <1>1, <1>2, <2>1, NamesIs DEF Kind, OnMemory
  <2>4. op' \in [Handlers -> Ops] /\ op'[h] = o /\ Others(h)
    BY <2>1, <2>2, TurnIs DEF Typed
  <2> QED BY <1>1, <1>2, <2>1, <2>3, <2>4
<1>3. CASE op[h].tier \notin built
  <2>1. Done(h)
    BY <1>3 DEF Look
  <2>2. op' \in [Handlers -> Ops] /\ op'[h] = Idle /\ Others(h)
    BY <2>1, DoneIs DEF Typed
  <2> QED BY <1>1, <1>3, <2>2, KindIdle
<1> QED BY <1>2, <1>3

\* What a failure of the storage does to a handler that does not catch it.
LEMMA RaiseOp ==
  ASSUME Typed, NEW h \in Handlers, Raise(h)
  PROVE  /\ op[h].pc # "index" /\ op[h].pc # "look"
         /\ op' \in [Handlers -> Ops] /\ Others(h)
         /\ \/ op'[h] = Idle
            \/ /\ op'[h].pc = "decay" /\ op'[h].m = 0 /\ op'[h].ids = {} /\ op'[h].tier = "decay"
               /\ op[h].tier = "decay"
         /\ Kind(op'[h], built)
<1>1. op[h] \in Ops /\ Kind(op[h], built)
  BY OpIs
<1>2. op[h].pc # "index" /\ op[h].pc # "look"
  BY DEF Raise
<1> DEFINE o == [op[h] EXCEPT !.pc = "decay", !.m = 0, !.ids = {}]
<1>3. /\ o \in Ops /\ o.pc = "decay" /\ o.m = 0 /\ o.tier = op[h].tier /\ o.ids = {}
  BY <1>1, NamesIs DEF Ops, Pcs
<1>4. \/ op[h].tier = "decay" /\ op' = [op EXCEPT ![h] = o]
      \/ Done(h)
  BY DEF Raise, Done
<1> HIDE DEF o
<1>5. CASE op[h].tier = "decay" /\ op' = [op EXCEPT ![h] = o]
  <2>1. op' \in [Handlers -> Ops] /\ op'[h] = o /\ Others(h)
    BY <1>3, <1>5, TurnIs DEF Typed
  <2>2. Kind(o, built)
    BY <1>3, <1>5, NamesIs DEF Kind, OnMemory
  <2> QED BY <1>2, <1>3, <1>5, <2>1, <2>2
<1>6. CASE Done(h)
  <2>1. op' \in [Handlers -> Ops] /\ op'[h] = Idle /\ Others(h)
    BY <1>6, DoneIs DEF Typed
  <2> QED BY <1>2, <2>1, KindIdle
<1> QED BY <1>4, <1>5, <1>6

\* What the registration of a searcher does to the handlers: its own is done,
\* and what was to be added to the searcher it replaces is lost.
LEMMA RegisterOp ==
  ASSUME Typed, NEW h \in Handlers, Register(h)
  PROVE  /\ op[h].pc = "build" /\ op[h].tier \in Tiers /\ op[h].ids \subseteq Ids
         /\ op' \in [Handlers -> Ops] /\ op'[h] = Idle
         /\ \A g \in Handlers \ {h} :
              op'[g] = IF op[g].pc = "index" /\ op[g].tier = op[h].tier THEN Idle ELSE op[g]
         /\ built' = built \cup {op[h].tier}
         /\ UNCHANGED <<row, imm, lru, st, stale, old, doomed, audit, made, gone, stray, twice, torn, restarts>>
         /\ \A t \in Tiers \ {op[h].tier} : index'[t] = index[t]
         /\ \A m \in Ids : index'[op[h].tier][m] = IF m \in op[h].ids THEN 1 ELSE 0
         /\ index' \in [Tiers -> [Ids -> Nat]]
<1>1. op[h].pc = "build" /\ op[h].tier \in Tiers /\ op[h].ids \subseteq Ids
  BY OpIs DEF Register, Kind
<1>2. index \in [Tiers -> [Ids -> Nat]]
  BY DEF Typed, RestTyped
<1> QED BY <1>1, <1>2, IdleIs DEF Register, Typed, Caches, Past, Rest

-----------------------------------------------------------------------------
(* What the writes to the storage do to the rows.                          *)

\* Saving one row.
LEMMA SavedIs ==
  ASSUME RestTyped, NEW m \in Ids, NEW t \in Tiers \cup {"none"}, Saved(m, t)
  PROVE  /\ row' \in [Ids -> Tiers \cup {"none"}] /\ row'[m] = t
         /\ \A e \in Ids \ {m} : row'[e] = row[e]
BY DEF RestTyped, Saved

\* Deleting rows.
LEMMA WithoutIs ==
  ASSUME RestTyped, NEW ids, row' = Without(ids)
  PROVE  /\ row' \in [Ids -> Tiers \cup {"none"}]
         /\ \A e \in Ids : row'[e] = IF e \in ids THEN "none" ELSE row[e]
BY DEF RestTyped, Without

\* A save behind a cache leaves the row alone only if it is torn from the cache.
LEMMA SavedBehindIs ==
  ASSUME RestTyped, NEW m \in Ids, NEW t \in Tiers, SavedBehind(m, t)
  PROVE  /\ row' \in [Ids -> Tiers \cup {"none"}] /\ torn \subseteq torn' /\ torn' \subseteq torn \cup {m}
         /\ \A e \in Ids \ {m} : row'[e] = row[e]
         /\ row'[m] = t \/ (row'[m] = row[m] /\ m \in torn')
BY DEF RestTyped, SavedBehind, Saved, Sound

\* Deletions behind a cache leave only rows that are torn.
LEMMA DeletedBehindIs ==
  ASSUME RestTyped, NEW ids \in SUBSET Ids, DeletedBehind(ids)
  PROVE  /\ row' \in [Ids -> Tiers \cup {"none"}] /\ torn \subseteq torn' /\ torn' \subseteq torn \cup ids
         /\ \A e \in Ids \ ids : row'[e] = row[e]
         /\ \A e \in ids : row'[e] = "none" \/ (row'[e] = row[e] /\ e \in torn')
<1>1. PICK lost \in SUBSET ids : row' = Without(ids \ lost) /\ torn' = torn \cup lost
  BY DEF DeletedBehind
<1> QED BY <1>1 DEF RestTyped, Without

\* A long-term copy is saved over whatever the row has become.
LEMMA SavedAgainIs ==
  ASSUME RestTyped, NEW m \in Ids, SavedAgain(m)
  PROVE  /\ row' \in [Ids -> Tiers \cup {"none"}] /\ row'[m] = "long_term"
         /\ \A e \in Ids \ {m} : row'[e] = row[e]
         /\ stray \subseteq stray' /\ stray' \subseteq stray \cup {m}
         /\ row[m] # "long_term" => m \in stray'
BY DEF RestTyped, SavedAgain, Saved, Tiers

-----------------------------------------------------------------------------
(* Types, and the shape of the caches.                                     *)

\* Every step keeps the caches of the sessions.
LEMMA CachesStep ==
  ASSUME Typed, Shaped, Fresh, [Next]_vars
  PROVE  CachesTyped' /\ Shaped'
<1>1. CachesTyped
  BY DEF Typed
<1>2. CASE UNCHANGED Caches
  BY <1>1, <1>2, CachesUnchanged
<1>3. ASSUME NEW h \in Handlers, Remember(h) PROVE CachesTyped' /\ Shaped'
  <2>1. CASE RememberImmediate(h)
    BY <2>1, ImmediateCaches DEF Typed
  <2>2. CASE RememberShort(h)
    BY <2>2, ShortCaches
  <2>3. CASE PutShort(h)
    BY <2>3, PutCaches
  <2>4. CASE \/ RememberLong(h) \/ ResolveAdd(h) \/ ResolveMerge(h) \/ ResolveNone(h) \/ Look(h) \/ IndexAdd(h)
    BY <1>2, <2>4 DEF RememberLong, ResolveAdd, ResolveMerge, ResolveNone, Look, IndexAdd, Caches
  <2>5. CASE EvictRaises(h)
    BY <2>5, EvictRaisesCaches DEF Typed
  <2> QED BY <1>3, <2>1, <2>2, <2>3, <2>4, <2>5 DEF Remember
<1>4. ASSUME NEW h \in Handlers, Recall(h) PROVE CachesTyped' /\ Shaped'
  BY <1>2, <1>4 DEF Recall, Build, Register, Caches
<1>5. ASSUME NEW h \in Handlers, Forgetting(h) PROVE CachesTyped' /\ Shaped'
  <2>1. ASSUME NEW m \in Ids, Forget(h, m) PROVE CachesTyped' /\ Shaped'
    <3>1. Uncached(m) /\ UNCHANGED lru
      BY <2>1 DEF Forget, ForgetCached
    <3> QED BY <1>1, <3>1, UncachedIs
  <2>2. CASE ForgetRow(h) \/ ForgetIndex(h)
    BY <1>2, <2>2 DEF ForgetRow, ForgetIndex, Caches
  <2> QED BY <1>5, <2>1, <2>2 DEF Forgetting
<1>6. ASSUME NEW h \in Handlers, Update(h) PROVE CachesTyped' /\ Shaped'
  <2>1. CASE \E m \in Ids, t \in Tiers : UpdateGet(h, m, t)
    BY <1>2, <2>1 DEF UpdateGet, Caches
  <2>2. CASE UpdateCached(h)
    BY <2>2, UpdateCaches
  <2>3. CASE UpdateLong(h)
    BY <1>2, <2>3 DEF UpdateLong, Caches
  <2> QED BY <1>6, <2>1, <2>2, <2>3 DEF Update
<1>7. ASSUME NEW h \in Handlers, Decaying(h) PROVE CachesTyped' /\ Shaped'
  <2>1. CASE Decay(h) \/ DecaySave(h)
    BY <1>2, <2>1 DEF Decay, DecaySave, Caches
  <2>2. CASE DecayForget(h)
    <3>1. PICK m \in op[h].ids : Uncached(m) /\ UNCHANGED lru
      BY <2>2 DEF DecayForget, ForgetCached
    <3> QED BY <1>1, <3>1, UncachedIs
  <2>3. CASE Sweep(h)
    BY <1>1, <2>3, SweepCaches
  <2> QED BY <1>7, <2>1, <2>2, <2>3 DEF Decaying
<1>8. ASSUME NEW h \in Handlers, Clearing(h) PROVE CachesTyped' /\ Shaped'
  <2>1. CASE Clear(h)
    BY <1>1, <2>1, ClearCaches
  <2>2. CASE ClearShort(h)
    <3>1. st' = [s \in DOMAIN st |-> st[s] \ Members("short_term")] /\ UNCHANGED <<imm, lru>>
      BY <2>2 DEF ClearShort
    <3> QED BY <1>1, <3>1, StFewer
  <2>3. CASE ClearLong(h)
    BY <1>2, <2>3 DEF ClearLong, Caches
  <2> QED BY <1>8, <2>1, <2>2, <2>3 DEF Clearing
<1>9. ASSUME NEW h \in Handlers, RollingBack(h) PROVE CachesTyped' /\ Shaped'
  BY <1>2, <1>9 DEF RollingBack, Rollback, RollbackKept, RollbackMerged, Caches
<1>10. ASSUME NEW m \in Ids, Age(m) \/ DropRow(m) PROVE CachesTyped' /\ Shaped'
  BY <1>2, <1>10 DEF Age, DropRow, Caches
<1>11. ASSUME NEW m \in Ids, ExpiredGet(m) PROVE CachesTyped' /\ Shaped'
  <2>1. st' = [s \in DOMAIN st |-> st[s] \ {m}] /\ UNCHANGED <<imm, lru>>
    BY <1>11 DEF ExpiredGet
  <2> QED BY <1>1, <2>1, StFewer
<1>12. ASSUME NEW m \in Ids, NEW t \in Tiers, Delete(m, t) PROVE CachesTyped' /\ Shaped'
  BY <1>1, <1>12, DeleteCaches
<1>13. CASE Restart
  BY <1>13, RestartCaches
<1>14. CASE UNCHANGED vars
  BY <1>2, <1>14 DEF vars, Caches
<1>15. ASSUME NEW h \in Handlers, Raise(h) PROVE CachesTyped' /\ Shaped'
  BY <1>2, <1>15 DEF Raise, Caches
<1> QED BY <1>3, <1>4, <1>5, <1>6, <1>7, <1>8, <1>9, <1>10, <1>11, <1>12, <1>13, <1>14, <1>15 DEF Next

\* A step that changes only rows and the history of what they may miss.
LEMMA RestKept ==
  ASSUME RestTyped, UNCHANGED <<stale, old, doomed, built, index, audit, gone, twice, restarts>>,
         row' \in [Ids -> Tiers \cup {"none"}], stray' \subseteq Ids, torn' \subseteq Ids,
         made' \in 0..MaxMemories
  PROVE  RestTyped'
BY DEF RestTyped

\* Without searchers nothing is in them.
LEMMA InvalidateIs ==
  ASSUME Invalidate
  PROVE  /\ built' = {} /\ index' \in [Tiers -> [Ids -> Nat]]
         /\ \A t \in Tiers : index'[t] = [m \in Ids |-> 0]
         /\ \A t \in Tiers : \A m \in Ids : index'[t][m] = 0
BY DEF Invalidate, Empty

\* What remember does keeps the rows, the searchers and the history typed.
LEMMA RestRemember ==
  ASSUME Typed, Shaped, Fresh, NEW h \in Handlers, Remember(h)
  PROVE  RestTyped'
<1>1. /\ RestTyped /\ CachesTyped
      /\ row \in [Ids -> Tiers \cup {"none"}] /\ stray \subseteq Ids /\ torn \subseteq Ids
      /\ made \in 0..MaxMemories /\ InImm \subseteq Ids /\ InSt \subseteq Ids
  BY InImmIs DEF Typed, RestTyped
<1>2. "immediate" \in Tiers /\ "short_term" \in Tiers /\ "long_term" \in Tiers
  BY DEF Tiers
<1>3. ASSUME made < MaxMemories PROVE made + 1 \in Ids /\ made + 1 \in 0..MaxMemories
  BY <1>1, <1>3, NewMemory, NamesIs
<1>4. CASE RememberImmediate(h)
  <2>1. /\ made < MaxMemories /\ made' = made + 1 /\ doomed' = doomed \cup Evicted
        /\ UNCHANGED <<stale, old, built, index, audit, gone, stray, twice, restarts>>
        /\ \/ row' = [Without(Dropped) EXCEPT ![made + 1] = "immediate"] /\ UNCHANGED torn
           \/ row' = Without(Dropped) /\ torn' = torn \cup {made + 1}
    BY <1>4, ImmediateParts DEF Sound, Searchers
  <2>2. Evicted \subseteq InImm
    BY <1>1, <1>4, ImmediateCaches
  <2>3. row' \in [Ids -> Tiers \cup {"none"}] /\ torn' \subseteq Ids
    BY <1>1, <1>2, <1>3, <2>1 DEF Without
  <2> QED BY <1>1, <1>3, <2>1, <2>2, <2>3 DEF RestTyped
<1>5. CASE EvictRaises(h)
  <2>1. PICK k \in 1..Room : /\ imm[NewSession][k] \in InImm
                             /\ row' = Without(Oldest(NewSession, k - 1))
                             /\ torn' = torn \cup {imm[NewSession][k]}
    BY <1>1, <1>5, EvictRaisesCaches
  <2>2. /\ made < MaxMemories /\ made' = made + 1
        /\ UNCHANGED <<stale, old, doomed, built, index, audit, gone, stray, twice, restarts>>
    BY <1>5 DEF EvictRaises, Searchers
  <2>3. row' \in [Ids -> Tiers \cup {"none"}]
    BY <1>1, <2>1, WithoutIs
  <2> QED BY <1>1, <1>3, <2>1, <2>2, <2>3, RestKept
<1>6. CASE RememberShort(h)
  <2>1. /\ made < MaxMemories /\ made' = made + 1
        /\ UNCHANGED <<stale, old, doomed, built, index, audit, gone, stray, twice, restarts>>
        /\ \/ SavedBehind(made + 1, "short_term")
           \/ \E dead \in SUBSET (InSt \cap stale) : DeletedBehind(dead)
    BY <1>6, ShortCaches
  <2>2. row' \in [Ids -> Tiers \cup {"none"}] /\ torn' \subseteq Ids
    BY <1>1, <1>2, <1>3, <2>1, SavedBehindIs, DeletedBehindIs
  <2> QED BY <1>1, <1>3, <2>1, <2>2, RestKept
<1>7. CASE PutShort(h)
  <2>1. /\ op[h].m \in Ids
        /\ UNCHANGED <<made, stale, old, doomed, built, index, audit, gone, stray, twice, restarts>>
        /\ SavedBehind(op[h].m, "short_term") \/ UNCHANGED <<row, torn>>
    BY <1>7, PutCaches
  <2>2. row' \in [Ids -> Tiers \cup {"none"}] /\ torn' \subseteq Ids
    BY <1>1, <1>2, <2>1, SavedBehindIs
  <2> QED BY <1>1, <2>1, <2>2, RestKept
<1>8. CASE RememberLong(h)
  <2>1. /\ made < MaxMemories /\ made' = made + 1
        /\ UNCHANGED <<stale, old, doomed, built, index, audit, gone, stray, twice, torn, restarts>>
        /\ Saved(made + 1, "long_term") \/ UNCHANGED row
    BY <1>8 DEF RememberLong, Searchers
  <2>2. row' \in [Ids -> Tiers \cup {"none"}]
    BY <1>1, <1>2, <1>3, <2>1, SavedIs
  <2> QED BY <1>1, <1>3, <2>1, <2>2, RestKept
<1>9. CASE ResolveAdd(h)
  <2>1. /\ op[h].m \in Ids /\ Saved(op[h].m, "long_term")
        /\ UNCHANGED <<made, stale, old, doomed, built, index, audit, gone, stray, twice, torn, restarts>>
    BY <1>9, OpIs DEF ResolveAdd, Rest, Searchers, OnMemory
  <2>2. row' \in [Ids -> Tiers \cup {"none"}]
    BY <1>1, <1>2, <2>1, SavedIs
  <2> QED BY <1>1, <2>1, <2>2, RestKept
<1>10. CASE ResolveMerge(h)
  <2>1. /\ op[h].m \in Ids /\ op[h].ids \subseteq Ids
        /\ UNCHANGED <<made, stale, old, doomed, built, index, gone, twice, torn, restarts>>
    BY <1>10, OpIs DEF ResolveMerge, Searchers, OnMemory
  <2>2. PICK target \in op[h].ids :
          SavedAgain(target) /\ (audit' = audit \cup {<<target, op[h].m>>} \/ UNCHANGED audit)
    BY <1>10 DEF ResolveMerge
  <2>3. row' \in [Ids -> Tiers \cup {"none"}] /\ stray' \subseteq Ids
    BY <1>1, <2>1, <2>2, SavedAgainIs
  <2> QED BY <1>1, <2>1, <2>2, <2>3 DEF RestTyped
<1>11. CASE ResolveNone(h)
  BY <1>1, <1>11, RestKept DEF ResolveNone, Rest, Searchers
<1>12. CASE Look(h)
  <2>1. op[h].m \in Ids /\ stray' \in {stray, stray \cup {op[h].m}}
    BY <1>12, LookOp DEF Look
  <2>2. UNCHANGED <<row, stale, old, doomed, built, index, torn, audit, made, gone, twice, restarts>>
    BY <1>12 DEF Look, Past, Searchers
  <2> QED BY <1>1, <2>1, <2>2, RestKept
<1>13. CASE IndexAdd(h)
  <2>1. op[h].pc = "index" /\ op[h].m \in Ids /\ op[h].tier \in built /\ op[h].tier \in Tiers
    BY <1>13, OpIs DEF IndexAdd, OnMemory, Kind
  <2>2. /\ index' = [index EXCEPT ![op[h].tier] = [index[op[h].tier] EXCEPT ![op[h].m] = @ + 1]]
        /\ twice' \in {twice, twice \cup {op[h].m}}
        /\ UNCHANGED <<row, stale, old, doomed, built, audit, made, gone, stray, torn, restarts>>
    BY <1>13 DEF IndexAdd
  <2>3. index \in [Tiers -> [Ids -> Nat]]
    BY <1>1 DEF RestTyped
  <2>4. [index[op[h].tier] EXCEPT ![op[h].m] = @ + 1] \in [Ids -> Nat]
    BY <2>1, <2>3
  <2>5. /\ index' \in [Tiers -> [Ids -> Nat]]
        /\ \A t \in Tiers \ {op[h].tier} : index'[t] = index[t]
    BY <2>1, <2>2, <2>3, <2>4
  <2> QED BY <1>1, <2>1, <2>2, <2>5 DEF RestTyped
<1> QED BY <1>4, <1>5, <1>6, <1>7, <1>8, <1>9, <1>10, <1>11, <1>12, <1>13 DEF Remember

\* What forget does keeps the rows, the searchers and the history typed.
LEMMA RestForgetting ==
  ASSUME Typed, NEW h \in Handlers, Forgetting(h)
  PROVE  RestTyped'
<1>1. RestTyped /\ stray \subseteq Ids /\ torn \subseteq Ids /\ made \in 0..MaxMemories
      /\ row \in [Ids -> Tiers \cup {"none"}]
  BY DEF Typed, RestTyped
<1>2. ASSUME NEW m \in Ids, Forget(h, m) PROVE RestTyped'
  <2>1. /\ DeletedBehind({m}) \/ DeletedBehind({})
        /\ UNCHANGED <<stale, old, doomed, built, index, audit, made, gone, stray, twice, restarts>>
    BY <1>2 DEF Forget, ForgetCached, Past, Searchers
  <2>2. row' \in [Ids -> Tiers \cup {"none"}] /\ torn' \subseteq Ids
    BY <1>1, <2>1, DeletedBehindIs
  <2> QED BY <1>1, <2>1, <2>2, RestKept
<1>3. CASE ForgetRow(h)
  <2>1. /\ Saved(op[h].m, "none") /\ op[h].m \in Ids
        /\ UNCHANGED <<stale, old, doomed, built, index, audit, made, gone, stray, twice, torn, restarts>>
    BY <1>3, ForgetRowOp DEF ForgetRow, Rest, Searchers
  <2> QED BY <1>1, <2>1, SavedIs, RestKept
<1>4. CASE ForgetIndex(h)
  <2>1. /\ op[h].m \in Ids
        /\ index' = [t \in Tiers |-> [index[t] EXCEPT ![op[h].m] = Less(@)]]
        /\ gone' \in {gone, gone \cup {op[h].m}}
        /\ UNCHANGED <<row, stale, old, doomed, built, audit, made, stray, twice, torn, restarts>>
    BY <1>4, ForgetIndexOp DEF ForgetIndex
  <2>2. index \in [Tiers -> [Ids -> Nat]] /\ \A t \in Tiers : t \notin built => index[t] = [m \in Ids |-> 0]
    BY <1>1 DEF RestTyped
  <2>3. ASSUME NEW t \in Tiers
        PROVE  index'[t] \in [Ids -> Nat] /\ (t \notin built => index'[t] = [m \in Ids |-> 0])
    BY <2>1, <2>2 DEF Less
  <2>4. index' \in [Tiers -> [Ids -> Nat]]
    BY <2>1, <2>3
  <2> QED BY <1>1, <2>1, <2>3, <2>4 DEF RestTyped
<1> QED BY <1>2, <1>3, <1>4 DEF Forgetting

\* What recall and update do keeps the rows, the searchers and the history typed.
LEMMA RestUpdate ==
  ASSUME Typed, Shaped, NEW h \in Handlers, Recall(h) \/ Update(h)
  PROVE  RestTyped'
<1>1. RestTyped /\ stray \subseteq Ids /\ torn \subseteq Ids /\ made \in 0..MaxMemories
      /\ row \in [Ids -> Tiers \cup {"none"}]
  BY DEF Typed, RestTyped
<1>2. ASSUME NEW t \in Tiers, Build(h, t) PROVE RestTyped'
  BY <1>1, <1>2, RestKept DEF Build, Past, Searchers
<1>3. CASE Register(h)
  <2>1. /\ op[h].tier \in Tiers /\ index' \in [Tiers -> [Ids -> Nat]]
        /\ built' = built \cup {op[h].tier}
        /\ UNCHANGED <<row, stale, old, doomed, audit, made, gone, stray, twice, torn, restarts>>
        /\ \A t \in Tiers \ {op[h].tier} : index'[t] = index[t]
    BY <1>3, RegisterOp
  <2> QED BY <1>1, <2>1 DEF RestTyped
<1>4. ASSUME NEW m \in Ids, NEW t \in Tiers, UpdateGet(h, m, t) PROVE RestTyped'
  BY <1>1, <1>4, RestKept DEF UpdateGet, Past, Searchers
<1>5. CASE UpdateCached(h)
  <2>1. op[h].m \in Ids /\ op[h].tier \in Tiers
    BY <1>5, UpdateCaches
  <2>2. /\ stale' = stale \ {op[h].m}
        /\ \/ Saved(op[h].m, op[h].tier) /\ old' = old \ {op[h].m}
           \/ UNCHANGED <<row, old>>
        /\ torn' \in {torn, torn \cup {op[h].m}} /\ stray' \in {stray, stray \cup {op[h].m}}
        /\ Invalidate /\ UNCHANGED <<doomed, audit, made, gone, twice, restarts>>
    BY <1>5 DEF UpdateCached, Past
  <2>3. row' \in [Ids -> Tiers \cup {"none"}]
    BY <1>1, <2>1, <2>2, SavedIs
  <2>4. built' = {} /\ index' \in [Tiers -> [Ids -> Nat]] /\ \A t \in Tiers : index'[t] = [m \in Ids |-> 0]
    BY <2>2, InvalidateIs
  <2> QED BY <1>1, <2>1, <2>2, <2>3, <2>4 DEF RestTyped
<1>6. CASE UpdateLong(h)
  <2>1. op[h].m \in Ids
    BY <1>6, OpIs DEF UpdateLong, OnMemory
  <2>2. /\ SavedAgain(op[h].m) /\ torn' \in {torn, torn \cup {op[h].m}} /\ Invalidate
        /\ UNCHANGED <<stale, old, doomed, audit, made, gone, twice, restarts>>
    BY <1>6 DEF UpdateLong, Past
  <2>3. row' \in [Ids -> Tiers \cup {"none"}] /\ stray' \subseteq Ids
    BY <1>1, <2>1, <2>2, SavedAgainIs
  <2>4. built' = {} /\ index' \in [Tiers -> [Ids -> Nat]] /\ \A t \in Tiers : index'[t] = [m \in Ids |-> 0]
    BY <2>2, InvalidateIs
  <2> QED BY <1>1, <2>1, <2>2, <2>3, <2>4 DEF RestTyped
<1> QED BY <1>2, <1>3, <1>4, <1>5, <1>6 DEF Recall, Update

\* What the decay does keeps the rows, the searchers and the history typed.
LEMMA RestDecaying ==
  ASSUME Typed, NEW h \in Handlers, Decaying(h) \/ Raise(h)
  PROVE  RestTyped'
<1>1. RestTyped /\ stray \subseteq Ids /\ torn \subseteq Ids /\ made \in 0..MaxMemories
      /\ row \in [Ids -> Tiers \cup {"none"}] /\ InSt \subseteq Ids
  BY InImmIs DEF Typed, RestTyped
<1>2. CASE Decay(h)
  BY <1>1, <1>2, RestKept DEF Decay, Past, Searchers
<1>3. CASE DecaySave(h)
  <2>1. PICK m \in Ids : SavedAgain(m)
    BY <1>3, DecaySaveOp
  <2>2. UNCHANGED <<made, stale, old, doomed, built, index, audit, gone, twice, torn, restarts>>
    BY <1>3 DEF DecaySave, Past, Searchers
  <2>3. row' \in [Ids -> Tiers \cup {"none"}] /\ stray' \subseteq Ids
    BY <1>1, <2>1, SavedAgainIs
  <2> QED BY <1>1, <2>2, <2>3, RestKept
<1>4. CASE DecayForget(h)
  <2>1. PICK m \in Ids : ForgetCached(m)
    BY <1>4, DecayForgetOp
  <2>2. DeletedBehind({m}) \/ DeletedBehind({})
    BY <2>1 DEF ForgetCached
  <2>3. UNCHANGED <<stale, old, doomed, built, index, audit, made, gone, stray, twice, restarts>>
    BY <1>4 DEF DecayForget, Past, Searchers
  <2>4. row' \in [Ids -> Tiers \cup {"none"}] /\ torn' \subseteq Ids
    BY <1>1, <2>2, DeletedBehindIs
  <2> QED BY <1>1, <2>3, <2>4, RestKept
<1>5. CASE Sweep(h)
  <2>1. /\ doomed' = doomed \cup (InSt \cap stale)
        /\ UNCHANGED <<row, stale, old, built, index, audit, made, gone, stray, twice, torn, restarts>>
    BY <1>5 DEF Sweep, Rest, Searchers
  <2> QED BY <1>1, <2>1 DEF RestTyped
<1>6. CASE Raise(h)
  BY <1>1, <1>6, RestKept DEF Raise, Past, Searchers
<1> QED BY <1>2, <1>3, <1>4, <1>5, <1>6 DEF Decaying

\* What a clearing and a rollback do keeps the rows, the searchers and the history typed.
LEMMA RestClearing ==
  ASSUME Typed, NEW h \in Handlers, Clearing(h) \/ RollingBack(h)
  PROVE  RestTyped'
<1>1. RestTyped /\ stray \subseteq Ids /\ torn \subseteq Ids /\ made \in 0..MaxMemories
      /\ row \in [Ids -> Tiers \cup {"none"}] /\ InImm \subseteq Ids
      /\ InSt \subseteq Ids /\ Members("short_term") \subseteq Ids
  BY InImmIs DEF Typed, RestTyped, Members
<1>2. CASE Clear(h)
  <2>1. /\ DeletedBehind(InImm)
        /\ UNCHANGED <<stale, old, doomed, built, index, audit, made, gone, stray, twice, restarts>>
    BY <1>2 DEF Clear, Past, Searchers
  <2>2. row' \in [Ids -> Tiers \cup {"none"}] /\ torn' \subseteq Ids
    BY <1>1, <2>1, DeletedBehindIs
  <2> QED BY <1>1, <2>1, <2>2, RestKept
<1>3. CASE ClearShort(h)
  <2>1. /\ DeletedBehind(Members("short_term"))
        /\ UNCHANGED <<stale, old, doomed, built, index, audit, made, gone, stray, twice, restarts>>
    BY <1>3 DEF ClearShort, Past, Searchers
  <2>2. row' \in [Ids -> Tiers \cup {"none"}] /\ torn' \subseteq Ids
    <3> DEFINE ids == Members("short_term")
    <3>1. ids \in SUBSET Ids /\ DeletedBehind(ids)
      BY <1>1, <2>1
    <3> HIDE DEF ids
    <3> QED BY <1>1, <3>1, DeletedBehindIs
  <2> QED BY <1>1, <2>1, <2>2, RestKept
<1>4. CASE ClearLong(h)
  <2>1. /\ \E ids : row' = Without(ids)
        /\ UNCHANGED <<stale, old, doomed, audit, made, gone, stray, twice, torn, restarts>>
        /\ Invalidate \/ UNCHANGED <<built, index>>
    BY <1>4 DEF ClearLong, Past, Searchers
  <2>2. row' \in [Ids -> Tiers \cup {"none"}]
    BY <1>1, <2>1, WithoutIs
  <2>3. CASE UNCHANGED <<built, index>>
    BY <1>1, <2>1, <2>2, <2>3, RestKept
  <2>4. CASE Invalidate
    <3>1. built' = {} /\ index' \in [Tiers -> [Ids -> Nat]] /\ \A t \in Tiers : index'[t] = [m \in Ids |-> 0]
      BY <2>4, InvalidateIs
    <3> QED BY <1>1, <2>1, <2>2, <3>1 DEF RestTyped
  <2> QED BY <2>1, <2>3, <2>4
<1>5. CASE Rollback(h)
  BY <1>1, <1>5, RestKept DEF Rollback, Past, Searchers
<1>6. CASE RollbackKept(h)
  <2>1. /\ row' = [m \in Ids |-> IF m \in op[h].ids THEN "long_term" ELSE row[m]]
        /\ stray' = stray \cup {m \in op[h].ids : row[m] # "long_term"}
        /\ UNCHANGED <<stale, old, doomed, built, index, audit, made, gone, twice, torn, restarts>>
    BY <1>6 DEF RollbackKept, Past, Searchers
  <2>2. op[h].ids \subseteq Ids /\ "long_term" \in Tiers
    BY OpIs DEF Tiers
  <2>3. row' \in [Ids -> Tiers \cup {"none"}] /\ stray' \subseteq Ids
    BY <1>1, <2>1, <2>2
  <2> QED BY <1>1, <2>1, <2>3, RestKept
<1>7. CASE RollbackMerged(h)
  <2>1. op[h].m \in Ids
    BY <1>7, OpIs DEF RollbackMerged, OnMemory
  <2>2. /\ SavedAgain(op[h].m) /\ gone' = gone \ {op[h].m}
        /\ UNCHANGED <<stale, old, doomed, built, index, audit, made, twice, torn, restarts>>
    BY <1>7 DEF RollbackMerged, Searchers
  <2>3. row' \in [Ids -> Tiers \cup {"none"}] /\ stray' \subseteq Ids
    BY <1>1, <2>1, <2>2, SavedAgainIs
  <2> QED BY <1>1, <2>2, <2>3 DEF RestTyped
<1> QED BY <1>2, <1>3, <1>4, <1>5, <1>6, <1>7 DEF Clearing, RollingBack

\* Every step keeps the rows, the searchers and the history typed.
LEMMA RestStep ==
  ASSUME Typed, Shaped, Fresh, [Next]_vars
  PROVE  RestTyped'
<1>1. RestTyped /\ stray \subseteq Ids /\ torn \subseteq Ids /\ made \in 0..MaxMemories
      /\ row \in [Ids -> Tiers \cup {"none"}]
  BY DEF Typed, RestTyped
<1>2. ASSUME NEW h \in Handlers,
             \/ Remember(h) \/ Recall(h) \/ Forgetting(h) \/ Update(h)
             \/ Decaying(h) \/ Clearing(h) \/ RollingBack(h) \/ Raise(h)
      PROVE  RestTyped'
  BY <1>2, RestRemember, RestForgetting, RestUpdate, RestDecaying, RestClearing
<1>3. ASSUME NEW m \in Ids, Age(m) PROVE RestTyped'
  <2>1. /\ old' = old \cup {m} /\ stale' \in {stale, stale \cup {m}}
        /\ UNCHANGED <<row, doomed, built, index, audit, made, gone, stray, twice, torn, restarts>>
    BY <1>3 DEF Age, Rest, Searchers
  <2> QED BY <1>1, <2>1 DEF RestTyped
<1>4. ASSUME NEW m \in Ids, DropRow(m) PROVE RestTyped'
  <2>1. /\ DeletedBehind({m}) /\ doomed' = doomed \ {m}
        /\ UNCHANGED <<stale, old, built, index, audit, made, gone, stray, twice, restarts>>
    BY <1>4 DEF DropRow, Past, Searchers
  <2>2. row' \in [Ids -> Tiers \cup {"none"}] /\ torn' \subseteq Ids
    BY <1>1, <2>1, DeletedBehindIs
  <2> QED BY <1>1, <2>1, <2>2 DEF RestTyped
<1>5. ASSUME NEW m \in Ids, ExpiredGet(m) \/ \E t \in Tiers : Delete(m, t) PROVE RestTyped'
  <2>1. /\ \/ DeletedBehind({m})
           \/ Saved(m, "none") /\ torn' \in {torn, torn \cup {m}}
        /\ UNCHANGED <<stale, old, doomed, built, index, audit, made, gone, stray, twice, restarts>>
    BY <1>5 DEF ExpiredGet, Delete, Past, Searchers
  <2>2. row' \in [Ids -> Tiers \cup {"none"}] /\ torn' \subseteq Ids
    BY <1>1, <2>1, DeletedBehindIs, SavedIs
  <2> QED BY <1>1, <2>1, <2>2, RestKept
<1>6. CASE Restart
  <2>1. /\ stale' = old /\ doomed' = {} /\ Invalidate /\ restarts' = restarts + 1
        /\ UNCHANGED <<row, old, audit, made, gone, stray, twice, torn>>
    BY <1>6 DEF Restart
  <2>2. built' = {} /\ index' \in [Tiers -> [Ids -> Nat]] /\ \A t \in Tiers : index'[t] = [m \in Ids |-> 0]
    BY <2>1, InvalidateIs
  <2> QED BY <1>1, <2>1, <2>2 DEF RestTyped
<1>7. CASE UNCHANGED vars
  BY <1>1, <1>7, RestKept DEF vars
<1> QED BY <1>2, <1>3, <1>4, <1>5, <1>6, <1>7 DEF Next

\* What it takes to begin, for each request and job.
LEMMA BuildOp ==
  ASSUME Typed, NEW h \in Handlers, NEW t \in Tiers, Build(h, t)
  PROVE  /\ op[h] = Idle /\ op' \in [Handlers -> Ops] /\ Others(h)
         /\ op'[h].pc = "build" /\ op'[h].m = 0 /\ op'[h].tier = t /\ op'[h].ids = Members(t)
         /\ Members(t) \subseteq Ids
         /\ \A g \in Handlers \ {h} : op'[g].alone => op[g].m \notin Members(t)
         /\ Kind(op'[h], built)
<1>1. Members(t) \subseteq Ids
  BY InImmIs DEF Members, Typed, Tiers
<1>2. Start(h, "build", 0, t, Members(t))
  BY DEF Build
<1>3. "build" \in Pcs /\ 0 \in 0..MaxMemories /\ t \in Tiers \cup {"none", "decay"} /\ 0 \notin Ids
  BY NamesIs DEF Pcs
<1>4. /\ op[h] = Idle /\ op' \in [Handlers -> Ops] /\ Others(h)
      /\ op'[h].pc = "build" /\ op'[h].m = 0 /\ op'[h].tier = t /\ op'[h].ids = Members(t)
      /\ \A g \in Handlers \ {h} : op'[g].alone => op[g].m \notin (Members(t) \cup {0}) \ {0}
  BY <1>1, <1>2, <1>3, StartIs
<1> QED BY <1>1, <1>3, <1>4 DEF Kind, OnMemory

\* What forget does to its handler.
LEMMA ForgetOp ==
  ASSUME Typed, NEW h \in Handlers, NEW m \in Ids, Forget(h, m)
  PROVE  /\ op[h] = Idle /\ op' \in [Handlers -> Ops] /\ Others(h)
         /\ op'[h].pc = (IF m \in InImm \cup InSt THEN "forgot" ELSE "forget")
         /\ op'[h].m = m /\ op'[h].tier = "none" /\ op'[h].ids = {}
         /\ op'[h].alone => \A k \in Handlers \ {h} : ~Holds(k, m)
         /\ \A g \in Handlers \ {h} : op'[g].alone => op[g].m # m
         /\ Kind(op'[h], built)
<1> DEFINE pc == IF Cached(m) THEN "forgot" ELSE "forget"
<1>1. Start(h, pc, m, "none", {})
  BY DEF Forget
<1>2. pc \in Pcs /\ m \in 0..MaxMemories /\ m # 0 /\ "none" \in Tiers \cup {"none", "decay"}
  BY NamesIs DEF Pcs
<1>3. pc = IF m \in InImm \cup InSt THEN "forgot" ELSE "forget"
  BY DEF Cached
<1> HIDE DEF pc
<1>4. /\ op[h] = Idle /\ op' \in [Handlers -> Ops] /\ Others(h)
      /\ op'[h].pc = pc /\ op'[h].m = m /\ op'[h].tier = "none" /\ op'[h].ids = {}
      /\ op'[h].alone => \A k \in Handlers \ {h} : ~Holds(k, m)
      /\ \A g \in Handlers \ {h} : op'[g].alone => op[g].m \notin ({} \cup {m}) \ {0}
  BY <1>1, <1>2, StartIs
<1> QED BY <1>2, <1>3, <1>4 DEF Kind, OnMemory

\* What update does to its handler when it has read the memory.
LEMMA UpdateGetOp ==
  ASSUME Typed, NEW h \in Handlers, NEW m \in Ids, NEW t \in Tiers, UpdateGet(h, m, t)
  PROVE  /\ op[h] = Idle /\ op' \in [Handlers -> Ops] /\ Others(h)
         /\ op'[h].pc = "update" /\ op'[h].m = m /\ op'[h].tier = t /\ op'[h].ids = {}
         /\ op'[h].alone => \A k \in Handlers \ {h} : ~Holds(k, m)
         /\ \A g \in Handlers \ {h} : op'[g].alone => op[g].m # m
         /\ Kind(op'[h], built)
<1>1. Start(h, "update", m, t, {})
  BY DEF UpdateGet
<1>2. "update" \in Pcs /\ m \in 0..MaxMemories /\ m # 0 /\ t \in Tiers \cup {"none", "decay"}
  BY NamesIs DEF Pcs
<1>3. /\ op[h] = Idle /\ op' \in [Handlers -> Ops] /\ Others(h)
      /\ op'[h].pc = "update" /\ op'[h].m = m /\ op'[h].tier = t /\ op'[h].ids = {}
      /\ op'[h].alone => \A k \in Handlers \ {h} : ~Holds(k, m)
      /\ \A g \in Handlers \ {h} : op'[g].alone => op[g].m \notin ({} \cup {m}) \ {0}
  BY <1>1, <1>2, StartIs
<1> QED BY <1>2, <1>3 DEF Kind, OnMemory

\* What the decay does to its handler when it has read the rows.
LEMMA DecayOp ==
  ASSUME Typed, NEW h \in Handlers, Decay(h)
  PROVE  /\ op[h] = Idle /\ op' \in [Handlers -> Ops] /\ Others(h)
         /\ op'[h].pc = "decay" /\ op'[h].m = 0 /\ op'[h].tier = "decay"
         /\ op'[h].ids = {m \in Ids : row[m] = "long_term"}
         /\ \A g \in Handlers \ {h} : op'[g].alone => op[g].m \notin op'[h].ids
         /\ Kind(op'[h], built)
<1> DEFINE ids == {m \in Ids : row[m] = "long_term"}
<1>1. Start(h, "decay", 0, "decay", ids)
  BY DEF Decay, Members
<1>2. /\ "decay" \in Pcs /\ 0 \in 0..MaxMemories /\ "decay" \in Tiers \cup {"none", "decay"}
      /\ 0 \notin Ids /\ ids \in SUBSET Ids
  BY NamesIs DEF Pcs
<1> HIDE DEF ids
<1>3. /\ op[h] = Idle /\ op' \in [Handlers -> Ops] /\ Others(h)
      /\ op'[h].pc = "decay" /\ op'[h].m = 0 /\ op'[h].tier = "decay" /\ op'[h].ids = ids
      /\ \A g \in Handlers \ {h} : op'[g].alone => op[g].m \notin (ids \cup {0}) \ {0}
  BY <1>1, <1>2, StartIs
<1>4. Kind(op'[h], built)
  BY <1>3 DEF Kind, OnMemory
<1> QED BY <1>2, <1>3, <1>4 DEF ids

\* What clear does to its handler when the immediate caches are empty.
LEMMA ClearOp ==
  ASSUME Typed, NEW h \in Handlers, Clear(h)
  PROVE  /\ op[h] = Idle /\ op' \in [Handlers -> Ops] /\ Others(h)
         /\ op'[h].pc = "clear" /\ op'[h].m = 0 /\ op'[h].tier = "none" /\ op'[h].ids = InImm
         /\ \A g \in Handlers \ {h} : op'[g].alone => op[g].m \notin InImm
         /\ Kind(op'[h], built)
<1>1. Start(h, "clear", 0, "none", InImm)
  BY DEF Clear
<1>2. /\ "clear" \in Pcs /\ 0 \in 0..MaxMemories /\ "none" \in Tiers \cup {"none", "decay"}
      /\ 0 \notin Ids /\ InImm \in SUBSET Ids
  BY NamesIs, InImmIs DEF Pcs, Typed
<1>3. /\ op[h] = Idle /\ op' \in [Handlers -> Ops] /\ Others(h)
      /\ op'[h].pc = "clear" /\ op'[h].m = 0 /\ op'[h].tier = "none" /\ op'[h].ids = InImm
      /\ \A g \in Handlers \ {h} : op'[g].alone => op[g].m \notin (InImm \cup {0}) \ {0}
  BY <1>1, <1>2, StartIs
<1> QED BY <1>2, <1>3 DEF Kind, OnMemory

\* What clear does to its handler when the short-term caches are empty.
LEMMA ClearShortOp ==
  ASSUME Typed, NEW h \in Handlers, ClearShort(h)
  PROVE  /\ op[h].pc = "clear" /\ op[h].m = 0 /\ op' \in [Handlers -> Ops] /\ Others(h)
         /\ op'[h].pc = "clearlong" /\ op'[h].m = 0 /\ op'[h].tier = "none" /\ op'[h].ids = op[h].ids
         /\ Kind(op'[h], built)
<1>1. op[h].pc = "clear" /\ Go(h, "clearlong", 0, "none", op[h].ids)
  BY DEF ClearShort
<1>2. /\ "clearlong" \in Pcs /\ 0 \in 0..MaxMemories /\ "none" \in Tiers \cup {"none", "decay"}
      /\ op[h].ids \in SUBSET Ids /\ op[h].m = 0
  BY <1>1, NamesIs, OpIs DEF Pcs, Kind, OnMemory
<1>3. /\ op' \in [Handlers -> Ops] /\ Others(h)
      /\ op'[h].pc = "clearlong" /\ op'[h].m = 0 /\ op'[h].tier = "none" /\ op'[h].ids = op[h].ids
  <2>1. PICK ids \in SUBSET Ids : ids = op[h].ids
    BY <1>2
  <2>2. Go(h, "clearlong", 0, "none", ids)
    BY <1>1, <2>1
  <2> QED BY <1>2, <2>1, <2>2, GoIs DEF Typed
<1> QED BY <1>1, <1>2, <1>3 DEF Kind, OnMemory

\* What a rollback does to its handler when it has read the audit entry.
LEMMA RollbackOp ==
  ASSUME Typed, NEW h \in Handlers, Rollback(h)
  PROVE  /\ op[h] = Idle /\ op' \in [Handlers -> Ops] /\ Others(h)
         /\ op'[h].pc = "rollback" /\ op'[h].tier = "long_term" /\ op'[h].m \in Ids
         /\ \E a \in audit : /\ op'[h].m = a[2] /\ a[1] \in Ids
                             /\ op'[h].ids = {m \in {a[1]} : row[m] # "none"}
         /\ op'[h].alone => \A k \in Handlers \ {h} : ~Holds(k, op'[h].m)
         /\ \A g \in Handlers \ {h} : op'[g].alone => op[g].m \notin op'[h].ids \cup {op'[h].m}
         /\ Kind(op'[h], built)
<1>1. PICK a \in audit : Start(h, "rollback", a[2], "long_term", {m \in {a[1]} : row[m] # "none"})
  BY DEF Rollback
<1> DEFINE ids == {m \in {a[1]} : row[m] # "none"}
<1>2. a \in Ids \X Ids
  BY DEF Typed, RestTyped
<1>3. /\ "rollback" \in Pcs /\ a[2] \in 0..MaxMemories /\ "long_term" \in Tiers \cup {"none", "decay"}
      /\ 0 \notin Ids /\ a[1] \in Ids /\ a[2] \in Ids /\ ids \in SUBSET Ids
  BY <1>2, NamesIs DEF Pcs
<1>4. Start(h, "rollback", a[2], "long_term", ids)
  BY <1>1
<1> HIDE DEF ids
<1>5. /\ op[h] = Idle /\ op' \in [Handlers -> Ops] /\ Others(h)
      /\ op'[h].pc = "rollback" /\ op'[h].m = a[2] /\ op'[h].tier = "long_term" /\ op'[h].ids = ids
      /\ op'[h].alone => \A k \in Handlers \ {h} : ~Holds(k, a[2])
      /\ \A g \in Handlers \ {h} : op'[g].alone => op[g].m \notin (ids \cup {a[2]}) \ {0}
  BY <1>3, <1>4, StartIs
<1>6. Kind(op'[h], built)
  BY <1>3, <1>5 DEF Kind, OnMemory
<1> QED BY <1>3, <1>5, <1>6 DEF ids

\* A new memory, of which the handler alone knows.
LEMMA NewOp ==
  ASSUME Typed, NEW h \in Handlers, op[h] = Idle, made < MaxMemories,
         NEW pc \in {"put", "resolve"}, NEW t \in {"short_term", "long_term"},
         (pc = "put") <=> (t = "short_term"),
         NEW ids \in SUBSET Ids, Go(h, pc, made + 1, t, ids)
  PROVE  /\ op' \in [Handlers -> Ops] /\ Others(h) /\ made + 1 \in Ids
         /\ op'[h].pc = pc /\ op'[h].m = made + 1 /\ op'[h].tier = t /\ op'[h].ids = ids
         /\ op'[h].alone => \A k \in Handlers \ {h} : ~Holds(k, made + 1)
         /\ \A g \in Handlers \ {h} : op'[g].alone => op[g].m \notin ids \cup {made + 1}
         /\ Kind(op'[h], built)
<1>1. made + 1 \in Ids
  BY NewMemory DEF Typed
<1>2. /\ pc \in Pcs /\ made + 1 \in 0..MaxMemories /\ made + 1 # 0 /\ 0 \notin Ids
      /\ t \in Tiers \cup {"none", "decay"}
  BY <1>1, NamesIs DEF Pcs, Tiers
<1>3. /\ op' \in [Handlers -> Ops] /\ Others(h)
      /\ op'[h].pc = pc /\ op'[h].m = made + 1 /\ op'[h].tier = t /\ op'[h].ids = ids
      /\ op'[h].alone => \A k \in Handlers \ {h} : ~Holds(k, made + 1)
      /\ \A g \in Handlers \ {h} : op'[g].alone => op[g].m \notin (ids \cup {made + 1}) \ {0}
  BY <1>2, GoIs DEF Typed
<1> QED BY <1>1, <1>2, <1>3 DEF Kind, OnMemory

\* Every step leaves every handler at rest or at an await with what it needs there.
LEMMA OpStep ==
  ASSUME Typed, Shaped, [Next]_vars
  PROVE  op' \in [Handlers -> Ops] /\ Kinded'
<1>1. /\ op \in [Handlers -> Ops] /\ Kinded
      /\ "immediate" \in Tiers /\ "short_term" \in Tiers /\ "long_term" \in Tiers
  BY DEF Typed, Tiers
<1>2. ASSUME NEW h \in Handlers, op' \in [Handlers -> Ops], Others(h), Kind(op'[h], built'), built \subseteq built'
      PROVE  op' \in [Handlers -> Ops] /\ Kinded'
  BY <1>2, KindedTurn
<1>3. ASSUME NEW h \in Handlers, Done(h), built \subseteq built'
      PROVE  op' \in [Handlers -> Ops] /\ Kinded'
  BY <1>1, <1>2, <1>3, DoneIs, KindIdle
<1>4. ASSUME NEW h \in Handlers, DoneInvalid(h)
      PROVE  op' \in [Handlers -> Ops] /\ Kinded'
  <2>1. /\ op' \in [Handlers -> Ops] /\ op'[h] = Idle
        /\ \A g \in Handlers \ {h} : op'[g] = IF op[g].pc = "index" THEN Idle ELSE op[g]
    BY <1>1, <1>4, DoneInvalidIs
  <2>2. ASSUME NEW g \in Handlers PROVE Kind(op'[g], built')
    <3>1. CASE op'[g] = Idle
      BY <3>1, KindIdle
    <3>2. CASE op'[g] = op[g] /\ op[g].pc # "index"
      BY <1>1, <3>2 DEF Kinded, Kind
    <3> QED BY <2>1, <3>1, <3>2
  <2> QED BY <2>1, <2>2 DEF Kinded
<1>5. ASSUME UNCHANGED <<op, built>> PROVE op' \in [Handlers -> Ops] /\ Kinded'
  BY <1>1, <1>5 DEF Kinded
<1>6. ASSUME NEW h \in Handlers, Remember(h) PROVE op' \in [Handlers -> Ops] /\ Kinded'
  <2>1. ASSUME NEW m \in Ids, NEW t \in Tiers, Go(h, "look", m, t, {}), UNCHANGED built
        PROVE  op' \in [Handlers -> Ops] /\ Kinded'
    BY <1>2, <2>1, GoLook
  <2>2. CASE RememberImmediate(h)
    <3>1. made < MaxMemories /\ Go(h, "look", made + 1, "immediate", {}) /\ UNCHANGED built
      BY <2>2, ImmediateParts DEF Searchers
    <3>2. made + 1 \in Ids
      BY <3>1, NewMemory DEF Typed
    <3> QED BY <1>1, <2>1, <3>1, <3>2
  <2>3. CASE RememberShort(h)
    <3>1. /\ op[h] = Idle /\ made < MaxMemories /\ UNCHANGED built
          /\ Go(h, "look", made + 1, "short_term", {}) \/ Go(h, "put", made + 1, "short_term", {})
      BY <2>3, ShortCaches
    <3>2. made + 1 \in Ids
      BY <3>1, NewMemory DEF Typed
    <3>3. CASE Go(h, "put", made + 1, "short_term", {})
      <4>1. op' \in [Handlers -> Ops] /\ Others(h) /\ Kind(op'[h], built)
        BY <3>1, <3>3, NewOp
      <4> QED BY <1>2, <3>1, <4>1
    <3> QED BY <1>1, <2>1, <3>1, <3>2, <3>3
  <2>4. CASE PutShort(h)
    <3>1. /\ op[h].m \in Ids /\ UNCHANGED built
          /\ Go(h, "look", op[h].m, "short_term", {}) \/ Done(h)
      BY <2>4, PutCaches
    <3> QED BY <1>1, <1>3, <2>1, <3>1
  <2>5. CASE RememberLong(h)
    <3>1. op[h] = Idle /\ made < MaxMemories /\ UNCHANGED built
      BY <2>5 DEF RememberLong, Searchers
    <3>2. made + 1 \in Ids
      BY <3>1, NewMemory DEF Typed
    <3>3. CASE Go(h, "look", made + 1, "long_term", {})
      BY <1>1, <2>1, <3>1, <3>2, <3>3
    <3>4. ASSUME NEW target \in Members("long_term"), Go(h, "resolve", made + 1, "long_term", {target})
          PROVE  op' \in [Handlers -> Ops] /\ Kinded'
      <4>1. {target} \in SUBSET Ids
        BY DEF Members
      <4>2. op' \in [Handlers -> Ops] /\ Others(h) /\ Kind(op'[h], built)
        BY <3>1, <3>4, <4>1, NewOp
      <4> QED BY <1>2, <3>1, <4>2
    <3>5. CASE UNCHANGED op
      BY <1>5, <3>1, <3>5
    <3> QED BY <2>5, <3>3, <3>4, <3>5 DEF RememberLong
  <2>6. CASE ResolveAdd(h)
    <3>1. op[h].m \in Ids /\ Go(h, "look", op[h].m, "long_term", {}) /\ UNCHANGED built
      BY <2>6, OpIs DEF ResolveAdd, OnMemory, Searchers
    <3> QED BY <1>1, <2>1, <3>1
  <2>7. CASE ResolveMerge(h) \/ ResolveNone(h) \/ IndexAdd(h)
    BY <1>3, <2>7 DEF ResolveMerge, ResolveNone, IndexAdd, Searchers
  <2>8. CASE Look(h)
    <3>1. UNCHANGED built
      BY <2>8 DEF Look, Searchers
    <3> QED BY <1>2, <2>8, <3>1, LookOp
  <2>9. CASE EvictRaises(h)
    BY <1>5, <2>9 DEF EvictRaises, Searchers
  <2> QED BY <1>6, <2>2, <2>3, <2>4, <2>5, <2>6, <2>7, <2>8, <2>9 DEF Remember
<1>7. ASSUME NEW h \in Handlers, Recall(h) PROVE op' \in [Handlers -> Ops] /\ Kinded'
  <2>1. ASSUME NEW t \in Tiers, Build(h, t) PROVE op' \in [Handlers -> Ops] /\ Kinded'
    <3>1. UNCHANGED built
      BY <2>1 DEF Build, Searchers
    <3> QED BY <1>2, <2>1, <3>1, BuildOp
  <2>2. CASE Register(h)
    <3>1. /\ op' \in [Handlers -> Ops] /\ op'[h] = Idle
          /\ \A g \in Handlers \ {h} : op'[g] = Idle \/ op'[g] = op[g]
          /\ built' = built \cup {op[h].tier}
      BY <2>2, RegisterOp
    <3>2. ASSUME NEW g \in Handlers PROVE Kind(op'[g], built')
      <4>1. CASE op'[g] = Idle
        BY <4>1, KindIdle
      <4>2. CASE op'[g] = op[g]
        BY <1>1, <3>1, <4>2 DEF Kinded, Kind
      <4> QED BY <3>1, <4>1, <4>2
    <3> QED BY <3>1, <3>2 DEF Kinded
  <2> QED BY <1>7, <2>1, <2>2 DEF Recall
<1>8. ASSUME NEW h \in Handlers, Forgetting(h) PROVE op' \in [Handlers -> Ops] /\ Kinded'
  <2>1. UNCHANGED built
    BY <1>8 DEF Forgetting, Forget, ForgetRow, ForgetIndex, Searchers
  <2>2. op' \in [Handlers -> Ops] /\ Others(h) /\ Kind(op'[h], built)
    BY <1>8, ForgetOp, ForgetRowOp, ForgetIndexOp DEF Forgetting
  <2> QED BY <1>2, <2>1, <2>2
<1>9. ASSUME NEW h \in Handlers, Update(h) PROVE op' \in [Handlers -> Ops] /\ Kinded'
  <2>1. ASSUME NEW m \in Ids, NEW t \in Tiers, UpdateGet(h, m, t)
        PROVE  op' \in [Handlers -> Ops] /\ Kinded'
    <3>1. UNCHANGED built
      BY <2>1 DEF UpdateGet, Searchers
    <3> QED BY <1>2, <2>1, <3>1, UpdateGetOp
  <2>2. CASE UpdateCached(h) \/ UpdateLong(h)
    BY <1>4, <2>2 DEF UpdateCached, UpdateLong
  <2> QED BY <1>9, <2>1, <2>2 DEF Update
<1>10. ASSUME NEW h \in Handlers, Decaying(h) PROVE op' \in [Handlers -> Ops] /\ Kinded'
  <2>1. UNCHANGED built
    BY <1>10 DEF Decaying, Decay, DecaySave, DecayForget, Sweep, Searchers
  <2>2. CASE Decay(h) \/ DecaySave(h) \/ DecayForget(h)
    <3>1. op' \in [Handlers -> Ops] /\ Others(h) /\ Kind(op'[h], built)
      BY <2>2, DecayOp, DecaySaveOp, DecayForgetOp
    <3> QED BY <1>2, <2>1, <3>1
  <2>3. CASE Sweep(h)
    BY <1>3, <2>1, <2>3 DEF Sweep
  <2> QED BY <1>10, <2>2, <2>3 DEF Decaying
<1>11. ASSUME NEW h \in Handlers, Clearing(h) PROVE op' \in [Handlers -> Ops] /\ Kinded'
  <2>1. CASE Clear(h) \/ ClearShort(h)
    <3>1. op' \in [Handlers -> Ops] /\ Others(h) /\ Kind(op'[h], built)
      BY <2>1, ClearOp, ClearShortOp
    <3>2. UNCHANGED built
      BY <2>1 DEF Clear, ClearShort, Searchers
    <3> QED BY <1>2, <3>1, <3>2
  <2>2. CASE ClearLong(h)
    BY <1>3, <1>4, <2>2 DEF ClearLong, Searchers
  <2> QED BY <1>11, <2>1, <2>2 DEF Clearing
<1>12. ASSUME NEW h \in Handlers, RollingBack(h) PROVE op' \in [Handlers -> Ops] /\ Kinded'
  <2>1. UNCHANGED built
    BY <1>12 DEF RollingBack, Rollback, RollbackKept, RollbackMerged, Searchers
  <2>2. CASE Rollback(h) \/ RollbackKept(h)
    <3>1. op' \in [Handlers -> Ops] /\ Others(h) /\ Kind(op'[h], built)
      BY <2>2, RollbackOp, RollbackKeptOp
    <3> QED BY <1>2, <2>1, <3>1
  <2>3. CASE RollbackMerged(h)
    BY <1>3, <2>1, <2>3 DEF RollbackMerged
  <2> QED BY <1>12, <2>2, <2>3 DEF RollingBack
<1>13. ASSUME NEW m \in Ids, Age(m) \/ DropRow(m) \/ ExpiredGet(m) \/ \E t \in Tiers : Delete(m, t)
       PROVE  op' \in [Handlers -> Ops] /\ Kinded'
  BY <1>5, <1>13 DEF Age, DropRow, ExpiredGet, Delete, Searchers
<1>14. CASE Restart
  <2>1. op' = [h \in Handlers |-> Idle]
    BY <1>14 DEF Restart
  <2> QED BY <2>1, IdleIs, KindIdle DEF Kinded
<1>15. CASE UNCHANGED vars
  BY <1>5, <1>15 DEF vars
<1>16. ASSUME NEW h \in Handlers, Raise(h) PROVE op' \in [Handlers -> Ops] /\ Kinded'
  <2>1. UNCHANGED built
    BY <1>16 DEF Raise, Searchers
  <2> QED BY <1>2, <1>16, <2>1, RaiseOp
<1> QED BY <1>6, <1>7, <1>8, <1>9, <1>10, <1>11, <1>12, <1>13, <1>14, <1>15, <1>16 DEF Next

\* Every step keeps the types.
LEMMA TypedStep == Typed /\ Shaped /\ Fresh /\ [Next]_vars => Typed' /\ Shaped'
BY CachesStep, RestStep, OpStep DEF Typed

-----------------------------------------------------------------------------
(* Who is alone with a memory.                                             *)

\* A handler that takes up a memory tells those who hold it.
LEMMA AloneTurn ==
  ASSUME Typed, Alone, NEW h \in Handlers, Others(h),
         \A m : Holds(h, m)' /\ m # 0
                  => Holds(h, m) \/ \A g \in Handlers \ {h} : op'[g].alone => op[g].m # m,
         op'[h].alone /\ op'[h].m # 0 => \A k \in Handlers \ {h} : ~Holds(k, op'[h].m)
  PROVE  Alone'
<1> SUFFICES ASSUME NEW g \in Handlers, op'[g].alone, NEW m, m = op'[g].m, m # 0,
                    NEW k \in Handlers \ {g}, Holds(k, m)'
             PROVE  FALSE
  BY DEF Alone, Holds
<1>1. CASE g = h
  <2>1. Waits(k)
    BY <1>1 DEF Others
  <2>2. Holds(k, m)
    BY <2>1 DEF Holds, Waits
  <2> QED BY <1>1, <2>2
<1>2. CASE g # h
  <2>1. op'[g].m = op[g].m /\ op[g].alone
    BY <1>2 DEF Others, Waits
  <2>2. ~Holds(k, m)
    BY <2>1 DEF Alone
  <2>3. CASE k # h
    <3>1. Waits(k)
      BY <2>3 DEF Others
    <3> QED BY <2>1, <2>2, <3>1 DEF Holds, Waits
  <2>4. CASE k = h
    BY <1>2, <2>1, <2>2, <2>4
  <2> QED BY <2>3, <2>4
<1> QED BY <1>1, <1>2

\* What h held before, or less.
LEMMA AloneLess ==
  ASSUME Typed, Alone, NEW h \in Handlers, Others(h),
         \/ op'[h].pc = "idle" /\ op'[h].m = 0 /\ op'[h].ids = {}
         \/ /\ op[h].pc # "idle" /\ op'[h].ids \subseteq op[h].ids
            /\ op'[h].m \in {0, op[h].m} /\ op'[h].alone = op[h].alone
  PROVE  Alone'
<1>1. CASE op'[h].pc = "idle" /\ op'[h].m = 0 /\ op'[h].ids = {}
  BY <1>1, AloneTurn DEF Holds
<1>2. CASE /\ op[h].pc # "idle" /\ op'[h].ids \subseteq op[h].ids
           /\ op'[h].m \in {0, op[h].m} /\ op'[h].alone = op[h].alone
  <2>1. \A m : Holds(h, m)' /\ m # 0 => Holds(h, m)
    BY <1>2 DEF Holds
  <2>2. op'[h].alone /\ op'[h].m # 0 => \A k \in Handlers \ {h} : ~Holds(k, op'[h].m)
    BY <1>2 DEF Alone
  <2> QED BY <2>1, <2>2, AloneTurn
<1> QED BY <1>1, <1>2

\* h takes m and ids up, and the others know.
LEMMA AloneMore ==
  ASSUME Typed, Alone, NEW h \in Handlers, Others(h),
         op'[h].m # 0 /\ op'[h].alone => \A k \in Handlers \ {h} : ~Holds(k, op'[h].m),
         \A g \in Handlers \ {h} : op'[g].alone => op[g].m \notin (op'[h].ids \cup {op'[h].m}) \ {0}
  PROVE  Alone'
<1>1. \A m : Holds(h, m)' /\ m # 0 => m \in (op'[h].ids \cup {op'[h].m}) \ {0}
  BY DEF Holds
<1>2. \A m : Holds(h, m)' /\ m # 0 => \A g \in Handlers \ {h} : op'[g].alone => op[g].m # m
  BY <1>1
<1> QED BY <1>2, AloneTurn

\* Who thinks it is alone with its memory is.
LEMMA AloneStep ==
  ASSUME Typed, Shaped, Alone, [Next]_vars
  PROVE  Alone'
<1>1. ASSUME NEW h \in Handlers, Done(h) PROVE Alone'
  BY <1>1, DoneIs, IdleIs, AloneLess DEF Typed
<1>2. ASSUME UNCHANGED op PROVE Alone'
  BY <1>2 DEF Alone, Holds
<1>3. ASSUME \A g \in Handlers : op'[g] = op[g] \/ op'[g] = Idle PROVE Alone'
  <2>1. \A k \in Handlers : \A m : Holds(k, m)' => Holds(k, m)
    BY <1>3, IdleIs DEF Holds
  <2>2. \A g \in Handlers : op'[g].m # 0 => op'[g] = op[g]
    BY <1>3, IdleIs
  <2> QED BY <2>1, <2>2 DEF Alone
<1>4. ASSUME NEW h \in Handlers, Remember(h) PROVE Alone'
  <2>1. ASSUME NEW m \in Ids, NEW t \in Tiers, Go(h, "look", m, t, {}) PROVE Alone'
    <3>1. /\ Others(h) /\ op'[h].m = m /\ op'[h].ids = {}
          /\ op'[h].alone => \A k \in Handlers \ {h} : ~Holds(k, m)
          /\ \A g \in Handlers \ {h} : op'[g].alone => op[g].m # m
      BY <2>1, GoLook
    <3> QED BY <3>1, AloneMore
  <2>2. "immediate" \in Tiers /\ "short_term" \in Tiers /\ "long_term" \in Tiers
    BY DEF Tiers
  <2>3. CASE RememberImmediate(h)
    <3>1. made < MaxMemories /\ Go(h, "look", made + 1, "immediate", {})
      BY <2>3, ImmediateParts
    <3> QED BY <2>1, <2>2, <3>1, NewMemory DEF Typed
  <2>4. CASE RememberShort(h)
    <3>1. /\ op[h] = Idle /\ made < MaxMemories
          /\ Go(h, "look", made + 1, "short_term", {}) \/ Go(h, "put", made + 1, "short_term", {})
      BY <2>4, ShortCaches
    <3>2. CASE Go(h, "put", made + 1, "short_term", {})
      <4>1. /\ Others(h) /\ op'[h].m = made + 1 /\ op'[h].ids = {}
            /\ op'[h].alone => \A k \in Handlers \ {h} : ~Holds(k, made + 1)
            /\ \A g \in Handlers \ {h} : op'[g].alone => op[g].m \notin {} \cup {made + 1}
        BY <3>1, <3>2, NewOp
      <4> QED BY <4>1, AloneMore
    <3> QED BY <2>1, <2>2, <3>1, <3>2, NewMemory DEF Typed
  <2>5. CASE PutShort(h)
    <3>1. op[h].m \in Ids /\ (Go(h, "look", op[h].m, "short_term", {}) \/ Done(h))
      BY <2>5, PutCaches
    <3> QED BY <1>1, <2>1, <2>2, <3>1
  <2>6. CASE RememberLong(h)
    <3>1. op[h] = Idle /\ made < MaxMemories
      BY <2>6 DEF RememberLong
    <3>2. ASSUME NEW target \in Members("long_term"), Go(h, "resolve", made + 1, "long_term", {target})
          PROVE  Alone'
      <4>1. {target} \in SUBSET Ids
        BY DEF Members
      <4>2. /\ Others(h) /\ op'[h].m = made + 1 /\ op'[h].ids = {target}
            /\ op'[h].alone => \A k \in Handlers \ {h} : ~Holds(k, made + 1)
            /\ \A g \in Handlers \ {h} : op'[g].alone => op[g].m \notin {target} \cup {made + 1}
        BY <3>1, <3>2, <4>1, NewOp
      <4> QED BY <4>2, AloneMore
    <3>3. CASE Go(h, "look", made + 1, "long_term", {})
      BY <2>1, <2>2, <3>1, <3>3, NewMemory DEF Typed
    <3>4. CASE UNCHANGED op
      BY <1>2, <3>4
    <3> QED BY <2>6, <3>2, <3>3, <3>4 DEF RememberLong
  <2>7. CASE ResolveAdd(h)
    <3>1. op[h].m \in Ids /\ Go(h, "look", op[h].m, "long_term", {})
      BY <2>7, OpIs DEF ResolveAdd, OnMemory
    <3> QED BY <2>1, <2>2, <3>1
  <2>8. CASE ResolveMerge(h) \/ ResolveNone(h) \/ IndexAdd(h)
    BY <1>1, <2>8 DEF ResolveMerge, ResolveNone, IndexAdd
  <2>9. CASE Look(h)
    <3>1. /\ Others(h) /\ op[h].pc = "look"
          /\ \/ op'[h] = Idle
             \/ op'[h].m = op[h].m /\ op'[h].ids = op[h].ids /\ op'[h].alone = op[h].alone
      BY <2>9, LookOp
    <3> QED BY <3>1, IdleIs, AloneLess
  <2>10. CASE EvictRaises(h)
    BY <1>2, <2>10 DEF EvictRaises
  <2> QED BY <1>4, <2>3, <2>4, <2>5, <2>6, <2>7, <2>8, <2>9, <2>10 DEF Remember
<1>5. ASSUME NEW h \in Handlers, Recall(h) PROVE Alone'
  <2>1. ASSUME NEW t \in Tiers, Build(h, t) PROVE Alone'
    <3>1. /\ Others(h) /\ op'[h].m = 0 /\ op'[h].ids = Members(t)
          /\ \A g \in Handlers \ {h} : op'[g].alone => op[g].m \notin Members(t)
      BY <2>1, BuildOp
    <3> QED BY <3>1, AloneMore
  <2>2. CASE Register(h)
    BY <1>3, <2>2, RegisterOp
  <2> QED BY <1>5, <2>1, <2>2 DEF Recall
<1>6. ASSUME NEW h \in Handlers, Forgetting(h) PROVE Alone'
  <2>1. ASSUME NEW m \in Ids, Forget(h, m) PROVE Alone'
    <3>1. /\ Others(h) /\ op'[h].m = m /\ op'[h].ids = {}
          /\ op'[h].alone => \A k \in Handlers \ {h} : ~Holds(k, m)
          /\ \A g \in Handlers \ {h} : op'[g].alone => op[g].m # m
      BY <2>1, ForgetOp
    <3> QED BY <3>1, AloneMore
  <2>2. ASSUME op[h].pc # "idle", op'[h] = Back(h), Others(h) PROVE Alone'
    <3>1. op[h] \in Ops /\ (Back(h).alone = op[h].alone \/ Back(h) = Idle)
      BY OpIs DEF Back, Ops
    <3>2. Back(h) = Idle \/ (Back(h).m = 0 /\ Back(h).ids = op[h].ids)
      BY BackIs DEF Typed
    <3> QED BY <2>2, <3>1, <3>2, IdleIs, AloneLess
  <2>3. CASE ForgetRow(h)
    <3>1. /\ Others(h) /\ op[h].pc \in {"forget", "forgot"}
          /\ \/ op'[h].m = op[h].m /\ op'[h].ids = op[h].ids /\ op'[h].alone = op[h].alone
             \/ op'[h] = Back(h)
      BY <2>3, ForgetRowOp
    <3>2. CASE op'[h].m = op[h].m /\ op'[h].ids = op[h].ids /\ op'[h].alone = op[h].alone
      BY <3>1, <3>2, AloneLess
    <3> QED BY <2>2, <3>1, <3>2
  <2>4. CASE ForgetIndex(h)
    BY <2>2, <2>4, ForgetIndexOp
  <2> QED BY <1>6, <2>1, <2>3, <2>4 DEF Forgetting
<1>7. ASSUME NEW h \in Handlers, Update(h) PROVE Alone'
  <2>1. ASSUME NEW m \in Ids, NEW t \in Tiers, UpdateGet(h, m, t) PROVE Alone'
    <3>1. /\ Others(h) /\ op'[h].m = m /\ op'[h].ids = {}
          /\ op'[h].alone => \A k \in Handlers \ {h} : ~Holds(k, m)
          /\ \A g \in Handlers \ {h} : op'[g].alone => op[g].m # m
      BY <2>1, UpdateGetOp
    <3> QED BY <3>1, AloneMore
  <2>2. CASE UpdateCached(h) \/ UpdateLong(h)
    <3>1. DoneInvalid(h)
      BY <2>2 DEF UpdateCached, UpdateLong
    <3> QED BY <1>3, <3>1, DoneInvalidIs DEF Typed
  <2> QED BY <1>7, <2>1, <2>2 DEF Update
<1>8. ASSUME NEW h \in Handlers, Decaying(h) PROVE Alone'
  <2>1. CASE Decay(h)
    <3>1. /\ Others(h) /\ op'[h].m = 0
          /\ \A g \in Handlers \ {h} : op'[g].alone => op[g].m \notin op'[h].ids
      BY <2>1, DecayOp
    <3> QED BY <3>1, AloneMore
  <2>2. CASE DecaySave(h)
    <3>1. PICK m \in op[h].ids :
            /\ op[h].pc = "decay" /\ Others(h) /\ op'[h].m = op[h].m
            /\ op'[h].ids = op[h].ids \ {m} /\ op'[h].alone = op[h].alone
      BY <2>2, DecaySaveOp
    <3> QED BY <3>1, AloneLess
  <2>3. CASE DecayForget(h)
    <3>1. PICK m \in op[h].ids :
            /\ op[h].pc = "decay" /\ Others(h) /\ op'[h].m = m /\ op'[h].ids = op[h].ids \ {m}
            /\ op'[h].alone => \A k \in Handlers \ {h} : ~Holds(k, m)
      BY <2>3, DecayForgetOp
    <3>2. \A e : Holds(h, e)' => Holds(h, e)
      BY <3>1 DEF Holds
    <3> QED BY <3>1, <3>2, AloneTurn
  <2>4. CASE Sweep(h)
    BY <1>1, <2>4 DEF Sweep
  <2> QED BY <1>8, <2>1, <2>2, <2>3, <2>4 DEF Decaying
<1>9. ASSUME NEW h \in Handlers, Clearing(h) PROVE Alone'
  <2>1. CASE Clear(h)
    <3>1. /\ Others(h) /\ op'[h].m = 0 /\ op'[h].ids = InImm
          /\ \A g \in Handlers \ {h} : op'[g].alone => op[g].m \notin InImm
      BY <2>1, ClearOp
    <3> QED BY <3>1, AloneMore
  <2>2. CASE ClearShort(h)
    <3>1. /\ Others(h) /\ op[h].pc = "clear" /\ op'[h].m = 0 /\ op'[h].ids = op[h].ids
      BY <2>2, ClearShortOp
    <3>2. \A e : Holds(h, e)' /\ e # 0 => Holds(h, e)
      BY <3>1 DEF Holds
    <3> QED BY <3>1, <3>2, AloneTurn
  <2>3. CASE ClearLong(h)
    <3>1. DoneInvalid(h) \/ Done(h)
      BY <2>3 DEF ClearLong
    <3> QED BY <1>1, <1>3, <3>1, DoneInvalidIs DEF Typed
  <2> QED BY <1>9, <2>1, <2>2, <2>3 DEF Clearing
<1>10. ASSUME NEW h \in Handlers, RollingBack(h) PROVE Alone'
  <2>1. CASE Rollback(h)
    <3>1. /\ Others(h)
          /\ op'[h].alone => \A k \in Handlers \ {h} : ~Holds(k, op'[h].m)
          /\ \A g \in Handlers \ {h} : op'[g].alone => op[g].m \notin op'[h].ids \cup {op'[h].m}
      BY <2>1, RollbackOp
    <3> QED BY <3>1, AloneMore
  <2>2. CASE RollbackKept(h)
    <3>1. /\ Others(h) /\ op[h].pc = "rollback" /\ op'[h].m = op[h].m
          /\ op'[h].ids = op[h].ids /\ op'[h].alone = op[h].alone
      BY <2>2, RollbackKeptOp
    <3> QED BY <3>1, AloneLess
  <2>3. CASE RollbackMerged(h)
    BY <1>1, <2>3 DEF RollbackMerged
  <2> QED BY <1>10, <2>1, <2>2, <2>3 DEF RollingBack
<1>11. ASSUME NEW m \in Ids, Age(m) \/ DropRow(m) \/ ExpiredGet(m) \/ \E t \in Tiers : Delete(m, t)
       PROVE  Alone'
  BY <1>2, <1>11 DEF Age, DropRow, ExpiredGet, Delete
<1>12. CASE Restart
  <2>1. \A h \in Handlers : op'[h].m = 0
    BY <1>12, IdleIs DEF Restart
  <2> QED BY <2>1 DEF Alone
<1>13. CASE UNCHANGED vars
  BY <1>2, <1>13 DEF vars
<1>14. ASSUME NEW h \in Handlers, Raise(h) PROVE Alone'
  <2>1. /\ Others(h)
        /\ \/ op'[h] = Idle
           \/ op'[h].m = 0 /\ op'[h].ids = {}
    BY <1>14, RaiseOp
  <2>2. CASE op'[h] = Idle
    BY <2>1, <2>2, IdleIs, AloneLess
  <2>3. CASE op'[h].m = 0 /\ op'[h].ids = {}
    BY <2>1, <2>3, AloneMore
  <2> QED BY <2>1, <2>2, <2>3
<1> QED BY <1>4, <1>5, <1>6, <1>7, <1>8, <1>9, <1>10, <1>11, <1>12, <1>13, <1>14 DEF Next

-----------------------------------------------------------------------------
(* What a step of h must respect, for each part of the invariant.  A step  *)
(* of time or of the administration is one of a handler h that does not    *)
(* exist.                                                                  *)

Rests(h) ==
  \A g \in Handlers \ {h} : op'[g] \in Ops /\ (Waits(g) \/ (op'[g] = Idle /\ op[g].pc = "index"))

\* The steps that leave the other handlers where they are, or end their waits.
LEMMA RestsIs ==
  ASSUME op \in [Handlers -> Ops], NEW h
  PROVE  /\ Others(h) => Rests(h)
         /\ h \in Handlers /\ DoneInvalid(h) => Rests(h) /\ op'[h] = Idle
         /\ UNCHANGED op => Others(h) /\ Rests(h)
<1>1. Others(h) => Rests(h)
  BY DEF Others, Rests
<1>2. ASSUME h \in Handlers, DoneInvalid(h) PROVE Rests(h) /\ op'[h] = Idle
  <2>1. /\ op' \in [Handlers -> Ops] /\ op'[h] = Idle
        /\ \A g \in Handlers \ {h} : op'[g] = IF op[g].pc = "index" THEN Idle ELSE op[g]
    BY <1>2, DoneInvalidIs
  <2> QED BY <2>1 DEF Rests, Waits
<1>3. UNCHANGED op => Others(h)
  BY DEF Others, Waits
<1> QED BY <1>1, <1>2, <1>3

\* Another handler takes up nothing.
LEMMA RestsHold ==
  ASSUME NEW h, Rests(h), NEW g \in Handlers \ {h}
  PROVE  \A m : Holds(g, m)' => Holds(g, m)
BY IdleIs DEF Rests, Waits, Holds

\* What nobody knows stays so, but for what h makes.
LEMMA Secrets ==
  ASSUME Typed, Fresh, Pending, NEW h, Rests(h), made' \in {made, made + 1},
         \A m \in Ids : Unseen(m) /\ (h \in Handlers => ~Holds(h, m)) /\ (made' = made \/ m # made + 1)
                          => Unseen(m)' /\ (h \in Handlers => ~Holds(h, m)'),
         h \in Handlers /\ op'[h].pc \in {"put", "resolve"} =>
           \E m \in Ids : /\ m = op'[h].m /\ m \notin op'[h].ids
                         /\ Unseen(m)' /\ \A k \in Handlers \ {h} : ~Holds(k, m)
  PROVE  Fresh' /\ Pending'
<1>0. made \in Nat /\ op \in [Handlers -> Ops]
  BY MemoryAssumption DEF Typed, RestTyped
<1>1. Fresh'
  <2> SUFFICES ASSUME NEW m \in Ids, m > made' PROVE Unseen(m)' /\ \A k \in Handlers : ~Holds(k, m)'
    BY DEF Fresh, Ids
  <2>1. m > made /\ (made' = made \/ m # made + 1)
    BY <1>0 DEF Ids
  <2>2. Unseen(m) /\ \A k \in Handlers : ~Holds(k, m)
    BY <2>1 DEF Fresh
  <2>3. Unseen(m)' /\ (h \in Handlers => ~Holds(h, m)')
    BY <2>1, <2>2
  <2> QED BY <2>2, <2>3, RestsHold
<1>2. Pending'
  <2> SUFFICES ASSUME NEW g \in Handlers, op'[g].pc \in {"put", "resolve"}, NEW m, m = op'[g].m
               PROVE  Unseen(m)' /\ m \notin op'[g].ids /\ \A k \in Handlers \ {g} : ~Holds(k, m)'
    BY DEF Pending, Unseen, Holds
  <2>1. CASE g = h
    BY <2>1, RestsHold
  <2>2. CASE g # h
    <3>1. op'[g].pc = op[g].pc /\ op'[g].m = op[g].m /\ op'[g].ids = op[g].ids
      BY <2>2, IdleIs DEF Rests, Waits
    <3>2. m \in Ids
      BY <3>1, OpIs DEF OnMemory
    <3>3. Unseen(m) /\ m \notin op[g].ids /\ \A k \in Handlers \ {g} : ~Holds(k, m)
      BY <3>1 DEF Pending
    <3>4. Holds(g, m)
      BY <3>1 DEF Holds
    <3>5. m # made + 1
      BY <1>0, <3>2, <3>4 DEF Fresh
    <3>6. Unseen(m)' /\ (h \in Handlers => ~Holds(h, m)')
      BY <2>2, <3>2, <3>3, <3>5
    <3>7. \A k \in Handlers \ {g} : ~Holds(k, m)'
      BY <3>3, <3>6, RestsHold
    <3> QED BY <3>1, <3>3, <3>6, <3>7
  <2> QED BY <2>1, <2>2
<1> QED BY <1>1, <1>2

\* Only what h makes is said to be in a tier it was not said to be in, or what
\* is torn from its cache in the long-term tier.
LEMMA OneTierTurn ==
  ASSUME Typed, Fresh, OneTier, NEW h, Rests(h), NEW u, torn \subseteq torn',
         \A m \in Ids : \A t \in Tiers :
           /\ row'[m] = t \/ (t = "immediate" /\ m \in InImm') \/ (t = "short_term" /\ m \in InSt')
                => Said(m, t) \/ (m > made /\ t = u) \/ (t = "long_term" /\ m \in torn')
           /\ h \in Handlers /\ Claims(op[h], m, t)'
                => Said(m, t) \/ (m > made /\ t = u) \/ (t = "long_term" /\ m \in torn'),
         \A a \in audit' \ audit : \A m \in {a[1], a[2]} : m \in Ids => Said(m, "long_term")
  PROVE  OneTier'
<1>1. ASSUME NEW m \in Ids, NEW t \in Tiers, Said(m, t)'
      PROVE  Said(m, t) \/ (m > made /\ t = u) \/ (t = "long_term" /\ m \in torn')
  <2>1. CASE row'[m] = t \/ (t = "immediate" /\ m \in InImm') \/ (t = "short_term" /\ m \in InSt')
    BY <2>1
  <2>2. CASE t = "long_term" /\ \E a \in audit' : m \in {a[1], a[2]}
    BY <2>2 DEF Said
  <2>3. ASSUME NEW g \in Handlers, Claims(op[g], m, t)'
        PROVE  Said(m, t) \/ (m > made /\ t = u) \/ (t = "long_term" /\ m \in torn')
    <3>1. CASE g = h
      BY <2>3, <3>1
    <3>2. CASE g # h
      <4>1. Claims(op[g], m, t)
        BY <2>3, <3>2, IdleIs DEF Rests, Waits, Claims
      <4> QED BY <4>1 DEF Said
    <3> QED BY <3>1, <3>2
  <2> QED BY <1>1, <2>1, <2>2, <2>3 DEF Said
<1>2. ASSUME NEW m \in Ids, m > made, NEW t \in Tiers PROVE ~Said(m, t)
  <2>1. Unseen(m) /\ \A k \in Handlers : ~Holds(k, m)
    BY <1>2 DEF Fresh
  <2>2. t # "none"
    BY DEF Tiers
  <2>3. \A k \in Handlers : ~Claims(op[k], m, t)
    BY <2>1, IdleIs, OpIs DEF Claims, Holds, Kind
  <2> QED BY <2>1, <2>2, <2>3 DEF Said, Unseen
<1>3. ASSUME NEW m \in Ids, NEW t \in Tiers, NEW w \in Tiers, Said(m, t)', Said(m, w)'
      PROVE  t = w \/ (m \in torn' /\ "long_term" \in {t, w})
  <2>1. /\ Said(m, t) \/ (m > made /\ t = u) \/ (t = "long_term" /\ m \in torn')
        /\ Said(m, w) \/ (m > made /\ w = u) \/ (w = "long_term" /\ m \in torn')
    BY <1>1, <1>3
  <2>2. CASE Said(m, t) /\ Said(m, w)
    BY <2>2 DEF OneTier
  <2> QED BY <1>2, <2>1, <2>2
<1> QED BY <1>3 DEF OneTier

\* What comes back, in a row or a cache, is known to be astray and held by h.
LEMMA LeavingTurn ==
  ASSUME Typed, Leaving, Alone, NEW h, Rests(h), stray \subseteq stray', torn \subseteq torn',
         \A m \in Ids : m \in InImm' \cup InSt' /\ m \notin InImm \cup InSt
             => \/ m \notin doomed /\ \A k \in Handlers \ {h} : ~Holds(k, m)
                \/ m \in stray' \cap torn' /\ h \in Handlers /\ Holds(h, m),
         \A m \in Ids : row'[m] # "none" /\ row[m] = "none"
             => \/ m \in InImm \cup InSt
                \/ \A k \in Handlers \ {h} : ~Holds(k, m)
                \/ m \in stray' /\ h \in Handlers /\ Holds(h, m),
         \A m \in Ids : m \in doomed' /\ m \in InImm' \cup InSt' => m \in doomed \/ m \in stray' \cap torn',
         h \in Handlers /\ op'[h].pc \in {"forget", "forgot", "unindex"} =>
           \E m \in Ids : /\ m = op'[h].m
                          /\ m \in InImm' \cup InSt' => m \in stray' \cap torn' /\ ~op'[h].alone
                          /\ op'[h].pc = "unindex" /\ row'[m] # "none" => m \in stray' /\ ~op'[h].alone,
         doomed' \subseteq Ids
  PROVE  Leaving'
<1>1. ASSUME NEW m \in Ids, m \in doomed', m \in InImm' \cup InSt' PROVE m \in stray' \cap torn'
  BY <1>1 DEF Leaving
<1>2. ASSUME NEW g \in Handlers, g # h, op'[g].pc \in {"forget", "forgot", "unindex"}, NEW m, m = op'[g].m
      PROVE  /\ op'[g].pc = op[g].pc /\ op'[g].m = op[g].m /\ (op'[g].alone => op[g].alone)
             /\ m \in Ids /\ Holds(g, m) /\ m # 0
             /\ h \in Handlers /\ Holds(h, m) => ~op'[g].alone
  <2>1. op'[g].pc = op[g].pc /\ op'[g].m = op[g].m /\ (op'[g].alone => op[g].alone)
    BY <1>2, IdleIs DEF Rests, Waits
  <2>2. m \in Ids /\ Holds(g, m) /\ m # 0
    BY <1>2, <2>1, OpIs, NamesIs DEF OnMemory, Holds
  <2>3. h \in Handlers /\ op[g].alone => ~Holds(h, m)
    BY <1>2, <2>1, <2>2, Zenon DEF Alone
  <2> QED BY <2>1, <2>2, <2>3
<1>3. ASSUME NEW g \in Handlers, op'[g].pc \in {"forget", "forgot", "unindex"}, NEW m, m = op'[g].m,
             m \in InImm' \cup InSt'
      PROVE  m \in stray' \cap torn' /\ ~op'[g].alone
  <2>1. CASE g = h
    BY <1>3, <2>1
  <2>2. CASE g # h
    <3>1. /\ op'[g].pc = op[g].pc /\ op'[g].m = op[g].m /\ (op'[g].alone => op[g].alone)
          /\ m \in Ids /\ Holds(g, m)
          /\ h \in Handlers /\ Holds(h, m) => ~op'[g].alone
      BY <1>2, <1>3, <2>2
    <3>2. CASE m \in InImm \cup InSt
      <4>1. m \in stray \cap torn /\ ~op[g].alone
        BY <1>3, <3>1, <3>2 DEF Leaving
      <4> QED BY <3>1, <4>1
    <3> QED BY <1>3, <2>2, <3>1, <3>2
  <2> QED BY <2>1, <2>2
<1>4. ASSUME NEW g \in Handlers, op'[g].pc = "unindex", NEW m, m = op'[g].m, row'[m] # "none"
      PROVE  m \in stray' /\ ~op'[g].alone
  <2>1. CASE g = h
    BY <1>4, <2>1
  <2>2. CASE g # h
    <3>1. /\ op'[g].pc = op[g].pc /\ op'[g].m = op[g].m /\ (op'[g].alone => op[g].alone)
          /\ m \in Ids /\ Holds(g, m)
          /\ h \in Handlers /\ Holds(h, m) => ~op'[g].alone
      BY <1>2, <1>4, <2>2
    <3>2. CASE m \in InImm \cup InSt \/ row[m] # "none"
      <4>1. m \in stray /\ ~op[g].alone
        BY <1>4, <3>1, <3>2 DEF Leaving
      <4> QED BY <3>1, <4>1
    <3> QED BY <1>4, <2>2, <3>1, <3>2
  <2> QED BY <2>1, <2>2
<1> QED BY <1>1, <1>3, <1>4 DEF Leaving

\* Who looks at the searchers finds a searcher that is being built to have the
\* memory, or takes it for astray.
Looked(h) ==
  h \in Handlers /\ op[h].pc = "look" =>
    \A g \in Handlers : op[g].pc = "build" /\ op[g].tier = op[h].tier => op[h].m \in op[g].ids \cup stray'

\* The tier of a searcher that is being built gains only what is accounted for.
LEMMA CollectedTurn ==
  ASSUME Typed, Collected, NEW h, Rests(h), stray \subseteq stray', Looked(h),
         \A t \in Tiers : (\E g \in Handlers \ {h} : op[g].pc = "build" /\ op[g].tier = t)
                            => \A m \in Members(t)' : m \in Members(t) \cup stray' \/ Looks(m, t)',
         h \in Handlers /\ op'[h].pc = "build" =>
           \A t : t = op'[h].tier => \A m \in Members(t)' : m \in op'[h].ids \cup stray' \/ Looks(m, t)'
  PROVE  Collected'
<1> SUFFICES ASSUME NEW g \in Handlers, op'[g].pc = "build", NEW t, t = op'[g].tier, NEW m \in Members(t)'
             PROVE  m \in op'[g].ids \cup stray' \/ Looks(m, t)'
  BY DEF Collected
<1>1. CASE g = h
  BY <1>1
<1>2. CASE g # h
  <2>1. op'[g].pc = op[g].pc /\ op'[g].tier = op[g].tier /\ op'[g].ids = op[g].ids
    BY <1>2, IdleIs DEF Rests, Waits
  <2>2. t \in Tiers /\ (m \in Members(t) => m \in op[g].ids \cup stray \/ Looks(m, t))
    BY <2>1, OpIs DEF Collected, Kind
  <2>3. ASSUME Looks(m, t) PROVE m \in op[g].ids \cup stray' \/ Looks(m, t)'
    <3>1. PICK k \in Handlers : op[k].pc = "look" /\ op[k].m = m /\ op[k].tier = t
      BY <2>3 DEF Looks
    <3>2. CASE k = h
      BY <2>1, <3>1, <3>2 DEF Looked
    <3>3. CASE k # h
      <4>1. op'[k].pc = "look" /\ op'[k].m = m /\ op'[k].tier = t
        BY <3>1, <3>3 DEF Rests, Waits
      <4> QED BY <4>1 DEF Looks
    <3> QED BY <3>2, <3>3
  <2> QED BY <1>2, <2>1, <2>2, <2>3
<1> QED BY <1>1, <1>2

\* A searcher lacks what it lacked, less what h adds.
LEMMA SearchedTurn ==
  ASSUME Typed, Searched, NEW h, Others(h), stray \subseteq stray',
         \A t \in built' : \A m \in Members(t)' :
           \/ index'[t][m] > 0 \/ m \in stray' \/ Looks(m, t)' \/ Adds(m, t)'
           \/ /\ t \in built /\ m \in Members(t) /\ index'[t][m] = index[t][m]
              /\ h \in Handlers /\ op[h].pc \in {"look", "index"} => op[h].m # m \/ op[h].tier # t
  PROVE  Searched'
<1> SUFFICES ASSUME NEW t \in built', NEW m \in Members(t)', ~(index'[t][m] > 0), m \notin stray'
             PROVE  Looks(m, t)' \/ Adds(m, t)'
  BY DEF Searched
<1>1. CASE /\ t \in built /\ m \in Members(t) /\ index'[t][m] = index[t][m]
           /\ h \in Handlers /\ op[h].pc \in {"look", "index"} => op[h].m # m \/ op[h].tier # t
  <2>1. Looks(m, t) \/ Adds(m, t)
    BY <1>1 DEF Searched
  <2>2. PICK g \in Handlers : op[g].pc \in {"look", "index"} /\ op[g].m = m /\ op[g].tier = t
    BY <2>1 DEF Looks, Adds
  <2>3. op'[g].pc = op[g].pc /\ op'[g].m = m /\ op'[g].tier = t
    BY <1>1, <2>2 DEF Others, Waits
  <2> QED BY <2>2, <2>3 DEF Looks, Adds
<1> QED BY <1>1

\* A tier that gains nothing stays searchable.
LEMMA SearchedKept ==
  ASSUME Typed, Searched, NEW h, Others(h), UNCHANGED <<built, index>>, stray \subseteq stray',
         h \in Handlers => op[h].pc \notin {"look", "index"},
         \A t \in Tiers : Members(t)' \subseteq Members(t)
  PROVE  Searched'
<1>1. \A t \in built' : t \in Tiers /\ t \in built
  BY DEF Typed, RestTyped
<1> QED BY <1>1, SearchedTurn

\* What is forgotten is not stored, cached, indexed or taken up again.
LEMMA ForgottenTurn ==
  ASSUME Typed, Forgotten, NEW h, Rests(h), gone' \subseteq gone,
         \A m \in gone' : /\ row'[m] = "none" /\ m \notin InImm' \cup InSt'
                          /\ \A t \in Tiers : index'[t][m] > 0 => m \in twice'
                          /\ h \in Handlers => /\ m \notin op'[h].ids
                                               /\ op'[h].m = m => op'[h].pc \in {"rollback", "rebuild"}
  PROVE  Forgotten'
<1> SUFFICES ASSUME NEW m \in gone', NEW g \in Handlers
             PROVE  m \notin op'[g].ids /\ (op'[g].m = m => op'[g].pc \in {"rollback", "rebuild"})
  BY DEF Forgotten
<1>1. CASE g = h
  BY <1>1
<1>2. CASE g # h
  <2>1. m \notin op[g].ids /\ (op[g].m = m => op[g].pc \in {"rollback", "rebuild"})
    BY DEF Forgotten
  <2>2. m # 0
    BY NamesIs DEF Typed, RestTyped
  <2> QED BY <1>2, <2>1, <2>2, IdleIs DEF Rests, Waits
<1> QED BY <1>1, <1>2

-----------------------------------------------------------------------------
(* How far the caches go.                                                  *)

\* There is at most one update for each handler.
LEMMA UpdatingFinite ==
  ASSUME NEW s
  PROVE  IsFiniteSet(Updating(s)) /\ Cardinality(Updating(s)) <= Cardinality(Handlers)
         /\ Cardinality(Updating(s)) \in Nat /\ Cardinality(Handlers) \in Nat
<1> DEFINE G == {g \in Handlers : Updater(g, s)}
           f == [g \in G |-> op[g].m]
<1>1. IsFiniteSet(Handlers)
  BY MemoryAssumption
<1>2. IsFiniteSet(G) /\ Cardinality(G) <= Cardinality(Handlers)
  BY <1>1, FS_Subset
<1>3. f \in Surjection(G, Updating(s))
  BY DEF Surjection, Updating, Updater
<1>4. IsFiniteSet(Updating(s)) /\ Cardinality(Updating(s)) <= Cardinality(G)
  BY <1>2, <1>3, FS_Surjection
<1>5. Cardinality(Updating(s)) \in Nat /\ Cardinality(G) \in Nat /\ Cardinality(Handlers) \in Nat
  BY <1>1, <1>2, <1>4, FS_CardinalityType
<1> QED BY <1>2, <1>4, <1>5

\* The same after a step.
LEMMA UpdatingFiniteNext ==
  ASSUME NEW s
  PROVE  IsFiniteSet(Updating(s)') /\ Cardinality(Updating(s)') <= Cardinality(Handlers)
         /\ Cardinality(Updating(s)') \in Nat
<1> DEFINE G == {g \in Handlers : op'[g].pc = "update" /\ op'[g].tier = "immediate" /\ SessionOf[op'[g].m] = s}
           f == [g \in G |-> op'[g].m]
<1>1. IsFiniteSet(Handlers)
  BY MemoryAssumption
<1>2. IsFiniteSet(G) /\ Cardinality(G) <= Cardinality(Handlers)
  BY <1>1, FS_Subset
<1>3. f \in Surjection(G, Updating(s)')
  BY DEF Surjection, Updating, Updater
<1>4. IsFiniteSet(Updating(s)') /\ Cardinality(Updating(s)') <= Cardinality(G)
  BY <1>2, <1>3, FS_Surjection
<1>5. Cardinality(Updating(s)') \in Nat /\ Cardinality(G) \in Nat /\ Cardinality(Handlers) \in Nat
  BY <1>1, <1>2, <1>4, FS_CardinalityType
<1> QED BY <1>2, <1>4, <1>5

\* A step adds nothing to a cache and its updates, or leaves the cache within its limit.
LEMMA BoundedTurn ==
  ASSUME Typed, Shaped, CachesTyped', Shaped', Bounded,
         \A s \in Sessions :
           \/ ToSet(imm'[s]) \cup Updating(s)' \subseteq ToSet(imm[s]) \cup Updating(s)
           \/ Len(imm'[s]) <= MaxSize
  PROVE  Bounded'
<1> SUFFICES ASSUME NEW s \in Sessions
             PROVE  Cardinality(ToSet(imm'[s]) \cup Updating(s)') <= MaxSize + Cardinality(Handlers)
  BY DEF Bounded
<1>1. /\ imm[s] \in Seq(Ids) /\ IsInjective(imm[s])
      /\ imm'[s] \in Seq(Ids) /\ IsInjective(imm'[s])
  BY DEF Typed, CachesTyped, Shaped
<1>2. IsFiniteSet(ToSet(imm[s]))
  BY <1>1, LengthIs
<1>3. IsFiniteSet(ToSet(imm'[s])) /\ Cardinality(ToSet(imm'[s])) = Len(imm'[s]) /\ Len(imm'[s]) \in Nat
  BY <1>1, LengthIs
<1>4. CASE ToSet(imm'[s]) \cup Updating(s)' \subseteq ToSet(imm[s]) \cup Updating(s)
  <2> DEFINE A == ToSet(imm[s]) \cup Updating(s)
             B == ToSet(imm'[s]) \cup Updating(s)'
  <2>1. IsFiniteSet(A) /\ Cardinality(A) <= MaxSize + Cardinality(Handlers)
    BY <1>2, UpdatingFinite, FS_Union DEF Bounded
  <2>2. B \in SUBSET A
    BY <1>4
  <2> HIDE DEF A, B
  <2>3. IsFiniteSet(B) /\ Cardinality(B) <= Cardinality(A)
    BY <2>1, <2>2, FS_Subset
  <2>4. Cardinality(A) \in Nat /\ Cardinality(B) \in Nat /\ Cardinality(Handlers) \in Nat
    BY <2>1, <2>3, FS_CardinalityType, UpdatingFinite
  <2>5. Cardinality(B) <= MaxSize + Cardinality(Handlers)
    BY <2>1, <2>3, <2>4, MemoryAssumption
  <2> QED BY <2>5 DEF B
<1>5. CASE Len(imm'[s]) <= MaxSize
  <2> DEFINE A == ToSet(imm'[s])
             B == Updating(s)'
  <2>1. /\ IsFiniteSet(A) /\ IsFiniteSet(B)
        /\ Cardinality(A) <= MaxSize /\ Cardinality(B) <= Cardinality(Handlers)
    BY <1>3, <1>5, UpdatingFiniteNext
  <2> HIDE DEF A, B
  <2>2. Cardinality(A \cup B) = Cardinality(A) + Cardinality(B) - Cardinality(A \cap B)
        /\ IsFiniteSet(A \cup B)
    BY <2>1, FS_Union
  <2>3. A \cap B \in SUBSET A
    OBVIOUS
  <2>4. IsFiniteSet(A \cap B)
    BY <2>1, <2>3, FS_Subset
  <2>5. /\ Cardinality(A) \in Nat /\ Cardinality(B) \in Nat /\ Cardinality(Handlers) \in Nat
        /\ Cardinality(A \cap B) \in Nat /\ Cardinality(A \cup B) \in Nat
    BY <2>1, <2>2, <2>4, FS_CardinalityType, UpdatingFinite
  <2>6. Cardinality(A \cup B) <= MaxSize + Cardinality(Handlers)
    BY <2>1, <2>2, <2>5, MemoryAssumption
  <2> QED BY <2>6 DEF A, B
<1> QED BY <1>4, <1>5

\* Nobody begins an update, and the caches get nothing.
LEMMA BoundedFewer ==
  ASSUME Typed, Shaped, CachesTyped', Shaped', Bounded, NEW h, Rests(h),
         h \in Handlers => op'[h].pc # "update",
         \A s \in Sessions : ToSet(imm'[s]) \subseteq ToSet(imm[s])
                               \cup {m \in Ids : h \in Handlers /\ Updater(h, s) /\ op[h].m = m}
                             \/ Len(imm'[s]) <= MaxSize
  PROVE  Bounded'
<1>1. ASSUME NEW s \in Sessions
      PROVE  Updating(s)' \subseteq Updating(s)
  <2> SUFFICES ASSUME NEW g \in Handlers, op'[g].pc = "update", op'[g].tier = "immediate", SessionOf[op'[g].m] = s
               PROVE  op'[g].m \in Updating(s)
    BY DEF Updating, Updater
  <2>1. op'[g].pc = op[g].pc /\ op'[g].m = op[g].m /\ op'[g].tier = op[g].tier
    BY IdleIs DEF Rests, Waits
  <2> QED BY <2>1 DEF Updating, Updater
<1>2. ASSUME NEW s \in Sessions
      PROVE  {m \in Ids : h \in Handlers /\ Updater(h, s) /\ op[h].m = m} \subseteq Updating(s)
  BY DEF Updating
<1> QED BY <1>1, <1>2, BoundedTurn

-----------------------------------------------------------------------------
(* Steps that store nothing.                                               *)

Core ==
  /\ Bounded /\ Fresh /\ Pending /\ OneTier /\ Leaving /\ Collected /\ Searched /\ Copies
  /\ Forgotten /\ RowsCached /\ CachedDurable

Inv == Typed /\ Shaped /\ Alone /\ Core

\* The parts of the invariant.
LEMMA InvIs ==
  ASSUME Inv
  PROVE  /\ Typed /\ Shaped /\ Alone /\ Bounded /\ Fresh /\ Pending /\ OneTier /\ Leaving /\ Collected
         /\ Searched /\ Copies /\ Forgotten /\ RowsCached /\ CachedDurable
         /\ CachesTyped /\ RestTyped /\ op \in [Handlers -> Ops]
         /\ row \in [Ids -> Tiers \cup {"none"}] /\ InImm \subseteq Ids /\ InSt \subseteq Ids
         /\ index \in [Tiers -> [Ids -> Nat]] /\ built \subseteq Tiers
BY InImmIs DEF Inv, Core, Typed, RestTyped

\* What recall searches, tier by tier.
LEMMA MembersAre ==
  /\ Members("immediate") = InImm /\ Members("immediate")' = InImm'
  /\ Members("short_term") = InSt \ stale /\ Members("short_term")' = InSt' \ stale'
  /\ Members("long_term") = {m \in Ids : row[m] = "long_term"}
  /\ Members("long_term")' = {m \in Ids : row'[m] = "long_term"}
  /\ \A t \in Tiers : t \in {"immediate", "short_term", "long_term"}
BY DEF Members, Tiers

\* What can be read is in its tier, and known.
LEMMA MembersSaid ==
  ASSUME Typed
  PROVE  \A t \in Tiers : \A m \in Members(t) : m \in Ids /\ Said(m, t) /\ ~Unseen(m)
BY InImmIs, MembersAre DEF Typed, Said, Unseen

\* h takes up nothing that is not stored.
Modest(h) ==
  h \in Handlers =>
    /\ op'[h].pc \notin {"put", "resolve"}
    /\ \A m \in Ids : Holds(h, m)' => Holds(h, m) \/ ~Unseen(m)
    /\ \A m \in Ids : \A t \in Tiers : Claims(op[h], m, t)' => Said(m, t)
    /\ op'[h].pc \in {"forget", "forgot", "unindex"} =>
         \E m \in Ids : /\ m = op'[h].m
                        /\ m \in InImm' \cup InSt' => m \in stray' \cap torn' /\ ~op'[h].alone
                        /\ op'[h].pc = "unindex" /\ row'[m] # "none" => m \in stray' /\ ~op'[h].alone
    /\ op'[h].pc = "build" => \A t \in Tiers : t = op'[h].tier => Members(t) \subseteq op'[h].ids
    /\ op'[h].pc = "update" => \A m \in Ids : m = op'[h].m /\ op'[h].tier = "immediate" => m \in InImm

\* A handler that comes to rest holds nothing it should not.
LEMMA ModestIs ==
  ASSUME Typed, NEW h, h \in Handlers => op'[h] = Idle
  PROVE  Modest(h)
BY IdleIs, NamesIs DEF Modest, Holds, Claims

\* What is forgotten stays out of the rows, the caches, the searchers and of h.
Remains(h) ==
  /\ gone' \subseteq gone
  /\ \A m \in gone' : /\ row'[m] = "none" /\ m \notin InImm' \cup InSt'
                      /\ \A t \in Tiers : index'[t][m] > 0 => m \in twice'
                      /\ h \in Handlers => /\ m \notin op'[h].ids
                                           /\ op'[h].m = m => op'[h].pc \in {"rollback", "rebuild"}

\* A step that caches nothing new and claims no new memory; it may fail to
\* store one.
LEMMA NothingNew ==
  ASSUME Inv, Typed', Shaped', NEW h, Rests(h), Modest(h), Looked(h), Searched', Copies',
         Remains(h) \/ Forgotten',
         UNCHANGED <<audit, restarts>>, made' \in {made, made + 1}, stray \subseteq stray', torn \subseteq torn',
         InImm' \subseteq InImm, InSt' \subseteq InSt, stale \subseteq stale',
         \A s \in Sessions : ToSet(imm'[s]) \subseteq ToSet(imm[s]),
         \A m \in Ids : row'[m] \in {row[m], "none"},
         doomed' \subseteq doomed \cup ((InImm \cup InSt) \ (InImm' \cup InSt')),
         \A m \in InImm' \cup InSt' : row'[m] = row[m] \/ m \in torn',
         \A m \in Ids : row'[m] = "immediate" /\ m \in InImm \cup doomed => m \in InImm' \cup doomed' \cup torn',
         gone' \subseteq gone \cup {m \in Ids : h \in Handlers /\ Holds(h, m)}
  PROVE  Core'
<1>1. /\ Typed /\ Shaped /\ Alone /\ Bounded /\ Fresh /\ Pending /\ OneTier /\ Leaving /\ Collected
      /\ RowsCached /\ CachedDurable /\ Forgotten
  BY DEF Inv, Core
<1>2. Fresh' /\ Pending'
  <2>1. \A m \in Ids : Unseen(m) /\ (h \in Handlers => ~Holds(h, m)) => Unseen(m)'
    BY DEF Unseen
  <2> QED BY <1>1, <2>1, Secrets DEF Modest
<1>3. OneTier'
  <2>1. \A m \in Ids : \A t \in Tiers :
          row'[m] = t \/ (t = "immediate" /\ m \in InImm') \/ (t = "short_term" /\ m \in InSt') => Said(m, t)
    BY DEF Said, Tiers
  <2>2. \A m \in Ids : \A t \in Tiers : h \in Handlers /\ Claims(op[h], m, t)' => Said(m, t)
    BY DEF Modest
  <2>3. audit' \ audit = {}
    OBVIOUS
  <2> QED BY <1>1, <2>1, <2>2, <2>3, OneTierTurn
<1>4. Leaving'
  <2>1. doomed' \subseteq Ids
    BY DEF Typed, RestTyped
  <2>2. \A m \in Ids : ~(m \in InImm' \cup InSt' /\ m \notin InImm \cup InSt) /\ ~(row'[m] # "none" /\ row[m] = "none")
    OBVIOUS
  <2>3. \A m \in Ids : m \in doomed' /\ m \in InImm' \cup InSt' => m \in doomed
    OBVIOUS
  <2> QED BY <1>1, <2>1, <2>2, <2>3, LeavingTurn DEF Modest
<1>5. \A t \in Tiers : Members(t)' \subseteq Members(t)
  BY MembersAre, NamesIs
<1>6. Collected'
  <2>1. h \in Handlers /\ op'[h].pc = "build" => op'[h].tier \in Tiers
    BY DEF Typed, Kinded, Kind
  <2>2. h \in Handlers /\ op'[h].pc = "build" =>
          \A t : t = op'[h].tier => \A m \in Members(t)' : m \in op'[h].ids
    BY <1>5, <2>1 DEF Modest
  <2>3. \A t \in Tiers : \A m \in Members(t)' : m \in Members(t)
    BY <1>5
  <2> QED BY <1>1, <2>2, <2>3, CollectedTurn
<1>7. Forgotten'
  BY <1>1, ForgottenTurn DEF Remains
<1>8. CachedDurable'
  BY <1>1 DEF CachedDurable
<1>9. RowsCached'
  BY <1>1 DEF RowsCached
<1>10. Bounded'
  <2>1. CASE h \in Handlers => op'[h].pc # "update"
    BY <1>1, <2>1, BoundedFewer DEF Typed
  <2>2. CASE h \in Handlers /\ op'[h].pc = "update"
    <3>1. ASSUME NEW s \in Sessions
          PROVE  Updating(s)' \subseteq Updating(s) \cup ToSet(imm[s])
      <4> SUFFICES ASSUME NEW g \in Handlers, op'[g].pc = "update", op'[g].tier = "immediate", SessionOf[op'[g].m] = s
                   PROVE  op'[g].m \in Updating(s) \cup ToSet(imm[s])
        BY DEF Updating, Updater
      <4>1. CASE g # h
        <5>1. op'[g].pc = op[g].pc /\ op'[g].m = op[g].m /\ op'[g].tier = op[g].tier
          BY <4>1, IdleIs DEF Rests, Waits
        <5> QED BY <5>1 DEF Updating, Updater
      <4>2. CASE g = h
        <5>1. PICK m \in Ids : m = op'[g].m
          BY DEF Typed, Kinded, Kind, OnMemory, Ops, Ids
        <5>2. m \in InImm
          BY <2>2, <4>2, <5>1 DEF Modest
        <5>3. m \in ToSet(imm[SessionOf[m]])
          BY <1>1, <5>2, SessionIs DEF Typed
        <5> QED BY <5>1, <5>3
      <4> QED BY <4>1, <4>2
    <3> QED BY <1>1, <3>1, BoundedTurn DEF Typed
  <2> QED BY <2>1, <2>2
<1> QED BY <1>2, <1>3, <1>4, <1>6, <1>7, <1>8, <1>9, <1>10 DEF Core

\* What is cached in one tier is not in the other, and unless it is torn its row
\* is of its tier; what has gone is nowhere.
LEMMA TiersApart ==
  ASSUME Inv
  PROVE  /\ \A m \in InImm : /\ m \notin InSt /\ row[m] # "short_term"
                             /\ m \notin torn => row[m] \in {"none", "immediate"}
         /\ \A m \in InSt : /\ row[m] # "immediate"
                            /\ m \notin torn => row[m] \in {"none", "short_term"}
         /\ \A m \in gone : /\ row[m] = "none" /\ m \notin InImm \cup InSt
                            /\ \A t \in Tiers : m \notin Members(t)
<1>1. Typed /\ OneTier /\ Forgotten
  BY DEF Inv, Core
<1>2. /\ "immediate" \in Tiers /\ "short_term" \in Tiers /\ InImm \subseteq Ids /\ InSt \subseteq Ids
      /\ row \in [Ids -> Tiers \cup {"none"}]
  BY <1>1, InImmIs, NamesIs DEF Typed, RestTyped
<1>3. \A m \in InImm : Said(m, "immediate")
  BY DEF Said
<1>4. \A m \in InSt : Said(m, "short_term")
  BY DEF Said
<1>5. \A m \in Ids : row[m] \in Tiers => Said(m, row[m])
  BY DEF Said
<1>6. ASSUME NEW m \in InImm
      PROVE  /\ m \notin InSt /\ row[m] # "short_term"
             /\ m \notin torn => row[m] \in {"none", "immediate"}
  BY <1>1, <1>2, <1>3, <1>4, <1>5 DEF OneTier
<1>7. ASSUME NEW m \in InSt
      PROVE  /\ row[m] # "immediate"
             /\ m \notin torn => row[m] \in {"none", "short_term"}
  BY <1>1, <1>2, <1>4, <1>5 DEF OneTier
<1>8. \A m \in gone : row[m] = "none" /\ m \notin InImm \cup InSt
  BY <1>1 DEF Forgotten
<1>9. ASSUME NEW m \in gone, NEW t \in Tiers PROVE m \notin Members(t)
  <2>1. m \notin Members("immediate") /\ m \notin Members("short_term") /\ m \notin Members("long_term")
    BY <1>8, MembersAre
  <2> QED BY <2>1, MembersAre
<1>10. ASSUME NEW m \in gone
       PROVE  row[m] = "none" /\ m \notin InImm \cup InSt /\ \A t \in Tiers : m \notin Members(t)
  BY <1>8, <1>9
<1> QED BY <1>6, <1>7, <1>10

\* What has gone.
LEMMA GoneIs ==
  ASSUME Inv
  PROVE  \A m \in gone : /\ m \in Ids /\ m # 0 /\ row[m] = "none" /\ m \notin InImm \cup InSt
                         /\ \A t \in Tiers : index[t][m] > 0 => m \in twice
BY InvIs, NamesIs DEF Forgotten, RestTyped

-----------------------------------------------------------------------------
(* Time, the administration and the background: no handler moves.          *)

\* A step of no handler is a step of somebody who is none.
LEMMA NobodyIs ==
  ASSUME Inv
  PROVE  \E h : /\ h \notin Handlers /\ Looked(h)
                /\ UNCHANGED op => Rests(h) /\ Others(h) /\ Modest(h)
<1>1. PICK h : h \notin Handlers
  BY NoSetContainsEverything
<1>2. Modest(h) /\ Looked(h)
  BY <1>1 DEF Modest, Looked
<1>3. UNCHANGED op => Rests(h) /\ Others(h)
  BY RestsIs DEF Inv, Typed
<1> QED BY <1>1, <1>2, <1>3

\* A step of no handler that caches nothing new.
LEMMA NobodyMoves ==
  ASSUME Inv, Typed', Shaped', UNCHANGED <<op, audit, stray, twice, restarts, built, index, gone>>,
         made' \in {made, made + 1}, torn \subseteq torn',
         InImm' \subseteq InImm, InSt' \subseteq InSt, stale \subseteq stale',
         \A s \in Sessions : ToSet(imm'[s]) \subseteq ToSet(imm[s]),
         \A m \in Ids : row'[m] \in {row[m], "none"},
         doomed' \subseteq doomed,
         \A m \in InImm' \cup InSt' : row'[m] = row[m] \/ m \in torn',
         \A m \in Ids : row'[m] = "immediate" /\ m \in InImm \cup doomed => m \in InImm' \cup doomed' \cup torn'
  PROVE  Core'
<1>1. PICK h : h \notin Handlers /\ Looked(h) /\ Rests(h) /\ Others(h) /\ Modest(h)
  BY NobodyIs
<1>2. \A t \in Tiers : Members(t)' \subseteq Members(t)
  BY MembersAre, NamesIs
<1>3. Searched'
  BY <1>1, <1>2, SearchedKept, InvIs
<1>4. Copies'
  BY InvIs DEF Copies
<1>5. Remains(h)
  BY <1>1 DEF Remains, Inv, Core, Forgotten, Typed, RestTyped
<1> QED BY <1>1, <1>3, <1>4, <1>5, NothingNew

\* Time takes short-term memories past their expiry.
LEMMA AgeStep ==
  ASSUME Inv, Typed', Shaped', NEW m \in Ids, Age(m)
  PROVE  Core'
<1>1. /\ UNCHANGED <<op, audit, made, stray, twice, torn, restarts, built, index, gone, row, doomed, imm, st>>
      /\ stale \subseteq stale'
  BY DEF Age, Rest, Caches, Searchers
<1>2. InImm' = InImm /\ InSt' = InSt /\ \A s \in Sessions : ToSet(imm'[s]) = ToSet(imm[s])
  BY <1>1, SameCaches
<1> QED BY <1>1, <1>2, NobodyMoves

\* The deletion of a row an eviction scheduled.
LEMMA DropRowStep ==
  ASSUME Inv, Typed', Shaped', NEW m \in Ids, DropRow(m)
  PROVE  Core'
<1>1. /\ UNCHANGED <<op, audit, made, stray, twice, restarts, built, index, gone, stale, imm, st>>
      /\ m \in doomed /\ doomed' = doomed \ {m} /\ DeletedBehind({m})
  BY DEF DropRow, Past, Searchers, Caches
<1>2. InImm' = InImm /\ InSt' = InSt /\ \A s \in Sessions : ToSet(imm'[s]) = ToSet(imm[s])
  BY <1>1, SameCaches
<1>3. m \in InImm \cup InSt => m \in torn
  BY <1>1 DEF Inv, Core, Leaving
<1>4. /\ torn \subseteq torn'
      /\ \A e \in Ids \ {m} : row'[e] = row[e]
      /\ row'[m] = "none" \/ (row'[m] = row[m] /\ m \in torn')
  BY <1>1, DeletedBehindIs, InvIs
<1>5. \A e \in InImm \cup InSt : e \in Ids
  BY InvIs
<1> QED BY <1>1, <1>2, <1>3, <1>4, <1>5, NobodyMoves

\* ShortTermMemory.get of an expired memory deletes it.
LEMMA ExpiredGetStep ==
  ASSUME Inv, Typed', Shaped', NEW m \in Ids, ExpiredGet(m)
  PROVE  Core'
<1>1. /\ UNCHANGED <<op, audit, made, stray, twice, restarts, built, index, gone, stale, imm, lru, doomed>>
      /\ m \in InSt /\ st' = [s \in DOMAIN st |-> st[s] \ {m}] /\ DeletedBehind({m})
  BY DEF ExpiredGet, Past, Searchers
<1>2. InImm' = InImm /\ InSt' = InSt \ {m} /\ \A s \in Sessions : ToSet(imm'[s]) \subseteq ToSet(imm[s])
  BY <1>1, StFewer DEF Inv, Typed
<1>3. /\ torn \subseteq torn'
      /\ \A e \in Ids \ {m} : row'[e] = row[e]
      /\ row'[m] = "none" \/ (row'[m] = row[m] /\ m \in torn')
  BY <1>1, DeletedBehindIs, InvIs
<1>4. \A e \in InImm \cup InSt : e \in Ids
  BY InvIs
<1>5. m \notin InImm
  BY <1>1, TiersApart
<1> QED BY <1>1, <1>2, <1>3, <1>4, <1>5, NobodyMoves

\* DELETE /memory/{id}: the cache of a tier and the row, or any row and no
\* cache; not the searcher.
LEMMA DeleteStep ==
  ASSUME Inv, Typed', Shaped', NEW m \in Ids, NEW t \in Tiers, Delete(m, t)
  PROVE  Core'
<1>1. UNCHANGED <<op, audit, made, stray, twice, restarts, built, index, gone, stale, doomed>>
  BY DEF Delete, Past, Searchers
<1>2. /\ InImm' = (IF t = "immediate" THEN InImm \ {m} ELSE InImm)
      /\ InSt' = (IF t = "short_term" THEN InSt \ {m} ELSE InSt)
      /\ \A s \in Sessions : ToSet(imm'[s]) \subseteq ToSet(imm[s])
  BY DeleteCaches DEF Inv, Typed
<1>3. \A e \in InImm \cup InSt : e \in Ids
  BY InvIs
<1>4. CASE t = "long_term"
  <2>1. Saved(m, "none") /\ torn' = IF Cached(m) THEN torn \cup {m} ELSE torn
    BY <1>4 DEF Delete
  <2>2. row'[m] = "none" /\ \A e \in Ids \ {m} : row'[e] = row[e]
    BY <2>1, SavedIs, InvIs
  <2>3. torn \subseteq torn' /\ (m \in InImm \cup InSt => m \in torn')
    BY <2>1 DEF Cached
  <2> QED BY <1>1, <1>2, <1>3, <1>4, <2>2, <2>3, NobodyMoves
<1>5. CASE t # "long_term"
  <2>1. DeletedBehind({m}) /\ m \in IF t = "immediate" THEN InImm ELSE InSt
    BY <1>5 DEF Delete
  <2>2. /\ torn \subseteq torn'
        /\ \A e \in Ids \ {m} : row'[e] = row[e]
        /\ row'[m] = "none" \/ (row'[m] = row[m] /\ m \in torn')
    BY <2>1, DeletedBehindIs, InvIs
  <2>3. m \notin InImm' \cup InSt'
    <3>1. \A e \in InImm : e \notin InSt
      BY TiersApart
    <3>2. t \in {"immediate", "short_term"}
      BY <1>5, NamesIs
    <3> QED BY <1>2, <2>1, <3>1, <3>2
  <2> QED BY <1>1, <1>2, <1>3, <2>2, <2>3, NobodyMoves
<1> QED BY <1>4, <1>5

\* The deletion of an evicted row raises out of the add.
LEMMA EvictRaisesStep ==
  ASSUME Inv, Typed', Shaped', NEW h \in Handlers, EvictRaises(h)
  PROVE  Core'
<1>1. /\ UNCHANGED <<op, audit, stray, twice, restarts, built, index, gone, stale, doomed>>
      /\ made' = made + 1
  BY DEF EvictRaises, Searchers
<1>2. PICK k \in 1..Room :
        /\ Oldest(NewSession, k - 1) \subseteq InImm
        /\ InImm' = (InImm \ Oldest(NewSession, k - 1)) \ {imm[NewSession][k]}
        /\ InSt' = InSt
        /\ \A s \in Sessions : ToSet(imm'[s]) \subseteq ToSet(imm[s])
        /\ row' = Without(Oldest(NewSession, k - 1))
        /\ torn' = torn \cup {imm[NewSession][k]}
  BY EvictRaisesCaches, InvIs
<1>3. \A e \in Ids : row'[e] = IF e \in Oldest(NewSession, k - 1) THEN "none" ELSE row[e]
  BY <1>2, WithoutIs, InvIs
<1>4. \A e \in InImm \cup InSt : e \in Ids
  BY InvIs
<1>5. \A e \in InSt : e \notin InImm
  BY TiersApart
<1> QED BY <1>1, <1>2, <1>3, <1>4, <1>5, NobodyMoves

-----------------------------------------------------------------------------
(* The handlers, where they store nothing.                                 *)

\* The data stay as they are.
LEMMA DataKept ==
  ASSUME Inv, Typed', Shaped', NEW h \in Handlers, Others(h), Modest(h),
         op[h].pc # "look", op[h].pc # "index",
         \A m \in gone : m \notin op'[h].ids /\ (op'[h].m = m => op'[h].pc \in {"rollback", "rebuild"}),
         UNCHANGED <<row, imm, st, stale, doomed, built, index, audit, made, gone, stray, twice, torn, restarts>>
  PROVE  Core'
<1>1. InImm' = InImm /\ InSt' = InSt /\ imm' = imm
  BY SameCaches
<1>2. Rests(h) /\ Looked(h)
  BY RestsIs, InvIs DEF Looked
<1>3. \A t \in Tiers : Members(t)' \subseteq Members(t)
  BY <1>1, MembersAre
<1>4. Searched'
  BY <1>3, SearchedKept, InvIs
<1>5. Copies'
  BY InvIs DEF Copies
<1>6. Remains(h)
  BY <1>1, InvIs DEF Remains, Forgotten
<1> QED BY <1>1, <1>2, <1>4, <1>5, <1>6, NothingNew

\* The conflict resolution drops the new memory.
LEMMA ResolveNoneStep ==
  ASSUME Inv, Typed', Shaped', NEW h \in Handlers, ResolveNone(h)
  PROVE  Core'
<1>1. /\ UNCHANGED <<row, imm, st, stale, doomed, built, index, audit, made, gone, stray, twice, torn, restarts>>
      /\ op[h].pc = "resolve" /\ Done(h)
  BY DEF ResolveNone, Rest, Caches, Searchers
<1>2. Others(h) /\ op'[h] = Idle
  BY <1>1, DoneIs, InvIs
<1>3. Modest(h)
  BY <1>2, ModestIs, InvIs
<1>4. \A m \in gone : m # 0
  BY InvIs, NamesIs DEF RestTyped
<1> QED BY <1>1, <1>2, <1>3, <1>4, IdleIs, DataKept

\* A recall starts to build a searcher.
LEMMA BuildStep ==
  ASSUME Inv, Typed', Shaped', NEW h \in Handlers, NEW t \in Tiers, Build(h, t)
  PROVE  Core'
<1>1. UNCHANGED <<row, imm, st, stale, doomed, built, index, audit, made, gone, stray, twice, torn, restarts>>
  BY DEF Build, Past, Caches, Searchers
<1>2. /\ op[h] = Idle /\ Others(h)
      /\ op'[h].pc = "build" /\ op'[h].m = 0 /\ op'[h].tier = t /\ op'[h].ids = Members(t)
  BY BuildOp, InvIs
<1>3. \A m \in Members(t) : ~Unseen(m)
  BY MembersSaid, InvIs
<1>4. \A m \in gone : m # 0 /\ m \notin Members(t)
  BY InvIs, NamesIs, TiersApart DEF RestTyped
<1>5. t # "decay"
  BY NamesIs
<1>6. Modest(h)
  BY <1>2, <1>3, <1>5, NamesIs DEF Modest, Holds, Claims
<1> QED BY <1>1, <1>2, <1>4, <1>6, IdleIs, DataKept

\* update has read the memory.
LEMMA UpdateGetStep ==
  ASSUME Inv, Typed', Shaped', NEW h \in Handlers, NEW m \in Ids, NEW t \in Tiers, UpdateGet(h, m, t)
  PROVE  Core'
<1>1. /\ UNCHANGED <<row, imm, st, stale, doomed, built, index, audit, made, gone, stray, twice, torn, restarts>>
      /\ Gets(m, t)
  BY DEF UpdateGet, Past, Caches, Searchers
<1>2. /\ op[h] = Idle /\ Others(h)
      /\ op'[h].pc = "update" /\ op'[h].m = m /\ op'[h].tier = t /\ op'[h].ids = {}
  BY UpdateGetOp, InvIs
<1>3. row[m] # "none" \/ m \in Members(t)
  BY <1>1 DEF Gets
<1>4. ~Unseen(m) /\ m \notin gone /\ (t # "long_term" => Said(m, t))
  BY <1>1, <1>3, MembersSaid, TiersApart, InvIs DEF Unseen, Gets
<1>5. t = "immediate" => m \in InImm
  BY <1>1, MembersAre DEF Gets
<1>6. Modest(h)
  <2>1. \A e \in Ids : Holds(h, e)' => ~Unseen(e)
    BY <1>2, <1>4 DEF Holds
  <2>2. \A e \in Ids : \A u \in Tiers : Claims(op[h], e, u)' => Said(e, u)
    BY <1>2, <1>4 DEF Claims
  <2> QED BY <1>2, <1>5, <2>1, <2>2 DEF Modest
<1> QED BY <1>1, <1>2, <1>4, <1>6, IdleIs, DataKept

\* The decay has read the rows.
LEMMA DecayStep ==
  ASSUME Inv, Typed', Shaped', NEW h \in Handlers, Decay(h)
  PROVE  Core'
<1>1. UNCHANGED <<row, imm, st, stale, doomed, built, index, audit, made, gone, stray, twice, torn, restarts>>
  BY DEF Decay, Past, Caches, Searchers
<1>2. /\ op[h] = Idle /\ Others(h)
      /\ op'[h].pc = "decay" /\ op'[h].m = 0 /\ op'[h].tier = "decay"
      /\ op'[h].ids = {m \in Ids : row[m] = "long_term"}
  BY DecayOp, InvIs
<1>3. \A m \in op'[h].ids : m # 0 /\ ~Unseen(m) /\ Said(m, "long_term") /\ m \notin gone
  BY <1>2, TiersApart, NamesIs DEF Unseen, Said
<1>4. \A m \in gone : m # 0
  BY InvIs, NamesIs DEF RestTyped
<1>5. Modest(h)
  BY <1>2, <1>3, NamesIs DEF Modest, Holds, Claims
<1> QED BY <1>1, <1>2, <1>3, <1>4, <1>5, IdleIs, DataKept

\* A rollback has read the audit entry.
LEMMA RollbackStep ==
  ASSUME Inv, Typed', Shaped', NEW h \in Handlers, Rollback(h)
  PROVE  Core'
<1>1. UNCHANGED <<row, imm, st, stale, doomed, built, index, audit, made, gone, stray, twice, torn, restarts>>
  BY DEF Rollback, Past, Caches, Searchers
<1>2. /\ op[h] = Idle /\ Others(h)
      /\ op'[h].pc = "rollback" /\ op'[h].tier = "long_term" /\ op'[h].m \in Ids
  BY RollbackOp, InvIs
<1>3. PICK a \in audit : op'[h].m = a[2] /\ op'[h].ids = {m \in {a[1]} : row[m] # "none"}
  BY RollbackOp, InvIs
<1>4. \A m \in Ids : m \in {a[1], a[2]} => ~Unseen(m) /\ Said(m, "long_term")
  BY DEF Unseen, Said
<1>5. \A m \in gone : m \notin op'[h].ids
  BY <1>3, TiersApart
<1>6. Modest(h)
  BY <1>2, <1>3, <1>4 DEF Modest, Holds, Claims
<1> QED BY <1>1, <1>2, <1>5, <1>6, IdleIs, DataKept

\* A writer looks for the searcher of the tier.
LEMMA LookStep ==
  ASSUME Inv, Typed', Shaped', NEW h \in Handlers, Look(h)
  PROVE  Core'
<1>1. /\ UNCHANGED <<row, imm, st, stale, doomed, built, index, audit, made, gone, twice, torn, restarts>>
      /\ stray' = IF BuiltWithout(op[h].m, op[h].tier) THEN stray \cup {op[h].m} ELSE stray
  BY DEF Look, Past, Caches, Searchers
<1>2. /\ op[h].pc = "look" /\ op[h].m \in Ids /\ op[h].tier \in Tiers /\ Others(h)
      /\ IF op[h].tier \in built
         THEN /\ op'[h].pc = "index" /\ op'[h].m = op[h].m /\ op'[h].tier = op[h].tier
              /\ op'[h].ids = op[h].ids /\ op'[h].alone = op[h].alone
         ELSE op'[h] = Idle
  BY LookOp, InvIs
<1>3. InImm' = InImm /\ InSt' = InSt /\ Rests(h) /\ stray \subseteq stray'
  BY <1>1, <1>2, SameCaches, RestsIs, InvIs
<1>4. Looked(h)
  BY <1>1 DEF Looked, BuiltWithout
<1>5. \A t \in Tiers : Members(t)' = Members(t)
  BY <1>1, <1>3, MembersAre
<1>6. Searched'
  <2>1. ASSUME NEW t \in built', NEW m \in Members(t)'
        PROVE  \/ Adds(m, t)'
               \/ /\ t \in built /\ m \in Members(t) /\ index'[t][m] = index[t][m]
                  /\ op[h].m # m \/ op[h].tier # t
    <3>1. t \in built /\ m \in Members(t) /\ index'[t][m] = index[t][m]
      BY <1>1, <1>5, <2>1, InvIs
    <3>2. CASE op[h].m = m /\ op[h].tier = t
      <4>1. op'[h].pc = "index" /\ op'[h].m = m /\ op'[h].tier = t
        BY <1>2, <3>1, <3>2
      <4> QED BY <4>1 DEF Adds
    <3> QED BY <3>1, <3>2
  <2> QED BY <1>2, <1>3, <2>1, InvIs, SearchedTurn
<1>7. Copies'
  BY <1>1, InvIs DEF Copies
<1>8. Remains(h)
  <2>1. \A m \in gone : /\ m # 0 /\ m # op[h].m /\ m \notin op[h].ids
                        /\ row[m] = "none" /\ m \notin InImm \cup InSt
                        /\ \A t \in Tiers : index[t][m] > 0 => m \in twice
    BY <1>2, InvIs, NamesIs DEF Forgotten, RestTyped
  <2> QED BY <1>1, <1>2, <1>3, <2>1, IdleIs DEF Remains
<1>9. Modest(h)
  <2>1. CASE op[h].tier \in built
    <3>1. \A e : Holds(h, e)' => Holds(h, e)
      BY <1>2, <2>1 DEF Holds
    <3>2. \A e \in Ids : \A u \in Tiers : ~Claims(op[h], e, u)'
      BY <1>2, <2>1, NamesIs DEF Claims
    <3> QED BY <1>2, <2>1, <3>1, <3>2 DEF Modest
  <2>2. CASE op[h].tier \notin built
    BY <1>2, <2>2, ModestIs, InvIs
  <2> QED BY <2>1, <2>2
<1> QED BY <1>1, <1>3, <1>4, <1>6, <1>7, <1>8, <1>9, NothingNew

\* A failure of the storage ends a handler, or the loop of the decay.
LEMMA RaiseStep ==
  ASSUME Inv, Typed', Shaped', NEW h \in Handlers, Raise(h)
  PROVE  Core'
<1>1. UNCHANGED <<row, imm, st, stale, doomed, built, index, audit, made, gone, stray, twice, torn, restarts>>
  BY DEF Raise, Past, Caches, Searchers
<1>2. /\ op[h].pc # "index" /\ op[h].pc # "look" /\ Others(h)
      /\ \/ op'[h] = Idle
         \/ op'[h].pc = "decay" /\ op'[h].m = 0 /\ op'[h].ids = {} /\ op'[h].tier = "decay"
  BY RaiseOp, InvIs
<1>3. op'[h].m = 0 /\ op'[h].ids = {} /\ op'[h].pc \in {"idle", "decay"}
  BY <1>2, IdleIs
<1>4. \A m \in gone : m # 0
  BY InvIs, NamesIs DEF RestTyped
<1>5. Modest(h)
  BY <1>3, NamesIs DEF Modest, Holds, Claims
<1> QED BY <1>1, <1>2, <1>3, <1>4, <1>5, DataKept

\* The searcher is registered.
LEMMA RegisterStep ==
  ASSUME Inv, Typed', Shaped', NEW h \in Handlers, Register(h)
  PROVE  Core'
<1>1. /\ UNCHANGED <<row, imm, st, stale, doomed, audit, made, gone, stray, twice, torn, restarts>>
      /\ op[h].pc = "build" /\ op[h].tier \in Tiers /\ op[h].ids \subseteq Ids
      /\ op' \in [Handlers -> Ops] /\ op'[h] = Idle
      /\ \A g \in Handlers \ {h} :
           op'[g] = IF op[g].pc = "index" /\ op[g].tier = op[h].tier THEN Idle ELSE op[g]
      /\ built' = built \cup {op[h].tier}
      /\ \A t \in Tiers \ {op[h].tier} : index'[t] = index[t]
      /\ \A m \in Ids : index'[op[h].tier][m] = IF m \in op[h].ids THEN 1 ELSE 0
  BY RegisterOp, InvIs
<1>2. Rests(h) /\ Looked(h)
  BY <1>1 DEF Rests, Waits, Looked
<1>3. InImm' = InImm /\ InSt' = InSt
  BY <1>1, SameCaches
<1>4. \A t \in Tiers : Members(t)' = Members(t)
  BY <1>1, <1>3, MembersAre
<1>5. Searched'
  <2> SUFFICES ASSUME NEW t \in built', NEW m \in Members(t), t \in Tiers, m \in Ids, m \notin stray,
                      ~(index'[t][m] > 0)
               PROVE  Looks(m, t)' \/ Adds(m, t)'
    <3>1. \A t \in built' : t \in Tiers /\ \A m \in Members(t)' : m \in Members(t) /\ m \in Ids
      BY <1>1, <1>4, MembersSaid, InvIs
    <3> QED BY <1>1, <3>1 DEF Searched
  <2>1. ASSUME Looks(m, t) PROVE Looks(m, t)'
    <3>1. PICK k \in Handlers : op[k].pc = "look" /\ op[k].m = m /\ op[k].tier = t
      BY <2>1 DEF Looks
    <3>2. op'[k] = op[k]
      BY <1>1, <3>1
    <3> QED BY <3>1, <3>2 DEF Looks
  <2>2. CASE t = op[h].tier
    <3>1. m \notin op[h].ids
      BY <1>1, <2>2
    <3> QED BY <1>1, <2>1, <2>2, <3>1, InvIs DEF Collected
  <2>3. CASE t # op[h].tier
    <3>1. t \in built /\ ~(index[t][m] > 0)
      BY <1>1, <2>3
    <3>2. Looks(m, t) \/ Adds(m, t)
      BY <3>1, InvIs DEF Searched
    <3>3. ASSUME Adds(m, t) PROVE Adds(m, t)'
      <4>1. PICK k \in Handlers : op[k].pc = "index" /\ op[k].m = m /\ op[k].tier = t
        BY <3>3 DEF Adds
      <4>2. op'[k] = op[k]
        BY <1>1, <2>3, <4>1
      <4> QED BY <4>1, <4>2 DEF Adds
    <3> QED BY <2>1, <3>2, <3>3
  <2> QED BY <2>2, <2>3
<1>6. Copies'
  <2> SUFFICES ASSUME NEW t \in Tiers, NEW m \in Ids PROVE index'[t][m] <= 1 \/ m \in twice
    BY <1>1 DEF Copies
  <2>1. CASE t = op[h].tier
    BY <1>1, <2>1
  <2>2. CASE t # op[h].tier
    BY <1>1, <2>2, InvIs DEF Copies
  <2> QED BY <2>1, <2>2
<1>7. Remains(h)
  <2>1. ASSUME NEW m \in gone, NEW t \in Tiers, index'[t][m] > 0 PROVE m \in twice
    <3>1. m \in Ids /\ m \notin op[h].ids
      BY InvIs DEF Forgotten, RestTyped
    <3>2. t # op[h].tier
      BY <1>1, <2>1, <3>1
    <3> QED BY <1>1, <2>1, <3>2, InvIs DEF Forgotten
  <2>2. \A m \in gone : m # 0 /\ row[m] = "none" /\ m \notin InImm \cup InSt
    BY InvIs, NamesIs DEF Forgotten, RestTyped
  <2> QED BY <1>1, <1>3, <2>1, <2>2, IdleIs DEF Remains
<1>8. Modest(h)
  BY <1>1, ModestIs, InvIs
<1> QED BY <1>1, <1>2, <1>3, <1>5, <1>6, <1>7, <1>8, NothingNew

\* The stored memory is added to the searcher.
LEMMA IndexAddStep ==
  ASSUME Inv, Typed', Shaped', NEW h \in Handlers, IndexAdd(h)
  PROVE  Core'
<1>1. /\ UNCHANGED <<row, imm, st, stale, doomed, built, audit, made, gone, stray, torn, restarts>>
      /\ op[h].pc = "index" /\ Done(h)
      /\ index' = [index EXCEPT ![op[h].tier][op[h].m] = @ + 1]
      /\ twice' = IF index[op[h].tier][op[h].m] > 0 THEN twice \cup {op[h].m} ELSE twice
  BY DEF IndexAdd, Caches
<1>2. Others(h) /\ Rests(h) /\ op'[h] = Idle /\ Looked(h)
  BY <1>1, DoneIs, RestsIs, InvIs DEF Looked
<1>3. InImm' = InImm /\ InSt' = InSt
  BY <1>1, SameCaches
<1>4. \A t \in Tiers : Members(t)' = Members(t)
  BY <1>1, <1>3, MembersAre
<1>5. PICK t \in Tiers, m \in Ids : t = op[h].tier /\ m = op[h].m
  BY <1>1, OpIs, InvIs DEF Kind, RestTyped, OnMemory
<1>6. /\ index'[t][m] = index[t][m] + 1 /\ index[t][m] \in Nat
      /\ \A u \in Tiers : \A e \in Ids : u # t \/ e # m => index'[u][e] = index[u][e]
  BY <1>1, <1>5, InvIs
<1>7. Searched'
  <2>1. ASSUME NEW u \in built', NEW e \in Members(u)', ~(index'[u][e] > 0)
        PROVE  /\ u \in built /\ e \in Members(u) /\ index'[u][e] = index[u][e]
               /\ op[h].m # e \/ op[h].tier # u
    <3>1. u \in Tiers /\ u \in built /\ e \in Members(u) /\ e \in Ids
      BY <1>1, <1>4, MembersSaid, InvIs
    <3> QED BY <1>5, <1>6, <2>1, <3>1
  <2> QED BY <1>1, <1>2, <2>1, InvIs, SearchedTurn
<1>8. Copies'
  <2> SUFFICES ASSUME NEW u \in Tiers, NEW e \in Ids PROVE index'[u][e] <= 1 \/ e \in twice'
    BY DEF Copies
  <2>1. CASE u = t /\ e = m
    BY <1>1, <1>5, <1>6, <2>1
  <2>2. CASE u # t \/ e # m
    BY <1>1, <1>6, <2>2, InvIs DEF Copies
  <2> QED BY <2>1, <2>2
<1>9. Remains(h)
  <2>1. \A e \in gone : e \in Ids /\ e # 0 /\ e # m
    BY <1>1, <1>5, InvIs, NamesIs DEF Forgotten, RestTyped
  <2>2. ASSUME NEW e \in gone, NEW u \in Tiers, index'[u][e] > 0 PROVE e \in twice'
    BY <1>1, <1>6, <2>1, <2>2, InvIs DEF Forgotten
  <2>3. \A e \in gone : row[e] = "none" /\ e \notin InImm \cup InSt
    BY InvIs DEF Forgotten
  <2> QED BY <1>1, <1>2, <1>3, <2>1, <2>2, <2>3, IdleIs DEF Remains
<1>10. Modest(h)
  BY <1>2, ModestIs, InvIs
<1> QED BY <1>1, <1>2, <1>3, <1>7, <1>8, <1>9, <1>10, NothingNew

-----------------------------------------------------------------------------
(* The handlers, where they forget.                                        *)

\* The caches and the rows after the first part of forget.
LEMMA ForgetCachedIs ==
  ASSUME Inv, NEW h \in Handlers, NEW m \in Ids, ForgetCached(m), UNCHANGED lru
  PROVE  /\ InImm' = InImm \ {m} /\ InSt' = InSt \ {m}
         /\ \A s \in Sessions : ToSet(imm'[s]) \subseteq ToSet(imm[s])
         /\ torn \subseteq torn' /\ \A e \in Ids \ {m} : row'[e] = row[e]
         /\ row'[m] \in {row[m], "none"}
         /\ m \in InImm \cup InSt => row'[m] = "none" \/ m \in torn'
<1>1. Uncached(m) /\ DeletedBehind(IF Cached(m) THEN {m} ELSE {})
  BY DEF ForgetCached
<1>2. /\ InImm' = InImm \ {m} /\ InSt' = InSt \ {m}
      /\ \A s \in Sessions : ToSet(imm'[s]) \subseteq ToSet(imm[s])
  BY <1>1, UncachedIs, InvIs
<1>3. CASE Cached(m)
  <2>1. DeletedBehind({m})
    BY <1>1, <1>3
  <2>2. /\ torn \subseteq torn' /\ \A e \in Ids \ {m} : row'[e] = row[e]
        /\ row'[m] = "none" \/ (row'[m] = row[m] /\ m \in torn')
    BY <2>1, DeletedBehindIs, InvIs
  <2> QED BY <1>2, <2>2
<1>4. CASE ~Cached(m)
  <2>1. DeletedBehind({}) /\ m \notin InImm \cup InSt
    BY <1>1, <1>4 DEF Cached
  <2>2. torn \subseteq torn' /\ \A e \in Ids : row'[e] = row[e]
    BY <2>1, DeletedBehindIs, InvIs
  <2> QED BY <1>2, <2>1, <2>2
<1> QED BY <1>3, <1>4

\* A memory is taken up to be forgotten.
LEMMA ForgetBegun ==
  ASSUME Inv, Typed', Shaped', NEW h \in Handlers, NEW m \in Ids, ForgetCached(m), Others(h),
         op[h].pc # "look", op[h].pc # "index",
         op'[h].pc \in {"forget", "forgot"}, op'[h].m = m, ~Unseen(m) \/ Holds(h, m), m \notin gone,
         \/ op'[h].tier # "decay" /\ op'[h].ids = {}
         \/ op[h].pc = "decay" /\ op[h].tier = "decay" /\ op'[h].ids \subseteq op[h].ids,
         UNCHANGED <<lru, stale, doomed, built, index, audit, made, gone, stray, twice, restarts>>
  PROVE  Core'
<1>1. /\ InImm' = InImm \ {m} /\ InSt' = InSt \ {m}
      /\ \A s \in Sessions : ToSet(imm'[s]) \subseteq ToSet(imm[s])
      /\ torn \subseteq torn' /\ \A e \in Ids \ {m} : row'[e] = row[e]
      /\ row'[m] \in {row[m], "none"}
      /\ m \in InImm \cup InSt => row'[m] = "none" \/ m \in torn'
  BY ForgetCachedIs
<1>2. Rests(h) /\ Looked(h)
  BY RestsIs, InvIs DEF Looked
<1>3. \A t \in Tiers : Members(t)' \subseteq Members(t)
  BY <1>1, MembersAre
<1>4. Searched' /\ Copies'
  BY <1>3, SearchedKept, InvIs DEF Copies
<1>5. \A e \in op'[h].ids : Holds(h, e)
  BY DEF Holds
<1>6. Remains(h)
  <2>1. \A e \in gone : e \in Ids /\ e # m /\ e \notin op'[h].ids
    BY InvIs DEF Forgotten, RestTyped
  <2>2. \A e \in gone : /\ row[e] = "none" /\ e \notin InImm \cup InSt
                        /\ \A t \in Tiers : index[t][e] > 0 => e \in twice
    BY InvIs DEF Forgotten
  <2> QED BY <1>1, <2>1, <2>2 DEF Remains
<1>7. Modest(h)
  <2>1. \A e \in Ids : Holds(h, e)' => Holds(h, e) \/ ~Unseen(e)
    BY <1>5 DEF Holds
  <2>2. ASSUME NEW e \in Ids, NEW t \in Tiers, Claims(op[h], e, t)' PROVE Said(e, t)
    <3>1. t = "long_term" /\ e \in op'[h].ids /\ op'[h].tier = "decay"
      BY <2>2 DEF Claims
    <3>2. e \in op[h].ids /\ op[h].tier = "decay"
      BY <3>1
    <3>3. Claims(op[h], e, t)
      BY <3>1, <3>2 DEF Claims
    <3> QED BY <3>3 DEF Said
  <2> QED BY <1>1, <2>1, <2>2 DEF Modest
<1>8. \A e \in InImm' \cup InSt' : e \in Ids /\ row'[e] = row[e]
  BY <1>1, InvIs
<1>9. \A e \in Ids : row'[e] = "immediate" /\ e \in InImm \cup doomed => e \in InImm' \cup doomed' \cup torn'
  BY <1>1
<1>10. \A e \in Ids : row'[e] \in {row[e], "none"}
  BY <1>1
<1> QED BY <1>1, <1>2, <1>4, <1>6, <1>7, <1>8, <1>9, <1>10, NothingNew

\* forget takes the memory out of the caches.
LEMMA ForgetStep ==
  ASSUME Inv, Typed', Shaped', NEW h \in Handlers, NEW m \in Ids, Forget(h, m)
  PROVE  Core'
<1>1. /\ UNCHANGED <<lru, stale, doomed, built, index, audit, made, gone, stray, twice, restarts>>
      /\ ForgetCached(m)
      /\ m \in InImm \cup InSt \/ row[m] # "none"
  BY DEF Forget, Past, Searchers, Cached
<1>2. /\ op[h] = Idle /\ Others(h)
      /\ op'[h].pc = (IF m \in InImm \cup InSt THEN "forgot" ELSE "forget")
      /\ op'[h].m = m /\ op'[h].tier = "none" /\ op'[h].ids = {}
  BY ForgetOp, InvIs
<1>3. ~Unseen(m) /\ m \notin gone
  BY <1>1, TiersApart DEF Unseen
<1> QED BY <1>1, <1>2, <1>3, IdleIs, ForgetBegun

\* The decay forgets one of its memories.
LEMMA DecayForgetStep ==
  ASSUME Inv, Typed', Shaped', NEW h \in Handlers, DecayForget(h)
  PROVE  Core'
<1>1. UNCHANGED <<lru, stale, doomed, built, index, audit, made, gone, stray, twice, restarts>>
  BY DEF DecayForget, Past, Searchers
<1>2. PICK m \in op[h].ids :
        /\ m \in Ids /\ ForgetCached(m) /\ op[h].pc = "decay" /\ op[h].tier = "decay"
        /\ Others(h) /\ op'[h].pc \in {"forget", "forgot"} /\ op'[h].m = m
        /\ op'[h].ids = op[h].ids \ {m}
  BY DecayForgetOp, InvIs
<1>3. Holds(h, m) /\ m \notin gone
  BY <1>2, InvIs DEF Holds, Forgotten
<1> QED BY <1>1, <1>2, <1>3, ForgetBegun

\* forget deletes the row.
LEMMA ForgetRowStep ==
  ASSUME Inv, Typed', Shaped', NEW h \in Handlers, ForgetRow(h)
  PROVE  Core'
<1>1. /\ UNCHANGED <<imm, st, stale, doomed, built, index, audit, made, gone, stray, twice, torn, restarts>>
      /\ Saved(op[h].m, "none")
  BY DEF ForgetRow, Rest, Caches, Searchers
<1>2. /\ Others(h) /\ op[h].pc \in {"forget", "forgot"} /\ op[h].m \in Ids
      /\ \/ /\ op'[h].pc = "unindex" /\ op'[h].m = op[h].m /\ op'[h].tier = op[h].tier
            /\ op'[h].ids = op[h].ids /\ op'[h].alone = op[h].alone
         \/ op'[h] = Back(h)
  BY ForgetRowOp, InvIs
<1> DEFINE m == op[h].m
<1>3. /\ InImm' = InImm /\ InSt' = InSt /\ Rests(h) /\ Looked(h)
      /\ row'[m] = "none" /\ \A e \in Ids \ {m} : row'[e] = row[e]
  BY <1>1, <1>2, SameCaches, RestsIs, SavedIs, InvIs DEF Looked
<1>4. m \in InImm \cup InSt => m \in stray \cap torn /\ ~op[h].alone
  BY <1>2, InvIs DEF Leaving
<1>5. \A t \in Tiers : Members(t)' \subseteq Members(t)
  BY <1>1, <1>2, <1>3, MembersAre
<1>6. Searched' /\ Copies'
  BY <1>1, <1>2, <1>5, SearchedKept, InvIs DEF Copies
<1>7. /\ op'[h].pc \in {"unindex", "decay", "idle"}
      /\ op'[h].pc = "unindex" => op'[h].m = m /\ op'[h].alone = op[h].alone
      /\ op'[h].m \in {0, m} /\ op'[h].ids \subseteq op[h].ids
      /\ op'[h].tier = "decay" => op[h].tier = "decay"
  BY <1>2, BackIs, IdleIs, InvIs
<1>8. Remains(h)
  <2>1. \A e \in gone : e \in Ids /\ e # 0 /\ e # m /\ e \notin op[h].ids
    BY <1>2, InvIs, NamesIs DEF Forgotten, RestTyped
  <2>2. \A e \in gone : /\ row[e] = "none" /\ e \notin InImm \cup InSt
                        /\ \A t \in Tiers : index[t][e] > 0 => e \in twice
    BY InvIs DEF Forgotten
  <2> QED BY <1>1, <1>3, <1>7, <2>1, <2>2 DEF Remains
<1>9. Modest(h)
  <2>1. \A e \in Ids : Holds(h, e)' => Holds(h, e)
    BY <1>2, <1>7, NamesIs DEF Holds
  <2>2. ASSUME NEW e \in Ids, NEW t \in Tiers, Claims(op[h], e, t)' PROVE Said(e, t)
    <3>1. Claims(op[h], e, t)
      BY <1>7, <2>2 DEF Claims
    <3> QED BY <3>1 DEF Said
  <2>3. ASSUME op'[h].pc \in {"forget", "forgot", "unindex"}
        PROVE  \E e \in Ids : /\ e = op'[h].m
                              /\ e \in InImm' \cup InSt' => e \in stray' \cap torn' /\ ~op'[h].alone
                              /\ op'[h].pc = "unindex" /\ row'[e] # "none" => e \in stray' /\ ~op'[h].alone
    BY <1>1, <1>2, <1>3, <1>4, <1>7, <2>3
  <2> QED BY <1>7, <2>1, <2>2, <2>3 DEF Modest
<1>10. \A e \in InImm' \cup InSt' : e \in Ids
  BY <1>3, InvIs
<1> QED BY <1>1, <1>2, <1>3, <1>4, <1>6, <1>8, <1>9, <1>10, NothingNew

\* When each searcher has dropped a copy, a memory that nobody else held is
\* nowhere, unless it was there twice.
LEMMA ForgetIndexStep ==
  ASSUME Inv, Typed', Shaped', NEW h \in Handlers, ForgetIndex(h)
  PROVE  Core'
<1> DEFINE m == op[h].m
<1>1. /\ UNCHANGED <<row, imm, st, stale, doomed, built, audit, made, stray, twice, torn, restarts>>
      /\ index' = [t \in Tiers |-> [index[t] EXCEPT ![m] = Less(@)]]
      /\ gone' = IF op[h].alone THEN gone \cup {m} ELSE gone
  BY DEF ForgetIndex, Caches
<1>2. Others(h) /\ op[h].pc = "unindex" /\ m \in Ids /\ op'[h] = Back(h)
  BY ForgetIndexOp, InvIs
<1>3. InImm' = InImm /\ InSt' = InSt /\ Rests(h) /\ Looked(h)
  BY <1>1, <1>2, SameCaches, RestsIs, InvIs DEF Looked
<1>4. m \in InImm \cup InSt \/ row[m] # "none" => m \in stray /\ ~op[h].alone
  BY <1>2, InvIs DEF Leaving
<1>5. /\ op'[h].pc \in {"decay", "idle"} /\ op'[h].m = 0 /\ op'[h].ids \subseteq op[h].ids
      /\ op'[h].tier = "decay" => op[h].tier = "decay"
  BY <1>2, BackIs, IdleIs, InvIs
<1>6. ASSUME NEW t \in Tiers
      PROVE  /\ \A e \in Ids \ {m} : index'[t][e] = index[t][e]
             /\ index'[t][m] <= index[t][m] /\ (index[t][m] <= 1 => index'[t][m] = 0)
             /\ index[t][m] \in Nat
  <2>1. index[t] \in [Ids -> Nat] /\ index'[t] = [index[t] EXCEPT ![m] = Less(@)]
    BY <1>1, InvIs
  <2>2. \A e \in Ids \ {m} : index'[t][e] = index[t][e]
    BY <2>1
  <2>3. index'[t][m] = Less(index[t][m]) /\ index[t][m] \in Nat
    BY <1>2, <2>1
  <2> QED BY <2>2, <2>3 DEF Less
<1> HIDE DEF m
<1>7. Searched'
  <2>1. ASSUME NEW t \in built', NEW e \in Members(t)', e \notin stray'
        PROVE  t \in built /\ e \in Members(t) /\ index'[t][e] = index[t][e]
    <3>1. t \in Tiers /\ Members(t)' = Members(t) /\ e \in Members(t)
      <4>1. t \in Tiers
        BY <1>1, <2>1, InvIs
      <4>2. Members(t)' = Members(t)
        BY <1>1, <1>3, <4>1, MembersAre
      <4> QED BY <2>1, <4>1, <4>2
    <3>2. e # m
      <4>1. m \in Members(t) => m \in InImm \cup InSt \/ row[m] # "none"
        BY <3>1, MembersAre
      <4> QED BY <1>1, <1>4, <2>1, <3>1, <4>1
    <3>3. e \in Ids
      BY <3>1, MembersSaid, InvIs
    <3> QED BY <1>1, <1>6, <2>1, <3>1, <3>2, <3>3
  <2>2. \A t \in built' : \A e \in Members(t)' :
          \/ index'[t][e] > 0 \/ e \in stray' \/ Looks(e, t)' \/ Adds(e, t)'
          \/ /\ t \in built /\ e \in Members(t) /\ index'[t][e] = index[t][e]
             /\ h \in Handlers /\ op[h].pc \in {"look", "index"} => op[h].m # e \/ op[h].tier # t
    BY <1>2, <2>1
  <2>3. stray \subseteq stray' /\ Typed /\ Searched
    BY <1>1, InvIs
  <2> QED BY <1>2, <2>2, <2>3, SearchedTurn
<1>8. Copies'
  <2> SUFFICES ASSUME NEW t \in Tiers, NEW e \in Ids PROVE index'[t][e] <= 1 \/ e \in twice'
    BY DEF Copies
  <2>1. index[t][e] <= 1 \/ e \in twice
    BY InvIs DEF Copies
  <2>2. CASE e = m
    BY <1>1, <1>6, <2>1, <2>2
  <2>3. CASE e # m
    BY <1>1, <1>6, <2>1, <2>3
  <2> QED BY <2>2, <2>3
<1>9. Forgotten'
  <2>1. ASSUME NEW e \in gone'
        PROVE  e \in Ids /\ row[e] = "none" /\ e \notin InImm \cup InSt
    BY <1>1, <1>2, <1>4, <2>1, InvIs DEF Forgotten, RestTyped, m
  <2>2. ASSUME NEW e \in gone', NEW t \in Tiers, index'[t][e] > 0 PROVE e \in twice'
    <3>1. CASE e = m
      <4>1. index[t][m] <= 1 \/ m \in twice
        BY <1>2, InvIs DEF Copies, m
      <4> QED BY <1>1, <1>6, <2>2, <3>1, <4>1
    <3>2. CASE e # m
      <4>1. e \in gone /\ index'[t][e] = index[t][e]
        BY <1>1, <1>6, <2>1, <2>2, <3>2
      <4> QED BY <1>1, <2>2, <4>1, InvIs DEF Forgotten
    <3> QED BY <3>1, <3>2
  <2>3. ASSUME NEW e \in gone', NEW g \in Handlers
        PROVE  e \notin op'[g].ids /\ (op'[g].m = e => op'[g].pc \in {"rollback", "rebuild"})
    <3>1. e # 0
      BY <2>1, <2>3, NamesIs
    <3>2. CASE g = h
      <4>1. e \notin op[h].ids
        <5>1. m \notin op[h].ids
          BY <1>2, OpIs, InvIs DEF Kind, m
        <5> QED BY <1>1, <2>3, <5>1, InvIs DEF Forgotten
      <4> QED BY <1>5, <3>1, <3>2, <4>1
    <3>3. CASE g # h
      <4>1. op'[g].pc = op[g].pc /\ op'[g].m = op[g].m /\ op'[g].ids = op[g].ids
        BY <1>2, <3>3 DEF Others, Waits
      <4>2. CASE e \in gone
        BY <4>1, <4>2, InvIs DEF Forgotten
      <4>3. CASE op[h].alone /\ e = m
        <5>1. ~Holds(g, m)
          BY <1>2, <3>1, <3>3, <4>3, InvIs DEF Alone, m
        <5>2. op[g].pc = "idle" => op[g] = Idle
          BY OpIs, InvIs DEF Kind
        <5> QED BY <3>1, <4>1, <4>3, <5>1, <5>2, IdleIs DEF Holds
      <4> QED BY <1>1, <2>3, <4>2, <4>3
    <3> QED BY <3>2, <3>3
  <2> QED BY <1>1, <1>3, <2>1, <2>2, <2>3 DEF Forgotten
<1>10. Modest(h)
  <2>1. \A e \in Ids : Holds(h, e)' => Holds(h, e)
    BY <1>2, <1>5, NamesIs DEF Holds
  <2>2. ASSUME NEW e \in Ids, NEW t \in Tiers, Claims(op[h], e, t)' PROVE Said(e, t)
    <3>1. Claims(op[h], e, t)
      BY <1>5, <2>2 DEF Claims
    <3> QED BY <3>1 DEF Said
  <2> QED BY <1>5, <2>1, <2>2 DEF Modest
<1>11. gone' \subseteq gone \cup {e \in Ids : h \in Handlers /\ Holds(h, e)}
  BY <1>1, <1>2 DEF Holds, m
<1> QED BY <1>1, <1>3, <1>7, <1>8, <1>9, <1>10, <1>11, NothingNew

\* The sweep of expired memories.
LEMMA SweepStep ==
  ASSUME Inv, Typed', Shaped', NEW h \in Handlers, Sweep(h)
  PROVE  Core'
<1>1. /\ UNCHANGED <<row, stale, built, index, audit, made, gone, stray, twice, torn, restarts>>
      /\ doomed' = doomed \cup (InSt \cap stale)
      /\ op[h].pc = "decay" /\ Done(h)
  BY DEF Sweep, Rest, Searchers
<1>2. InImm' = InImm /\ InSt' = InSt \ stale /\ \A s \in Sessions : ToSet(imm'[s]) \subseteq ToSet(imm[s])
  BY SweepCaches, InvIs
<1>3. Others(h) /\ Rests(h) /\ op'[h] = Idle /\ Looked(h)
  BY <1>1, DoneIs, RestsIs, InvIs DEF Looked
<1>4. Modest(h)
  BY <1>3, ModestIs, InvIs
<1>5. \A t \in Tiers : Members(t)' \subseteq Members(t)
  BY <1>1, <1>2, MembersAre
<1>6. Searched' /\ Copies'
  BY <1>1, <1>3, <1>5, SearchedKept, InvIs DEF Copies
<1>7. Remains(h)
  BY <1>1, <1>2, <1>3, GoneIs, IdleIs DEF Remains
<1>8. \A m \in InSt : m \notin InImm
  BY TiersApart
<1> QED BY <1>1, <1>2, <1>3, <1>4, <1>6, <1>7, <1>8, NothingNew

\* clear empties the immediate caches.
LEMMA ClearStep ==
  ASSUME Inv, Typed', Shaped', NEW h \in Handlers, Clear(h)
  PROVE  Core'
<1>1. /\ UNCHANGED <<stale, doomed, built, index, audit, made, gone, stray, twice, restarts>>
      /\ DeletedBehind(InImm)
  BY DEF Clear, Past, Searchers
<1>2. InImm' = {} /\ InSt' = InSt /\ \A s \in Sessions : ToSet(imm'[s]) \subseteq ToSet(imm[s])
  BY ClearCaches, InvIs
<1>3. /\ op[h] = Idle /\ Others(h)
      /\ op'[h].pc = "clear" /\ op'[h].m = 0 /\ op'[h].tier = "none" /\ op'[h].ids = InImm
  BY ClearOp, InvIs
<1>4. Rests(h) /\ Looked(h)
  BY <1>3, RestsIs, InvIs, IdleIs DEF Looked
<1>5. /\ torn \subseteq torn' /\ \A e \in Ids \ InImm : row'[e] = row[e]
      /\ \A e \in InImm : row'[e] = "none" \/ (row'[e] = row[e] /\ e \in torn')
  BY <1>1, DeletedBehindIs, InvIs
<1>6. Modest(h)
  <2>1. \A m \in Ids : Holds(h, m)' => ~Unseen(m)
    BY <1>3, NamesIs DEF Holds, Unseen
  <2> QED BY <1>3, <2>1 DEF Modest, Claims
<1>7. \A t \in Tiers : Members(t)' \subseteq Members(t)
  BY <1>1, <1>2, <1>5, MembersAre
<1>8. Searched' /\ Copies'
  BY <1>1, <1>3, <1>7, IdleIs, SearchedKept, InvIs DEF Copies
<1>9. Remains(h)
  BY <1>1, <1>2, <1>3, <1>5, GoneIs DEF Remains
<1>10. \A m \in InSt : m \in Ids /\ m \notin InImm
  BY TiersApart, InvIs
<1> QED BY <1>1, <1>2, <1>4, <1>5, <1>6, <1>8, <1>9, <1>10, NothingNew

\* clear takes the listed memories out of the short-term caches, and their rows.
LEMMA ClearShortStep ==
  ASSUME Inv, Typed', Shaped', NEW h \in Handlers, ClearShort(h)
  PROVE  Core'
<1> DEFINE ids == InSt \ stale
<1>1. /\ UNCHANGED <<imm, lru, stale, doomed, built, index, audit, made, gone, stray, twice, restarts>>
      /\ st' = [s \in DOMAIN st |-> st[s] \ ids]
      /\ DeletedBehind(ids)
  BY DEF ClearShort, Past, Searchers, Members
<1>2. /\ op[h].pc = "clear" /\ op[h].m = 0 /\ Others(h)
      /\ op'[h].pc = "clearlong" /\ op'[h].m = 0 /\ op'[h].tier = "none" /\ op'[h].ids = op[h].ids
  BY ClearShortOp, InvIs
<1>3. ids \in SUBSET Ids /\ ids \subseteq InSt
  BY InvIs
<1> HIDE DEF ids
<1>4. /\ InImm' = InImm /\ InSt' = InSt \ ids /\ \A s \in Sessions : ToSet(imm'[s]) \subseteq ToSet(imm[s])
      /\ Rests(h) /\ Looked(h)
  BY <1>1, <1>2, StFewer, RestsIs, InvIs DEF Looked
<1>5. Modest(h)
  BY <1>2 DEF Modest, Holds, Claims
<1>6. /\ torn \subseteq torn' /\ \A e \in Ids \ ids : row'[e] = row[e]
      /\ \A e \in ids : row'[e] = "none" \/ (row'[e] = row[e] /\ e \in torn')
  BY <1>1, <1>3, DeletedBehindIs, InvIs
<1>7. \A t \in Tiers : Members(t)' \subseteq Members(t)
  BY <1>1, <1>4, <1>6, MembersAre
<1>8. Searched' /\ Copies'
  BY <1>1, <1>2, <1>7, SearchedKept, InvIs DEF Copies
<1>9. Remains(h)
  <2>1. \A e \in gone : e \notin op[h].ids
    BY InvIs DEF Forgotten
  <2> QED BY <1>1, <1>2, <1>3, <1>4, <1>6, <2>1, GoneIs DEF Remains
<1>10. \A m \in InImm \cup InSt : m \in Ids
  BY InvIs
<1>11. \A m \in InSt : m \notin InImm
  BY TiersApart
<1> QED BY <1>1, <1>3, <1>4, <1>5, <1>6, <1>8, <1>9, <1>10, <1>11, NothingNew

\* clear deletes the long-term rows and drops the searchers, or stops half way.
LEMMA ClearLongStep ==
  ASSUME Inv, Typed', Shaped', NEW h \in Handlers, ClearLong(h)
  PROVE  Core'
<1>1. UNCHANGED <<imm, st, stale, doomed, audit, made, gone, stray, twice, torn, restarts>>
  BY DEF ClearLong, Past, Caches
<1>2. /\ \E ids \in SUBSET Members("long_term") : row' = Without(ids)
      /\ op[h].pc = "clearlong"
      /\ (Invalidate /\ DoneInvalid(h)) \/ (Done(h) /\ UNCHANGED <<built, index>>)
  BY DEF ClearLong, Searchers
<1>3. PICK ids \in SUBSET Members("long_term") : row' = Without(ids)
  BY <1>2
<1>4. \A e \in Ids : row'[e] = IF e \in ids THEN "none" ELSE row[e]
  BY <1>3, WithoutIs, InvIs
<1>5. Rests(h) /\ op'[h] = Idle /\ Looked(h)
  BY <1>2, RestsIs, DoneIs, InvIs DEF Looked
<1>6. InImm' = InImm /\ InSt' = InSt
  BY <1>1, SameCaches
<1>7. \A t \in Tiers : Members(t)' \subseteq Members(t)
  BY <1>1, <1>4, <1>6, MembersAre
<1>8. Modest(h)
  BY <1>5, ModestIs, InvIs
<1>9. Searched' /\ Copies' /\ \A t \in Tiers : \A m \in Ids : index'[t][m] \in {0, index[t][m]}
  <2>1. CASE Invalidate /\ DoneInvalid(h)
    <3>1. built' = {} /\ \A t \in Tiers : \A m \in Ids : index'[t][m] = 0
      BY <2>1, InvalidateIs
    <3> QED BY <3>1 DEF Searched, Copies
  <2>2. CASE Done(h) /\ UNCHANGED <<built, index>>
    <3>1. Others(h)
      BY <2>2, DoneIs, InvIs
    <3> QED BY <1>1, <1>2, <1>7, <2>2, <3>1, SearchedKept, InvIs DEF Copies
  <2> QED BY <1>2, <2>1, <2>2
<1>10. Remains(h)
  BY <1>1, <1>4, <1>5, <1>6, <1>9, GoneIs, IdleIs DEF Remains
<1>11. \A m \in InImm \cup InSt : m \in Ids /\ (row[m] = "long_term" => m \in torn)
  BY TiersApart, InvIs
<1>12. \A m \in ids : row[m] = "long_term"
  BY <1>3, MembersAre
<1> QED BY <1>1, <1>4, <1>5, <1>6, <1>8, <1>9, <1>10, <1>11, <1>12, NothingNew

-----------------------------------------------------------------------------
(* Steps that store.                                                       *)

\* A memory that nobody else knows is stored.
LEMMA NewStored ==
  ASSUME Inv, Typed', Shaped', NEW h \in Handlers, NEW m \in Ids, NEW t \in Tiers,
         Others(h), op[h].pc # "look", op[h].pc # "index",
         op'[h].pc = "look", op'[h].m = m, op'[h].tier = t, op'[h].ids = {},
         Unseen(m), \A k \in Handlers \ {h} : ~Holds(k, m),
         \/ m = made + 1 /\ made' = made + 1
         \/ Holds(h, m) /\ Said(m, t) /\ made' = made,
         row'[m] = t \/ (row'[m] = row[m] /\ m \in torn'),
         \A e \in Ids \ {m} : row'[e] \in {row[e], "none"},
         InImm' \subseteq InImm \cup {m}, m \in InImm' <=> t = "immediate",
         InSt' \subseteq InSt \cup {m}, m \in InSt' <=> t = "short_term",
         \A s \in Sessions : ToSet(imm'[s]) \subseteq ToSet(imm[s]) \/ Len(imm'[s]) <= MaxSize,
         doomed' \subseteq doomed \cup ((InImm \cup InSt) \ (InImm' \cup InSt')),
         torn \subseteq torn', \A e \in (InImm' \cup InSt') \ {m} : row'[e] = row[e] \/ e \in torn',
         \A e \in Ids \ {m} : row'[e] = "immediate" /\ e \in InImm \cup doomed => e \in InImm' \cup doomed' \cup torn',
         UNCHANGED <<stale, built, index, audit, gone, stray, twice, restarts>>
  PROVE  Core'
<1>1. /\ Rests(h) /\ Looked(h) /\ row[m] = "none"
      /\ made' \in {made, made + 1} /\ made \in Nat /\ m # 0
  BY RestsIs, InvIs, MemoryAssumption, NamesIs DEF RestTyped, Looked, Unseen
<1>2. /\ op'[h].pc = "look" /\ t # "decay"
      /\ \A e : Holds(h, e)' => e = m
      /\ \A e \in Ids : \A u \in Tiers : ~Claims(op[h], e, u)'
      /\ Looks(m, t)'
  BY NamesIs DEF Holds, Claims, Looks
<1>3. Fresh' /\ Pending'
  <2>1. ASSUME NEW e \in Ids, Unseen(e), ~Holds(h, e), made' = made \/ e # made + 1
        PROVE  Unseen(e)' /\ ~Holds(h, e)'
    <3>1. e # m
      BY <1>1, <2>1
    <3> QED BY <1>2, <2>1, <3>1 DEF Unseen
  <2> QED BY <1>1, <1>2, <2>1, InvIs, Secrets
<1>4. OneTier'
  <2>1. m > made \/ Said(m, t)
    BY <1>1
  <2>2. ASSUME NEW e \in Ids, NEW u \in Tiers,
               row'[e] = u \/ (u = "immediate" /\ e \in InImm') \/ (u = "short_term" /\ e \in InSt')
        PROVE  Said(e, u) \/ (e > made /\ u = t)
    <3>1. CASE e = m
      BY <1>1, <2>1, <2>2, <3>1, NamesIs DEF Unseen, Tiers
    <3>2. CASE e # m
      BY <2>2, <3>2, NamesIs DEF Said, Tiers
    <3> QED BY <3>1, <3>2
  <2>3. \A e \in Ids : \A u \in Tiers : ~Claims(op[h], e, u)'
    BY <1>2
  <2>4. \A b \in audit' \ audit : \A e \in {b[1], b[2]} : e \in Ids => Said(e, "long_term")
    OBVIOUS
  <2>6. Typed /\ Fresh /\ OneTier /\ Rests(h)
    BY <1>1, InvIs
  <2>5. \A e \in Ids : \A u \in Tiers :
          /\ row'[e] = u \/ (u = "immediate" /\ e \in InImm') \/ (u = "short_term" /\ e \in InSt')
               => Said(e, u) \/ (e > made /\ u = t)
          /\ h \in Handlers /\ Claims(op[h], e, u)' => Said(e, u) \/ (e > made /\ u = t)
    BY <2>2, <2>3
  <2> QED BY <2>4, <2>5, <2>6, OneTierTurn
<1>5. Leaving'
  <2>1. /\ \A e \in Ids : e \in InImm' \cup InSt' /\ e \notin InImm \cup InSt
              => e \notin doomed /\ \A k \in Handlers \ {h} : ~Holds(k, e)
        /\ \A e \in Ids : row'[e] # "none" /\ row[e] = "none" => \A k \in Handlers \ {h} : ~Holds(k, e)
    <3> SUFFICES ASSUME NEW e \in Ids, e # m
                 PROVE  ~(e \in InImm' \cup InSt' /\ e \notin InImm \cup InSt) /\ ~(row'[e] # "none" /\ row[e] = "none")
      BY DEF Unseen
    <3> QED OBVIOUS
  <2>2. \A e \in Ids : e \in doomed' /\ e \in InImm' \cup InSt' => e \in doomed
    OBVIOUS
  <2>3. doomed' \subseteq Ids
    BY DEF Typed, RestTyped
  <2> QED BY <1>1, <1>2, <2>1, <2>2, <2>3, InvIs, LeavingTurn
<1>6. ASSUME NEW u \in Tiers PROVE Members(u)' \subseteq Members(u) \cup {e \in {m} : u = t}
  <2>1. CASE u = "immediate"
    BY <2>1, MembersAre
  <2>2. CASE u = "short_term"
    BY <2>2, MembersAre
  <2>3. CASE u = "long_term"
    BY <2>3, MembersAre
  <2> QED BY <2>1, <2>2, <2>3, NamesIs
<1>7. Collected'
  <2>1. \A u \in Tiers : \A e \in Members(u)' : e \in Members(u) \cup stray' \/ Looks(e, u)'
    BY <1>2, <1>6
  <2> QED BY <1>1, <1>2, <2>1, InvIs, CollectedTurn
<1>8. Searched' /\ Copies'
  <2>1. ASSUME NEW u \in built', NEW e \in Members(u)'
        PROVE  Looks(e, u)' \/ (u \in built /\ e \in Members(u) /\ index'[u][e] = index[u][e])
    <3>1. u \in Tiers /\ u \in built
      BY InvIs DEF RestTyped
    <3> QED BY <1>2, <1>6, <2>1, <3>1
  <2>2. Copies'
    BY InvIs DEF Copies
  <2> QED BY <1>1, <2>1, <2>2, InvIs, SearchedTurn
<1>9. Forgotten'
  <2>1. m \notin gone
    BY DEF Unseen
  <2> QED BY <1>1, <2>1, GoneIs, InvIs, ForgottenTurn
<1>10. CachedDurable'
  <2>1. \A e \in InImm' \cup InSt' : e = m \/ row'[e] = row[e] \/ e \in torn'
    OBVIOUS
  <2> QED BY <1>1, <2>1, InvIs DEF CachedDurable
<1>11. RowsCached'
  <2>1. ASSUME restarts = 0, NEW e \in Ids, row'[e] = "immediate" PROVE e \in InImm' \cup doomed' \cup torn'
    <3>1. CASE e = m
      BY <1>1, <2>1, <3>1
    <3>2. CASE e # m
      <4>1. row[e] = "immediate"
        BY <2>1, <3>2
      <4>2. e \in InImm \cup doomed \cup torn
        BY <2>1, <4>1, InvIs DEF RowsCached
      <4> QED BY <1>1, <2>1, <3>2, <4>2
    <3> QED BY <3>1, <3>2
  <2> QED BY <2>1 DEF RowsCached
<1>12. Bounded'
  BY <1>1, <1>2, InvIs, BoundedFewer DEF Typed
<1> QED BY <1>3, <1>4, <1>5, <1>7, <1>8, <1>9, <1>10, <1>11, <1>12 DEF Core

\* A new memory that waits to be stored.
LEMMA NewPending ==
  ASSUME Inv, Typed', Shaped', NEW h \in Handlers, op[h] = Idle, made < MaxMemories, made' = made + 1, Others(h),
         op'[h].pc \in {"put", "resolve"}, op'[h].m = made + 1, op'[h].tier \in {"short_term", "long_term"},
         \A e \in op'[h].ids : e \in Ids /\ row[e] = "long_term" /\ op'[h].pc = "resolve",
         NEW dead \in SUBSET InSt,
         InImm' = InImm, InSt' = InSt \ dead,
         \A s \in Sessions : ToSet(imm'[s]) \subseteq ToSet(imm[s]),
         torn \subseteq torn', \A e \in Ids \ dead : row'[e] = row[e],
         \A e \in dead : row'[e] = "none" \/ (row'[e] = row[e] /\ e \in torn'),
         UNCHANGED <<stale, doomed, built, index, audit, gone, stray, twice, restarts>>
  PROVE  Core'
<1> DEFINE m == made + 1
<1>1. Rests(h) /\ Looked(h) /\ made' \in {made, made + 1} /\ made \in Nat /\ m \in Ids /\ m > made /\ m # 0
  BY RestsIs, InvIs, NewMemory, MemoryAssumption, NamesIs, IdleIs DEF RestTyped, Looked
<1>2. Unseen(m) /\ (\A k \in Handlers : ~Holds(k, m)) /\ m \notin dead
  BY <1>1, InvIs DEF Fresh, Unseen
<1>3. \A e \in op'[h].ids : e # m /\ ~Unseen(e) /\ Said(e, "long_term") /\ e \notin gone
  BY <1>2, TiersApart DEF Unseen, Said
<1>4. \A e : Holds(h, e)' => e = m \/ e \in op'[h].ids
  BY DEF Holds
<1>5. \A e \in Ids : Unseen(e) => Unseen(e)'
  BY DEF Unseen
<1> HIDE DEF m
<1>6. Fresh' /\ Pending'
  <2>1. made' # made /\ m = made + 1
    BY <1>1 DEF m
  <2>2. \A e \in Ids : Unseen(e) /\ e # m => Unseen(e)' /\ ~Holds(h, e)'
    BY <1>3, <1>4, <1>5
  <2>3. \E e \in Ids : /\ e = op'[h].m /\ e \notin op'[h].ids
                       /\ Unseen(e)' /\ \A k \in Handlers \ {h} : ~Holds(k, e)
    BY <1>1, <1>2, <1>3, <1>5, <2>1
  <2> QED BY <1>1, <2>1, <2>2, <2>3, InvIs, Secrets
<1>7. OneTier'
  <2>1. \A e \in Ids : \A u \in Tiers :
          row'[e] = u \/ (u = "immediate" /\ e \in InImm') \/ (u = "short_term" /\ e \in InSt') => Said(e, u)
    BY DEF Said, Tiers
  <2>2. \A e \in Ids : \A u \in Tiers : Claims(op[h], e, u)' => Said(e, u) \/ (e > made /\ u = op'[h].tier)
    BY <1>1, <1>3 DEF Claims, m
  <2>3. \A b \in audit' \ audit : \A e \in {b[1], b[2]} : e \in Ids => Said(e, "long_term")
    OBVIOUS
  <2>4. Typed /\ Fresh /\ OneTier /\ Rests(h)
    BY <1>1, InvIs
  <2>5. PICK v : v = op'[h].tier
    OBVIOUS
  <2>6. \A e \in Ids : \A u \in Tiers :
          /\ row'[e] = u \/ (u = "immediate" /\ e \in InImm') \/ (u = "short_term" /\ e \in InSt')
               => Said(e, u) \/ (e > made /\ u = v) \/ (u = "long_term" /\ e \in torn')
          /\ h \in Handlers /\ Claims(op[h], e, u)'
               => Said(e, u) \/ (e > made /\ u = v) \/ (u = "long_term" /\ e \in torn')
    BY <2>1, <2>2, <2>5
  <2> QED BY <2>3, <2>4, <2>6, OneTierTurn
<1>8. Leaving'
  <2>1. \A e \in Ids : ~(e \in InImm' \cup InSt' /\ e \notin InImm \cup InSt) /\ ~(row'[e] # "none" /\ row[e] = "none")
    OBVIOUS
  <2>2. doomed' \subseteq Ids
    BY DEF Typed, RestTyped
  <2> QED BY <1>1, <2>1, <2>2, InvIs, LeavingTurn
<1>9. \A u \in Tiers : Members(u)' \subseteq Members(u)
  BY MembersAre, NamesIs
<1>10. Collected'
  BY <1>1, <1>9, InvIs, CollectedTurn
<1>11. Searched' /\ Copies'
  BY <1>9, IdleIs, SearchedKept, InvIs DEF Copies
<1>12. Forgotten'
  <2>1. m \notin gone
    BY <1>2 DEF Unseen
  <2> QED BY <1>1, <1>3, <2>1, GoneIs, InvIs, ForgottenTurn DEF m
<1>13. CachedDurable'
  <2>1. \A e \in InImm' \cup InSt' : e \in Ids /\ e \notin dead
    BY InvIs, TiersApart
  <2> QED BY <2>1, InvIs DEF CachedDurable
<1>14. RowsCached'
  <2>1. \A e \in Ids : row'[e] = "immediate" => row[e] = "immediate"
    OBVIOUS
  <2> QED BY <2>1, InvIs DEF RowsCached
<1>15. Bounded'
  BY <1>1, InvIs, BoundedFewer DEF Typed
<1> QED BY <1>6, <1>7, <1>8, <1>10, <1>11, <1>12, <1>13, <1>14, <1>15 DEF Core

\* Nobody knows the next memory.
LEMMA NextIs ==
  ASSUME Inv, made < MaxMemories
  PROVE  /\ made + 1 \in Ids /\ Unseen(made + 1)
         /\ \A k \in Handlers : ~Holds(k, made + 1)
<1>1. made + 1 \in Ids /\ made + 1 > made
  BY InvIs, NewMemory
<1> QED BY <1>1, InvIs DEF Fresh

\* A memory is stored, and its handler looks at the searchers next.
LEMMA StoredStep ==
  ASSUME Inv, Typed', Shaped', NEW h \in Handlers, NEW m \in Ids, NEW t \in Tiers,
         op[h].pc # "look", op[h].pc # "index",
         SavedBehind(m, t) \/ (Saved(m, t) /\ UNCHANGED torn), Go(h, "look", m, t, {}),
         Unseen(m), \A k \in Handlers \ {h} : ~Holds(k, m),
         \/ m = made + 1 /\ made' = made + 1
         \/ Holds(h, m) /\ Said(m, t) /\ made' = made,
         InImm' = InImm, t # "immediate",
         InSt' = InSt \cup {e \in {m} : t = "short_term"},
         \A s \in Sessions : ToSet(imm'[s]) \subseteq ToSet(imm[s]),
         UNCHANGED <<stale, doomed, built, index, audit, gone, stray, twice, restarts>>
  PROVE  Core'
<1>1. Others(h) /\ op'[h].pc = "look" /\ op'[h].m = m /\ op'[h].tier = t /\ op'[h].ids = {}
  BY GoLook, InvIs
<1>2. /\ torn \subseteq torn' /\ \A e \in Ids \ {m} : row'[e] = row[e]
      /\ row'[m] = t \/ (row'[m] = row[m] /\ m \in torn')
  <2>1. CASE SavedBehind(m, t)
    BY <2>1, SavedBehindIs, InvIs
  <2>2. CASE Saved(m, t) /\ UNCHANGED torn
    BY <2>2, SavedIs, InvIs
  <2> QED BY <2>1, <2>2
<1>3. m \notin InImm \cup InSt
  BY DEF Unseen
<1>4. InSt' \subseteq InSt \cup {m} /\ (m \in InSt' <=> t = "short_term") /\ m \notin InImm'
  BY <1>3
<1>5. \A e \in InImm \cup InSt : e \in Ids
  BY InvIs
<1>6. \A e \in (InImm' \cup InSt') \ {m} : row'[e] = row[e] \/ e \in torn'
  BY <1>2, <1>4, <1>5
<1>7. \A e \in Ids \ {m} : row'[e] \in {row[e], "none"}
  BY <1>2
<1>8. \A e \in Ids \ {m} : row'[e] = "immediate" /\ e \in InImm \cup doomed => e \in InImm' \cup doomed' \cup torn'
  OBVIOUS
<1> QED BY <1>1, <1>2, <1>4, <1>6, <1>7, <1>8, NewStored

\* add to the immediate tier, with its evictions.
LEMMA RememberImmediateStep ==
  ASSUME Inv, Typed', Shaped', NEW h \in Handlers, RememberImmediate(h)
  PROVE  Core'
<1>1. /\ op[h] = Idle /\ made < MaxMemories /\ made' = made + 1
      /\ doomed' = doomed \cup Evicted
      /\ Go(h, "look", made + 1, "immediate", {})
      /\ UNCHANGED <<stale, built, index, audit, gone, stray, twice, restarts>>
  BY ImmediateParts DEF Searchers
<1>2. PICK m : m = made + 1
  OBVIOUS
<1>3. m \in Ids /\ Unseen(m) /\ \A k \in Handlers : ~Holds(k, m)
  BY <1>1, <1>2, NextIs
<1>4. /\ Dropped \subseteq InImm /\ Evicted \subseteq InImm
      /\ InImm' = (InImm \ (Dropped \cup Evicted)) \cup {m} /\ InSt' = InSt
      /\ \A s \in Sessions : ToSet(imm'[s]) \subseteq ToSet(imm[s]) \/ Len(imm'[s]) <= MaxSize
  BY <1>2, ImmediateCaches, InvIs
<1>5. /\ Others(h) /\ "immediate" \in Tiers
      /\ op'[h].pc = "look" /\ op'[h].m = m /\ op'[h].tier = "immediate" /\ op'[h].ids = {}
  BY <1>1, <1>2, <1>3, GoLook, InvIs, NamesIs
<1>6. /\ m \notin InImm \cup InSt
      /\ \A e \in InImm \cup InSt : e \in Ids
      /\ \A e \in InImm : e \notin InSt
  BY <1>3, InvIs, TiersApart DEF Unseen
<1>7. /\ torn \subseteq torn'
      /\ row'[m] = "immediate" \/ (row'[m] = row[m] /\ m \in torn')
      /\ \A e \in Ids \ {m} : row'[e] = IF e \in Dropped THEN "none" ELSE row[e]
  <2>1. \/ row' = [Without(Dropped) EXCEPT ![m] = "immediate"] /\ torn' = torn
        \/ row' = Without(Dropped) /\ torn' = torn \cup {m}
    BY <1>2, ImmediateParts DEF Sound
  <2>2. Without(Dropped) = [e \in Ids |-> IF e \in Dropped THEN "none" ELSE row[e]]
    BY DEF Without
  <2>3. m \notin Dropped
    BY <1>4, <1>6
  <2> HIDE DEF Dropped
  <2> QED BY <1>3, <2>1, <2>2, <2>3
<1>8. doomed' \subseteq doomed \cup ((InImm \cup InSt) \ (InImm' \cup InSt'))
  BY <1>1, <1>4, <1>6
<1>9. \A e \in (InImm' \cup InSt') \ {m} : row'[e] = row[e] \/ e \in torn'
  BY <1>4, <1>6, <1>7
<1>10. \A e \in Ids \ {m} : row'[e] = "immediate" /\ e \in InImm \cup doomed => e \in InImm' \cup doomed' \cup torn'
  BY <1>1, <1>4, <1>7
<1>11. m \in InImm' /\ m \notin InSt' /\ InImm' \subseteq InImm \cup {m}
  BY <1>4, <1>6
<1>12. \A e \in Ids \ {m} : row'[e] \in {row[e], "none"}
  BY <1>7
<1>13. op[h].pc # "look" /\ op[h].pc # "index" /\ m = made + 1 /\ made' = made + 1
  BY <1>1, <1>2, IdleIs
<1>14. \A k \in Handlers \ {h} : ~Holds(k, m)
  BY <1>3
<1>15. InSt' \subseteq InSt \cup {m} /\ (m \in InImm' <=> "immediate" = "immediate") /\ (m \in InSt' <=> "immediate" = "short_term")
  BY <1>4, <1>11
<1> HIDE DEF Dropped, Evicted
<1> QED BY <1>1, <1>3, <1>4, <1>5, <1>7, <1>8, <1>9, <1>10, <1>11, <1>12, <1>13, <1>14, <1>15, NewStored

\* add to the short-term tier, or the wait for room.
LEMMA RememberShortStep ==
  ASSUME Inv, Typed', Shaped', NEW h \in Handlers, RememberShort(h)
  PROVE  Core'
<1>1. /\ InImm' = InImm /\ \A s \in Sessions : ToSet(imm'[s]) \subseteq ToSet(imm[s])
      /\ op[h] = Idle /\ made < MaxMemories /\ made' = made + 1
      /\ UNCHANGED <<stale, doomed, built, index, audit, gone, stray, twice, restarts>>
  BY ShortCaches, InvIs
<1>2. PICK m : m = made + 1
  OBVIOUS
<1>3. m \in Ids /\ Unseen(m) /\ \A k \in Handlers : ~Holds(k, m)
  BY <1>1, <1>2, NextIs
<1>4. CASE InSt' = InSt \cup {made + 1} /\ SavedBehind(made + 1, "short_term")
             /\ Go(h, "look", made + 1, "short_term", {})
  <2>1. InSt' = InSt \cup {e \in {m} : "short_term" = "short_term"}
    BY <1>2, <1>4
  <2>2. SavedBehind(m, "short_term") /\ Go(h, "look", m, "short_term", {})
    BY <1>2, <1>4
  <2>3. op[h].pc # "look" /\ op[h].pc # "index" /\ m = made + 1 /\ made' = made + 1
    BY <1>1, <1>2, IdleIs
  <2> QED BY <1>1, <1>3, <2>1, <2>2, <2>3, NamesIs, StoredStep
<1>5. ASSUME NEW dead \in SUBSET (InSt \cap stale), InSt' = InSt \ dead, DeletedBehind(dead),
             Go(h, "put", made + 1, "short_term", {})
      PROVE  Core'
  <2>1. /\ Others(h) /\ op'[h].pc = "put" /\ op'[h].m = made + 1 /\ op'[h].tier = "short_term"
        /\ op'[h].ids = {}
    BY <1>1, <1>5, NewOp, InvIs
  <2>2. dead \in SUBSET InSt /\ dead \in SUBSET Ids
    BY <1>5, InvIs
  <2>3. /\ torn \subseteq torn' /\ \A e \in Ids \ dead : row'[e] = row[e]
        /\ \A e \in dead : row'[e] = "none" \/ (row'[e] = row[e] /\ e \in torn')
    BY <1>5, <2>2, DeletedBehindIs, InvIs
  <2> QED BY <1>1, <1>5, <2>1, <2>2, <2>3, NewPending
<1> QED BY <1>4, <1>5, ShortCaches, InvIs

\* add to the short-term tier once there is room.
LEMMA PutShortStep ==
  ASSUME Inv, Typed', Shaped', NEW h \in Handlers, PutShort(h)
  PROVE  Core'
<1>1. /\ InImm' = InImm /\ \A s \in Sessions : ToSet(imm'[s]) \subseteq ToSet(imm[s])
      /\ op[h].pc = "put" /\ op[h].m \in Ids
      /\ UNCHANGED <<made, stale, doomed, built, index, audit, gone, stray, twice, restarts>>
  BY PutCaches, InvIs
<1>2. PICK m \in Ids : m = op[h].m
  BY <1>1
<1>3. /\ Unseen(m) /\ \A k \in Handlers \ {h} : ~Holds(k, m)
      /\ Holds(h, m) /\ Said(m, "short_term")
  <2>1. op[h].tier = "short_term"
    BY <1>1, OpIs, InvIs DEF Kind
  <2>2. Unseen(m) /\ \A k \in Handlers \ {h} : ~Holds(k, m)
    BY <1>1, <1>2, InvIs DEF Pending
  <2> QED BY <1>1, <1>2, <2>1, <2>2 DEF Holds, Said, Claims
<1>4. CASE InSt' = InSt \cup {op[h].m} /\ SavedBehind(op[h].m, "short_term")
             /\ Go(h, "look", op[h].m, "short_term", {})
  <2>1. InSt' = InSt \cup {e \in {m} : "short_term" = "short_term"}
    BY <1>2, <1>4
  <2>2. SavedBehind(m, "short_term") /\ Go(h, "look", m, "short_term", {})
    BY <1>2, <1>4
  <2>3. op[h].pc # "look" /\ op[h].pc # "index" /\ made' = made
    BY <1>1
  <2> QED BY <1>1, <1>3, <2>1, <2>2, <2>3, NamesIs, StoredStep
<1>5. CASE InSt' = InSt /\ Done(h) /\ UNCHANGED <<row, torn>>
  <2>1. Others(h) /\ op'[h] = Idle
    BY <1>5, DoneIs, InvIs
  <2>2. Rests(h) /\ Modest(h) /\ Looked(h)
    BY <1>1, <2>1, RestsIs, ModestIs, InvIs DEF Looked
  <2>3. \A t \in Tiers : Members(t)' \subseteq Members(t)
    BY <1>1, <1>5, MembersAre
  <2>4. Searched' /\ Copies'
    BY <1>1, <2>1, <2>3, SearchedKept, InvIs DEF Copies
  <2>5. Remains(h)
    BY <1>1, <1>5, <2>1, GoneIs, IdleIs DEF Remains
  <2> QED BY <1>1, <1>5, <2>2, <2>4, <2>5, NothingNew
<1> QED BY <1>4, <1>5, PutCaches, InvIs

\* add to the long-term tier: stored at once, or a conflict to resolve, or a
\* failure.
LEMMA RememberLongStep ==
  ASSUME Inv, Typed', Shaped', NEW h \in Handlers, RememberLong(h)
  PROVE  Core'
<1>1. /\ op[h] = Idle /\ made < MaxMemories /\ made' = made + 1
      /\ UNCHANGED <<imm, st, stale, doomed, built, index, audit, gone, stray, twice, torn, restarts>>
  BY DEF RememberLong, Caches, Searchers
<1>2. InImm' = InImm /\ InSt' = InSt /\ \A s \in Sessions : ToSet(imm'[s]) \subseteq ToSet(imm[s])
  BY <1>1, SameCaches
<1>3. CASE Saved(made + 1, "long_term") /\ Go(h, "look", made + 1, "long_term", {})
  <2>1. PICK m : m = made + 1
    OBVIOUS
  <2>2. m \in Ids /\ Unseen(m) /\ \A k \in Handlers : ~Holds(k, m)
    BY <1>1, <2>1, NextIs
  <2>3. InSt' = InSt \cup {e \in {m} : "long_term" = "short_term"}
    BY <1>2
  <2>4. Saved(m, "long_term") /\ Go(h, "look", m, "long_term", {})
    BY <1>3, <2>1
  <2>5. op[h].pc # "look" /\ op[h].pc # "index" /\ m = made + 1 /\ made' = made + 1
    BY <1>1, <2>1, IdleIs
  <2> QED BY <1>1, <1>2, <2>2, <2>3, <2>4, <2>5, NamesIs, StoredStep
<1>4. ASSUME NEW target \in Members("long_term"), Go(h, "resolve", made + 1, "long_term", {target}),
             UNCHANGED row
      PROVE  Core'
  <2>1. target \in Ids /\ row[target] = "long_term"
    BY <1>4, MembersAre
  <2>2. /\ Others(h) /\ op'[h].pc = "resolve" /\ op'[h].m = made + 1 /\ op'[h].tier = "long_term"
        /\ op'[h].ids = {target}
    BY <1>1, <1>4, <2>1, NewOp, InvIs
  <2>3. {} \in SUBSET InSt /\ InSt' = InSt \ {} /\ \A e \in Ids : row'[e] = row[e]
    BY <1>2, <1>4
  <2> QED BY <1>1, <1>2, <1>4, <2>1, <2>2, <2>3, NewPending
<1>5. CASE UNCHANGED <<row, op>>
  BY <1>1, <1>2, <1>5, NobodyMoves
<1> QED BY <1>3, <1>4, <1>5 DEF RememberLong

\* The conflict resolution keeps both memories.
LEMMA ResolveAddStep ==
  ASSUME Inv, Typed', Shaped', NEW h \in Handlers, ResolveAdd(h)
  PROVE  Core'
<1>1. /\ op[h].pc = "resolve" /\ op[h].m \in Ids
      /\ Saved(op[h].m, "long_term") /\ Go(h, "look", op[h].m, "long_term", {})
      /\ UNCHANGED <<imm, st, made, stale, doomed, built, index, audit, gone, stray, twice, torn, restarts>>
  BY OpIs, InvIs DEF ResolveAdd, Caches, Rest, Searchers, OnMemory
<1>2. InImm' = InImm /\ InSt' = InSt /\ \A s \in Sessions : ToSet(imm'[s]) \subseteq ToSet(imm[s])
  BY <1>1, SameCaches
<1>3. PICK m \in Ids : m = op[h].m
  BY <1>1
<1>4. /\ Unseen(m) /\ \A k \in Handlers \ {h} : ~Holds(k, m)
      /\ Holds(h, m) /\ Said(m, "long_term")
  <2>1. op[h].tier = "long_term"
    BY <1>1, OpIs, InvIs DEF Kind
  <2>2. Unseen(m) /\ \A k \in Handlers \ {h} : ~Holds(k, m)
    BY <1>1, <1>3, InvIs DEF Pending
  <2> QED BY <1>1, <1>3, <2>1, <2>2 DEF Holds, Said, Claims
<1>5. Saved(m, "long_term") /\ Go(h, "look", m, "long_term", {})
  BY <1>1, <1>3
<1>6. InSt' = InSt \cup {e \in {m} : "long_term" = "short_term"}
  BY <1>2
<1>7. op[h].pc # "look" /\ op[h].pc # "index" /\ made' = made
  BY <1>1
<1> QED BY <1>1, <1>2, <1>4, <1>5, <1>6, <1>7, NamesIs, StoredStep


\* Copies are saved: what had gone meanwhile is astray.
LEMMA SavedAgainStep ==
  ASSUME Inv, Typed', Shaped', NEW h \in Handlers, Others(h), op[h].pc # "look", op[h].pc # "index",
         NEW S \in SUBSET Ids, \A m \in S : Said(m, "long_term") /\ Holds(h, m),
         \A e \in Ids : row'[e] = IF e \in S THEN "long_term" ELSE row[e],
         stray \subseteq stray', \A m \in S : row[m] # "long_term" => m \in stray',
         audit \subseteq audit',
         \A a \in audit' \ audit : \A m \in {a[1], a[2]} : m \in Ids => Said(m, "long_term") /\ Holds(h, m),
         op'[h].pc \in {"idle", "decay", "rebuild"},
         \A e \in Ids : Holds(h, e)' => Holds(h, e),
         \A e \in Ids : \A u \in Tiers : Claims(op[h], e, u)' => Said(e, u),
         gone' \subseteq gone, gone' \cap S = {},
         \A e \in gone' : e \notin op'[h].ids /\ (op'[h].m = e => op'[h].pc \in {"rollback", "rebuild"}),
         UNCHANGED <<imm, st, stale, doomed, built, index, made, twice, torn, restarts>>
  PROVE  Core'
<1>1. Rests(h) /\ Looked(h) /\ InImm' = InImm /\ InSt' = InSt
  BY RestsIs, SameCaches, InvIs DEF Looked
<1>2. Fresh' /\ Pending'
  <2>1. \A e \in Ids : Unseen(e) /\ ~Holds(h, e) => Unseen(e)'
    <3> SUFFICES ASSUME NEW e \in Ids, Unseen(e), ~Holds(h, e) PROVE Unseen(e)'
      OBVIOUS
    <3>1. row'[e] = row[e] /\ \A a \in audit' \ audit : e # a[1] /\ e # a[2]
      OBVIOUS
    <3> QED BY <1>1, <3>1 DEF Unseen
  <2> QED BY <1>1, <2>1, InvIs, Secrets
<1>3. OneTier'
  <2>1. \A e \in Ids : \A u \in Tiers :
          row'[e] = u \/ (u = "immediate" /\ e \in InImm') \/ (u = "short_term" /\ e \in InSt') => Said(e, u)
    BY <1>1 DEF Said
  <2>2. Typed /\ Fresh /\ OneTier /\ torn \subseteq torn'
    BY InvIs
  <2> QED BY <1>1, <2>1, <2>2, OneTierTurn
<1>4. Leaving'
  <2>1. /\ \A e \in Ids : row'[e] # "none" /\ row[e] = "none" => e \in stray' /\ Holds(h, e)
        /\ \A e \in Ids : ~(e \in InImm' \cup InSt' /\ e \notin InImm \cup InSt)
    BY <1>1
  <2>2. doomed' \subseteq Ids
    BY DEF Typed, RestTyped
  <2> QED BY <1>1, <2>1, <2>2, InvIs, LeavingTurn
<1>5. \A e \in InImm \cup InSt : e \in Ids /\ (e \in S => e \in torn)
  <2>1. /\ "immediate" \in Tiers /\ "short_term" \in Tiers /\ "long_term" \in Tiers
        /\ InImm \cup InSt \subseteq Ids
    BY InvIs, NamesIs
  <2>2. \A e \in InImm : Said(e, "immediate")
    BY DEF Said
  <2>3. \A e \in InSt : Said(e, "short_term")
    BY DEF Said
  <2> QED BY <2>1, <2>2, <2>3, InvIs DEF OneTier
<1>6. ASSUME NEW u \in Tiers PROVE Members(u)' \subseteq Members(u) \cup stray'
  <2>1. CASE u = "immediate"
    BY <1>1, <2>1, MembersAre
  <2>2. CASE u = "short_term"
    BY <1>1, <2>2, MembersAre
  <2>3. CASE u = "long_term"
    <3>1. \A e \in Ids : row'[e] = "long_term" /\ e \notin stray' => row[e] = "long_term"
      OBVIOUS
    <3> QED BY <2>3, <3>1, MembersAre
  <2> QED BY <2>1, <2>2, <2>3, NamesIs
<1>7. Collected'
  BY <1>1, <1>6, InvIs, CollectedTurn
<1>8. Searched' /\ Copies'
  <2>1. ASSUME NEW u \in built', NEW e \in Members(u)'
        PROVE  e \in stray' \/ (u \in built /\ e \in Members(u) /\ index'[u][e] = index[u][e])
    <3>1. u \in Tiers
      BY InvIs
    <3> QED BY <1>6, <2>1, <3>1
  <2>2. Copies'
    BY InvIs DEF Copies
  <2> QED BY <1>1, <2>1, <2>2, InvIs, SearchedTurn
<1>9. Forgotten'
  BY <1>1, GoneIs, InvIs, ForgottenTurn
<1>10. CachedDurable'
  BY <1>1, <1>5, InvIs DEF CachedDurable
<1>11. RowsCached'
  <2>1. \A e \in Ids : row'[e] = "immediate" => row[e] = "immediate"
    OBVIOUS
  <2> QED BY <1>1, <2>1, InvIs DEF RowsCached
<1>12. Bounded'
  BY <1>1, InvIs, BoundedFewer DEF Typed
<1> QED BY <1>2, <1>3, <1>4, <1>7, <1>8, <1>9, <1>10, <1>11, <1>12 DEF Core

\* The conflict resolution writes the new memory into the old one, and audits
\* it if it can.
LEMMA ResolveMergeStep ==
  ASSUME Inv, Typed', Shaped', NEW h \in Handlers, ResolveMerge(h)
  PROVE  Core'
<1>1. /\ op[h].pc = "resolve" /\ Done(h)
      /\ UNCHANGED <<imm, st, stale, doomed, built, index, made, gone, twice, torn, restarts>>
  BY DEF ResolveMerge, Caches, Searchers
<1>2. PICK target \in op[h].ids : SavedAgain(target) /\ audit' \in {audit, audit \cup {<<target, op[h].m>>}}
  BY DEF ResolveMerge
<1>3. target \in Ids /\ op[h].m \in Ids /\ op[h].tier = "long_term" /\ target # 0
  BY <1>1, OpIs, InvIs, NamesIs DEF Kind, OnMemory
<1>4. /\ Said(target, "long_term") /\ Holds(h, target)
      /\ Said(op[h].m, "long_term") /\ Holds(h, op[h].m)
  BY <1>1, <1>3 DEF Said, Claims, Holds
<1>5. /\ \A e \in Ids : row'[e] = IF e \in {target} THEN "long_term" ELSE row[e]
      /\ stray \subseteq stray' /\ \A m \in {target} : row[m] # "long_term" => m \in stray'
  BY <1>2, <1>3, SavedAgainIs, InvIs
<1>6. Others(h) /\ op'[h] = Idle
  BY <1>1, DoneIs, InvIs
<1>7. \A a \in audit' \ audit : \A m \in {a[1], a[2]} : m \in Ids => Said(m, "long_term") /\ Holds(h, m)
  BY <1>2, <1>4
<1>8. target \notin gone /\ \A e \in gone : e # 0
  BY GoneIs, InvIs DEF Forgotten
<1>9. {target} \in SUBSET Ids /\ \A m \in {target} : Said(m, "long_term") /\ Holds(h, m)
  BY <1>3, <1>4
<1>10. /\ \A e \in Ids : Holds(h, e)' => Holds(h, e)
       /\ \A e \in Ids : \A u \in Tiers : Claims(op[h], e, u)' => Said(e, u)
       /\ op'[h].pc \in {"idle", "decay", "rebuild"}
  BY <1>6, IdleIs DEF Holds, Claims
<1>11. /\ audit \subseteq audit' /\ gone' \cap {target} = {} /\ gone' \subseteq gone
       /\ op[h].pc # "look" /\ op[h].pc # "index"
  BY <1>1, <1>2, <1>8
<1>12. \A e \in gone' : e \notin op'[h].ids /\ (op'[h].m = e => op'[h].pc \in {"rollback", "rebuild"})
  BY <1>1, <1>6, <1>8, IdleIs
<1> QED BY <1>1, <1>5, <1>6, <1>7, <1>9, <1>10, <1>11, <1>12, SavedAgainStep

\* The decay saves a memory with its new weight.
LEMMA DecaySaveStep ==
  ASSUME Inv, Typed', Shaped', NEW h \in Handlers, DecaySave(h)
  PROVE  Core'
<1>1. UNCHANGED <<imm, st, stale, doomed, built, index, audit, made, gone, twice, torn, restarts>>
  BY DEF DecaySave, Caches, Past, Searchers
<1>2. PICK m \in op[h].ids :
        /\ m \in Ids /\ SavedAgain(m) /\ op[h].pc = "decay"
        /\ Others(h)
        /\ op'[h].pc = "decay" /\ op'[h].m = op[h].m /\ op'[h].tier = op[h].tier
        /\ op'[h].ids = op[h].ids \ {m}
  BY DecaySaveOp, InvIs
<1>3. op[h].tier = "decay" /\ op[h].m = 0
  BY <1>2, OpIs, InvIs DEF Kind, OnMemory
<1>4. Said(m, "long_term") /\ Holds(h, m)
  BY <1>2, <1>3 DEF Said, Claims, Holds
<1>5. /\ \A e \in Ids : row'[e] = IF e \in {m} THEN "long_term" ELSE row[e]
      /\ stray \subseteq stray' /\ \A e \in {m} : row[e] # "long_term" => e \in stray'
  BY <1>2, SavedAgainIs, InvIs
<1>6. m \notin gone /\ \A e \in gone : e # 0 /\ e \notin op[h].ids
  BY <1>2, GoneIs, InvIs DEF Forgotten
<1>7. \A e \in Ids : Holds(h, e)' => Holds(h, e)
  BY <1>2 DEF Holds
<1>8. ASSUME NEW e \in Ids, NEW u \in Tiers, Claims(op[h], e, u)' PROVE Said(e, u)
  <2>1. Claims(op[h], e, u)
    BY <1>2, <1>8 DEF Claims
  <2> QED BY <2>1 DEF Said
<1>9. {m} \in SUBSET Ids /\ gone' \cap {m} = {} /\ gone' \subseteq gone /\ audit \subseteq audit' /\ audit' \ audit = {}
  BY <1>1, <1>2, <1>6
<1>10. \A e \in gone' : e \notin op'[h].ids /\ (op'[h].m = e => op'[h].pc \in {"rollback", "rebuild"})
  BY <1>1, <1>2, <1>3, <1>6
<1>11. \A e \in {m} : Said(e, "long_term") /\ Holds(h, e)
  BY <1>4
<1>12. op[h].pc # "look" /\ op[h].pc # "index" /\ op'[h].pc \in {"idle", "decay", "rebuild"} /\ Others(h)
  BY <1>2
<1> QED BY <1>1, <1>5, <1>7, <1>8, <1>9, <1>10, <1>11, <1>12, SavedAgainStep

\* A rollback restores the memory that was kept.
LEMMA RollbackKeptStep ==
  ASSUME Inv, Typed', Shaped', NEW h \in Handlers, RollbackKept(h)
  PROVE  Core'
<1>1. /\ UNCHANGED <<imm, st, stale, doomed, built, index, audit, made, gone, twice, torn, restarts>>
      /\ row' = [m \in Ids |-> IF m \in op[h].ids THEN "long_term" ELSE row[m]]
      /\ stray' = stray \cup {m \in op[h].ids : row[m] # "long_term"}
  BY DEF RollbackKept, Caches, Past, Searchers
<1>2. /\ op[h].pc = "rollback" /\ op[h].m \in Ids /\ op[h].tier = "long_term" /\ Others(h)
      /\ op'[h].pc = "rebuild" /\ op'[h].m = op[h].m /\ op'[h].tier = op[h].tier
      /\ op'[h].ids = op[h].ids
  BY RollbackKeptOp, InvIs
<1>3. PICK S \in SUBSET Ids : S = op[h].ids
  BY OpIs, InvIs
<1>4. \A m \in S : Said(m, "long_term") /\ Holds(h, m)
  BY <1>2, <1>3 DEF Said, Claims, Holds
<1>5. \A e \in gone : e \notin S
  BY <1>3, InvIs DEF Forgotten
<1>6. \A e \in Ids : Holds(h, e)' => Holds(h, e)
  BY <1>2 DEF Holds
<1>7. ASSUME NEW e \in Ids, NEW u \in Tiers, Claims(op[h], e, u)' PROVE Said(e, u)
  <2>1. Claims(op[h], e, u)
    BY <1>2, <1>7 DEF Claims
  <2> QED BY <2>1 DEF Said
<1>8. audit' \ audit = {} /\ gone' \cap S = {} /\ gone' \subseteq gone /\ audit \subseteq audit'
  BY <1>1, <1>5
<1>9. /\ \A e \in Ids : row'[e] = IF e \in S THEN "long_term" ELSE row[e]
      /\ stray \subseteq stray' /\ \A m \in S : row[m] # "long_term" => m \in stray'
  BY <1>1, <1>3
<1>10. \A e \in gone' : e \notin op'[h].ids /\ (op'[h].m = e => op'[h].pc \in {"rollback", "rebuild"})
  BY <1>1, <1>2, <1>3, <1>5
<1>11. op[h].pc # "look" /\ op[h].pc # "index" /\ op'[h].pc \in {"idle", "decay", "rebuild"}
  BY <1>2
<1> QED BY <1>1, <1>2, <1>3, <1>4, <1>6, <1>7, <1>8, <1>9, <1>10, <1>11, SavedAgainStep

\* A rollback restores the memory that was merged away.
LEMMA RollbackMergedStep ==
  ASSUME Inv, Typed', Shaped', NEW h \in Handlers, RollbackMerged(h)
  PROVE  Core'
<1>1. /\ UNCHANGED <<imm, st, stale, doomed, built, index, audit, made, twice, torn, restarts>>
      /\ op[h].pc = "rebuild" /\ SavedAgain(op[h].m) /\ gone' = gone \ {op[h].m} /\ Done(h)
  BY DEF RollbackMerged, Caches, Searchers
<1>2. PICK m \in Ids : m = op[h].m
  BY <1>1, OpIs, InvIs DEF OnMemory
<1>3. op[h].tier = "long_term"
  BY <1>1, OpIs, InvIs DEF Kind
<1>4. Said(m, "long_term") /\ Holds(h, m)
  BY <1>1, <1>2, <1>3 DEF Said, Claims, Holds
<1>5. /\ \A e \in Ids : row'[e] = IF e \in {m} THEN "long_term" ELSE row[e]
      /\ stray \subseteq stray' /\ \A e \in {m} : row[e] # "long_term" => e \in stray'
  BY <1>1, <1>2, SavedAgainIs, InvIs
<1>6. Others(h) /\ op'[h] = Idle
  BY <1>1, DoneIs, InvIs
<1>7. /\ \A e \in Ids : Holds(h, e)' => Holds(h, e)
      /\ \A e \in Ids : \A u \in Tiers : Claims(op[h], e, u)' => Said(e, u)
      /\ op'[h].pc \in {"idle", "decay", "rebuild"}
  BY <1>6, IdleIs DEF Holds, Claims
<1>8. audit' \ audit = {} /\ gone' \cap {m} = {} /\ {m} \in SUBSET Ids /\ gone' \subseteq gone
      /\ audit \subseteq audit' /\ op[h].pc # "look" /\ op[h].pc # "index"
  BY <1>1, <1>2
<1>9. \A e \in gone' : e \notin op'[h].ids /\ (op'[h].m = e => op'[h].pc \in {"rollback", "rebuild"})
  BY <1>1, <1>6, GoneIs, IdleIs
<1>10. \A e \in {m} : Said(e, "long_term") /\ Holds(h, e)
  BY <1>4
<1> QED BY <1>1, <1>5, <1>6, <1>7, <1>8, <1>9, <1>10, SavedAgainStep


-----------------------------------------------------------------------------
(* The update of the administration, and the end of the process.           *)

\* update writes the cache and the row, or fails to write the row.
LEMMA UpdateCachedStep ==
  ASSUME Inv, Typed', Shaped', NEW h \in Handlers, UpdateCached(h)
  PROVE  Core'
<1> DEFINE back == IF op[h].m \in Members(op[h].tier) THEN {} ELSE {op[h].m}
<1>1. /\ stale' = stale \ {op[h].m}
      /\ Invalidate /\ DoneInvalid(h)
      /\ stray' = stray \cup back
      /\ \/ Saved(op[h].m, op[h].tier) /\ torn' = torn \cup back
         \/ torn' = torn \cup {op[h].m} /\ row' = row
      /\ UNCHANGED <<doomed, audit, made, gone, twice, restarts>>
      /\ op[h].tier # "immediate" => imm' = imm
  <2>1. op[h].tier \in {"immediate", "short_term"}
    BY UpdateCaches, InvIs, NamesIs
  <2>2. op[h].tier # "immediate" => imm' = imm
    BY <2>1 DEF UpdateCached
  <2> QED BY <2>2, Zenon DEF UpdateCached, Past
<1>2. PICK m \in Ids, t \in Tiers : op[h].pc = "update" /\ m = op[h].m /\ t = op[h].tier /\ t # "long_term"
  BY UpdateCaches, InvIs
<1>3. /\ InImm' = IF t = "immediate" /\ SessionOf[m] \in ToSet(lru) THEN InImm \cup {m} ELSE InImm
      /\ InSt' = IF t = "short_term" THEN InSt \cup {m} ELSE InSt
      /\ \A s \in Sessions : ToSet(imm'[s]) \subseteq ToSet(imm[s])
                               \cup (IF s = SessionOf[m] THEN {m} ELSE {})
  BY <1>2, UpdateCaches, InvIs
<1>4. /\ stray \subseteq stray' /\ torn \subseteq torn'
      /\ m \in Members(t) \/ (m \in stray' /\ m \in torn')
      /\ \A e \in Ids \ {m} : row'[e] = row[e]
      /\ row'[m] = t \/ (row'[m] = row[m] /\ m \in torn')
  <2>1. CASE Saved(op[h].m, op[h].tier) /\ torn' = torn \cup back
    BY <1>1, <1>2, <2>1, SavedIs, InvIs
  <2>2. CASE torn' = torn \cup {op[h].m} /\ row' = row
    BY <1>1, <1>2, <2>2
  <2> QED BY <1>1, <2>1, <2>2
<1> HIDE DEF back
<1>5. Rests(h) /\ op'[h] = Idle /\ Looked(h)
  BY <1>1, <1>2, RestsIs, InvIs DEF Looked
<1>6. Holds(h, m) /\ Said(m, t) /\ op[h].pc # "look" /\ op[h].pc # "index"
  BY <1>2 DEF Holds, Said, Claims
<1>7. /\ \A e : ~Holds(h, e)'
      /\ \A e \in Ids : \A u \in Tiers : ~Claims(op[h], e, u)'
  BY <1>5, IdleIs DEF Holds, Claims
<1>8. /\ m \in InImm => t = "immediate"
      /\ m \in InSt => t = "short_term"
      /\ m \notin torn /\ row[m] # "none" => t = row[m]
      /\ row[m] \in {"none", t, "long_term"}
  <2>1. \A u \in Tiers : Said(m, u) => t = u \/ (m \in torn /\ u = "long_term")
    BY <1>2, <1>6, InvIs DEF OneTier
  <2>2. "immediate" \in Tiers /\ "short_term" \in Tiers /\ row[m] \in Tiers \cup {"none"}
    BY InvIs, NamesIs
  <2> QED BY <2>1, <2>2 DEF Said
<1>9. Fresh' /\ Pending'
  <2>1. \A e \in Ids : Unseen(e) /\ ~Holds(h, e) => Unseen(e)' /\ ~Holds(h, e)'
    <3> SUFFICES ASSUME NEW e \in Ids, Unseen(e), ~Holds(h, e) PROVE Unseen(e)'
      BY <1>7
    <3>1. e # m
      BY <1>6
    <3>2. row'[e] = row[e] /\ e \notin InImm' \cup InSt'
      BY <1>3, <1>4, <3>1 DEF Unseen
    <3> QED BY <1>1, <3>2 DEF Unseen
  <2> QED BY <1>1, <1>5, <2>1, InvIs, IdleIs, Secrets
<1>10. OneTier'
  <2>1. ASSUME NEW e \in Ids, NEW u \in Tiers,
               row'[e] = u \/ (u = "immediate" /\ e \in InImm') \/ (u = "short_term" /\ e \in InSt')
        PROVE  Said(e, u)
    <3>1. row'[e] = row[e] \/ (e = m /\ row'[e] = t)
      BY <1>4
    <3> QED BY <1>3, <1>6, <2>1, <3>1 DEF Said
  <2>2. audit' \ audit = {} /\ Typed /\ Fresh /\ OneTier
    BY <1>1, InvIs
  <2> QED BY <1>4, <1>5, <1>7, <2>1, <2>2, OneTierTurn
<1>11. (m \in stray' /\ m \in torn') \/ (m \in InImm /\ t = "immediate") \/ (m \in InSt /\ t = "short_term")
  BY <1>2, <1>4, MembersAre
<1>12. Leaving'
  <2>1. ASSUME NEW e \in Ids, e \in InImm' \cup InSt', e \notin InImm \cup InSt
        PROVE  e \in stray' \cap torn' /\ Holds(h, e)
    <3>1. e = m
      BY <1>3, <2>1
    <3> QED BY <1>3, <1>6, <1>11, <2>1, <3>1
  <2>2. ASSUME NEW e \in Ids, row'[e] # "none", row[e] = "none"
        PROVE  e \in InImm \cup InSt \/ (e \in stray' /\ Holds(h, e))
    <3>1. e = m
      BY <1>4, <2>2
    <3> QED BY <1>6, <1>11, <2>2, <3>1
  <2>3. \A e \in Ids : e \in doomed' /\ e \in InImm' \cup InSt' => e \in doomed
    BY <1>1
  <2>4. doomed' \subseteq Ids
    BY DEF Typed, RestTyped
  <2> QED BY <1>4, <1>5, <2>1, <2>2, <2>3, <2>4, InvIs, IdleIs, LeavingTurn
<1>13. ASSUME NEW u \in Tiers PROVE Members(u)' \subseteq Members(u) \cup stray'
  <2>1. CASE u = "immediate"
    BY <1>3, <1>11, <2>1, <1>8, MembersAre
  <2>2. CASE u = "short_term"
    <3>1. ASSUME NEW e, e \in InSt', e \notin stale', e \notin stray' PROVE e \in InSt \ stale
      <4>1. CASE e = m
        BY <1>3, <1>4, <1>8, <3>1, <4>1, MembersAre
      <4>2. CASE e # m
        BY <1>1, <1>2, <1>3, <3>1, <4>2
      <4> QED BY <4>1, <4>2
    <3> QED BY <2>2, <3>1, MembersAre
  <2>3. CASE u = "long_term"
    <3>1. \A e \in Ids : row'[e] = "long_term" => row[e] = "long_term"
      BY <1>2, <1>4
    <3> QED BY <2>3, <3>1, MembersAre
  <2> QED BY <2>1, <2>2, <2>3, NamesIs
<1>14. Collected'
  BY <1>4, <1>5, <1>13, InvIs, IdleIs, CollectedTurn
<1>15. Searched' /\ Copies'
  BY <1>1, InvalidateIs DEF Searched, Copies
<1>16. Forgotten'
  <2>1. m \notin gone
    <3>1. \A e \in gone : op[h].m # e
      BY <1>2, InvIs DEF Forgotten
    <3> QED BY <1>2, <3>1
  <2>2. ASSUME NEW e \in gone'
        PROVE  /\ row'[e] = "none" /\ e \notin InImm' \cup InSt'
               /\ \A u \in Tiers : index'[u][e] > 0 => e \in twice'
               /\ h \in Handlers => e \notin op'[h].ids /\ op'[h].m # e
    <3>1. e \in Ids /\ e # 0 /\ e # m /\ row[e] = "none" /\ e \notin InImm \cup InSt
      BY <1>1, <2>1, GoneIs
    <3>2. \A u \in Tiers : index'[u][e] = 0
      BY <1>1, <3>1, InvalidateIs
    <3>3. row'[e] = "none" /\ e \notin InImm' \cup InSt'
      BY <1>3, <1>4, <3>1
    <3> QED BY <1>5, <3>1, <3>2, <3>3, IdleIs
  <2> QED BY <1>1, <1>5, <2>2, InvIs, ForgottenTurn
<1>17. CachedDurable'
  <2>1. \A e \in InImm \cup InSt : e \in Ids
    BY InvIs
  <2>2. ASSUME NEW e \in InImm' \ torn' PROVE row'[e] = "immediate"
    <3>1. CASE e # m
      <4>1. e \in InImm /\ row'[e] = row[e] /\ e \notin torn
        BY <1>3, <1>4, <2>1, <2>2, <3>1
      <4> QED BY <4>1, InvIs DEF CachedDurable
    <3>2. CASE e = m
      BY <1>3, <1>4, <1>8, <2>2, <3>2
    <3> QED BY <3>1, <3>2
  <2>3. ASSUME NEW e \in InSt' \ torn' PROVE row'[e] = "short_term"
    <3>1. CASE e # m
      <4>1. e \in InSt /\ row'[e] = row[e] /\ e \notin torn
        BY <1>3, <1>4, <2>1, <2>3, <3>1
      <4> QED BY <4>1, InvIs DEF CachedDurable
    <3>2. CASE e = m
      BY <1>3, <1>4, <1>8, <2>3, <3>2
    <3> QED BY <3>1, <3>2
  <2> QED BY <2>2, <2>3 DEF CachedDurable
<1>18. RowsCached'
  <2>1. ASSUME restarts = 0, NEW e \in Ids, row'[e] = "immediate" PROVE e \in InImm' \cup doomed' \cup torn'
    <3>1. CASE e = m
      <4>1. m \in torn' \/ t = "immediate"
        BY <1>4, <2>1, <3>1
      <4> QED BY <1>2, <1>3, <1>11, <3>1, <4>1
    <3>2. CASE e # m
      <4>1. e \in InImm \cup doomed \cup torn
        BY <1>4, <2>1, <3>2, InvIs DEF RowsCached
      <4> QED BY <1>1, <1>3, <1>4, <4>1
    <3> QED BY <3>1, <3>2
  <2> QED BY <1>1, <2>1 DEF RowsCached
<1>19. Bounded'
  <2>1. ASSUME NEW s \in Sessions
        PROVE  ToSet(imm'[s]) \subseteq ToSet(imm[s]) \cup {e \in Ids : h \in Handlers /\ Updater(h, s) /\ op[h].m = e}
    <3>1. CASE t # "immediate"
      BY <1>1, <1>2, <3>1
    <3>2. CASE t = "immediate" /\ s = SessionOf[m]
      <4>1. Updater(h, s)
        BY <1>2, <3>2 DEF Updater
      <4> QED BY <1>2, <1>3, <3>2, <4>1
    <3>3. CASE s # SessionOf[m]
      BY <1>3, <3>3
    <3> QED BY <3>1, <3>2, <3>3
  <2> QED BY <1>5, <2>1, InvIs, IdleIs, BoundedFewer DEF Typed
<1> QED BY <1>9, <1>10, <1>12, <1>14, <1>15, <1>16, <1>17, <1>18, <1>19 DEF Core

\* update by id writes a row of the long-term tier; the caches keep what they have.
LEMMA UpdateLongStep ==
  ASSUME Inv, Typed', Shaped', NEW h \in Handlers, UpdateLong(h)
  PROVE  Core'
<1>1. /\ op[h].pc = "update" /\ SavedAgain(op[h].m)
      /\ torn' = IF row[op[h].m] # "long_term" THEN torn \cup {op[h].m} ELSE torn
      /\ Invalidate /\ DoneInvalid(h)
      /\ UNCHANGED <<imm, st, stale, doomed, audit, made, gone, twice, restarts>>
  BY DEF UpdateLong, Caches, Past
<1>2. PICK m \in Ids : m = op[h].m
  BY <1>1, OpIs, InvIs DEF OnMemory
<1>3. /\ stray \subseteq stray' /\ torn \subseteq torn'
      /\ row'[m] = "long_term" /\ \A e \in Ids \ {m} : row'[e] = row[e]
      /\ row[m] # "long_term" => m \in stray' /\ m \in torn'
  BY <1>1, <1>2, SavedAgainIs, InvIs
<1>4. /\ Rests(h) /\ op'[h] = Idle /\ Looked(h) /\ InImm' = InImm /\ InSt' = InSt
      /\ Holds(h, m)
  BY <1>1, <1>2, RestsIs, SameCaches, InvIs DEF Looked, Holds
<1>5. /\ \A e : ~Holds(h, e)'
      /\ \A e \in Ids : \A u \in Tiers : ~Claims(op[h], e, u)'
  BY <1>4, IdleIs DEF Holds, Claims
<1>6. Fresh' /\ Pending'
  <2>1. \A e \in Ids : Unseen(e) /\ ~Holds(h, e) => Unseen(e)' /\ ~Holds(h, e)'
    <3> SUFFICES ASSUME NEW e \in Ids, Unseen(e), ~Holds(h, e) PROVE Unseen(e)'
      BY <1>5
    <3>1. e # m /\ row'[e] = row[e]
      BY <1>3, <1>4
    <3> QED BY <1>1, <1>4, <3>1 DEF Unseen
  <2> QED BY <1>1, <1>4, <2>1, InvIs, IdleIs, Secrets
<1>7. OneTier'
  <2>1. ASSUME NEW e \in Ids, NEW u \in Tiers,
               row'[e] = u \/ (u = "immediate" /\ e \in InImm') \/ (u = "short_term" /\ e \in InSt')
        PROVE  Said(e, u) \/ (u = "long_term" /\ e \in torn')
    <3>1. row'[e] = row[e] \/ (e = m /\ row'[e] = "long_term" /\ m \in torn')
      BY <1>3
    <3> QED BY <1>4, <2>1, <3>1 DEF Said
  <2>2. audit' \ audit = {} /\ Typed /\ Fresh /\ OneTier
    BY <1>1, InvIs
  <2>3. \A e \in Ids : \A u \in Tiers :
          /\ row'[e] = u \/ (u = "immediate" /\ e \in InImm') \/ (u = "short_term" /\ e \in InSt')
               => Said(e, u) \/ (e > made /\ u = "none") \/ (u = "long_term" /\ e \in torn')
          /\ h \in Handlers /\ Claims(op[h], e, u)'
               => Said(e, u) \/ (e > made /\ u = "none") \/ (u = "long_term" /\ e \in torn')
    BY <1>5, <2>1
  <2> QED BY <1>3, <1>4, <2>2, <2>3, OneTierTurn
<1>8. Leaving'
  <2>1. /\ \A e \in Ids : ~(e \in InImm' \cup InSt' /\ e \notin InImm \cup InSt)
        /\ \A e \in Ids : e \in doomed' /\ e \in InImm' \cup InSt' => e \in doomed
    BY <1>1, <1>4
  <2>2. ASSUME NEW e \in Ids, row'[e] # "none", row[e] = "none"
        PROVE  e \in stray' /\ Holds(h, e)
    <3>1. e = m
      BY <1>3, <2>2
    <3> QED BY <1>3, <1>4, <2>2, <3>1
  <2>3. doomed' \subseteq Ids
    BY DEF Typed, RestTyped
  <2> QED BY <1>3, <1>4, <2>1, <2>2, <2>3, InvIs, IdleIs, LeavingTurn
<1>9. ASSUME NEW u \in Tiers PROVE Members(u)' \subseteq Members(u) \cup stray'
  <2>1. CASE u = "immediate"
    BY <1>4, <2>1, MembersAre
  <2>2. CASE u = "short_term"
    BY <1>1, <1>4, <2>2, MembersAre
  <2>3. CASE u = "long_term"
    <3>1. \A e \in Ids : row'[e] = "long_term" /\ e \notin stray' => row[e] = "long_term"
      BY <1>3
    <3> QED BY <2>3, <3>1, MembersAre
  <2> QED BY <2>1, <2>2, <2>3, NamesIs
<1>10. Collected'
  BY <1>3, <1>4, <1>9, InvIs, IdleIs, CollectedTurn
<1>11. Searched' /\ Copies'
  BY <1>1, InvalidateIs DEF Searched, Copies
<1>12. Forgotten'
  <2>1. m \notin gone
    <3>1. \A e \in gone : op[h].m # e
      BY <1>1, InvIs DEF Forgotten
    <3> QED BY <1>2, <3>1
  <2>2. ASSUME NEW e \in gone'
        PROVE  /\ row'[e] = "none" /\ e \notin InImm' \cup InSt'
               /\ \A u \in Tiers : index'[u][e] > 0 => e \in twice'
               /\ h \in Handlers => e \notin op'[h].ids /\ op'[h].m # e
    <3>1. e \in Ids /\ e # 0 /\ e # m /\ row[e] = "none" /\ e \notin InImm \cup InSt
      BY <1>1, <2>1, GoneIs
    <3>2. \A u \in Tiers : index'[u][e] = 0
      BY <1>1, <3>1, InvalidateIs
    <3> QED BY <1>3, <1>4, <3>1, <3>2, IdleIs
  <2> QED BY <1>1, <1>4, <2>2, InvIs, ForgottenTurn
<1>13. CachedDurable'
  <2>1. ASSUME NEW e \in InImm \cup InSt, e \notin torn' PROVE row'[e] = row[e] /\ e \notin torn
    <3>1. CASE e = m
      <4>1. row[m] = "long_term"
        BY <1>3, <2>1, <3>1
      <4> QED BY <1>3, <2>1, <3>1, <4>1
    <3>2. CASE e # m
      BY <1>3, <2>1, <3>2, InvIs
    <3> QED BY <3>1, <3>2
  <2> QED BY <1>4, <2>1, InvIs DEF CachedDurable
<1>14. RowsCached'
  <2>1. \A e \in Ids : row'[e] = "immediate" => row[e] = "immediate"
    BY <1>3
  <2> QED BY <1>1, <1>3, <1>4, <2>1, InvIs DEF RowsCached
<1>15. Bounded'
  BY <1>1, <1>4, InvIs, IdleIs, BoundedFewer DEF Typed
<1> QED BY <1>6, <1>7, <1>8, <1>10, <1>11, <1>12, <1>13, <1>14, <1>15 DEF Core

\* A restart empties what is not stored and loads the rows.
LEMMA RestartStep ==
  ASSUME Inv, Typed', Shaped', Restart
  PROVE  Core'
<1>1. /\ UNCHANGED <<row, audit, made, gone, stray, twice, torn>> /\ restarts' = restarts + 1
      /\ doomed' = {} /\ Invalidate
      /\ op' = [h \in Handlers |-> Idle]
  BY DEF Restart
<1>2. /\ \A m : m \in InImm' => m \in Ids /\ row[m] = "immediate"
      /\ \A m : m \in InSt' => m \in Ids /\ row[m] = "short_term"
      /\ \A s \in Sessions : Len(imm'[s]) <= MaxSize
  BY RestartCaches, InvIs
<1>3. \A h \in Handlers : op'[h] = Idle
  BY <1>1
<1>4. /\ \A h \in Handlers : \A m \in Ids : ~Holds(h, m)'
      /\ \A h \in Handlers : \A m \in Ids : \A t \in Tiers : ~Claims(op[h], m, t)'
  BY <1>3, IdleIs DEF Holds, Claims
<1>5. Fresh'
  <2>1. \A m \in Ids : Unseen(m) => Unseen(m)'
    BY <1>1, <1>2 DEF Unseen
  <2> QED BY <1>1, <1>4, <2>1, InvIs DEF Fresh
<1>6. Pending'
  BY <1>3, IdleIs DEF Pending
<1>7. OneTier'
  <2>1. ASSUME NEW m \in Ids, NEW t \in Tiers, Said(m, t)' PROVE Said(m, t)
    BY <1>1, <1>2, <1>4, <2>1 DEF Said
  <2> QED BY <1>1, <2>1, InvIs DEF OneTier
<1>8. Leaving'
  BY <1>1, <1>3, IdleIs DEF Leaving
<1>9. Collected'
  BY <1>3, IdleIs DEF Collected
<1>10. Searched' /\ Copies'
  BY <1>1, InvalidateIs DEF Searched, Copies
<1>11. Forgotten'
  <2>1. ASSUME NEW m \in gone'
        PROVE  /\ row'[m] = "none" /\ m \notin InImm' \cup InSt'
               /\ \A t \in Tiers : index'[t][m] > 0 => m \in twice'
               /\ \A h \in Handlers : m \notin op'[h].ids /\ op'[h].m # m
    <3>1. m \in Ids /\ m # 0 /\ row[m] = "none"
      BY <1>1, GoneIs
    <3>2. \A t \in Tiers : index'[t][m] = 0
      BY <1>1, <3>1, InvalidateIs
    <3> QED BY <1>1, <1>2, <1>3, <3>1, <3>2, IdleIs
  <2> QED BY <2>1 DEF Forgotten
<1>12. CachedDurable'
  BY <1>1, <1>2 DEF CachedDurable
<1>13. RowsCached'
  BY <1>1, InvIs DEF RowsCached, RestTyped
<1>14. Bounded'
  BY <1>2, InvIs, BoundedTurn DEF Typed
<1> QED BY <1>5, <1>6, <1>7, <1>8, <1>9, <1>10, <1>11, <1>12, <1>13, <1>14 DEF Core


-----------------------------------------------------------------------------
(* The invariant.                                                          *)

\* The invariant holds of an empty memory.
LEMMA InvInit == Init => Inv
<1> SUFFICES ASSUME Init PROVE Inv
  OBVIOUS
<1>1. /\ row = [m \in Ids |-> "none"]
      /\ imm = [s \in Sessions |-> <<>>] /\ lru = <<>>
      /\ st = [s \in {} |-> {}]
      /\ stale = {} /\ old = {} /\ doomed = {}
      /\ built = {} /\ index = [t \in Tiers |-> [m \in Ids |-> 0]]
      /\ audit = {} /\ gone = {} /\ stray = {} /\ twice = {} /\ torn = {}
      /\ \A h \in Handlers : op[h] = Idle
      /\ op = [h \in Handlers |-> Idle]
      /\ made = 0 /\ restarts = 0
  BY DEF Init, Empty
<1>2. <<>> \in Seq(Ids) /\ <<>> \in Seq(Sessions) /\ Len(<<>>) = 0 /\ ToSet(<<>>) = {} /\ IsInjective(<<>>)
  <2>1. ToSet(<<>>) = {}
    BY EmptySeq, NoMembers
  <2> QED BY <2>1, EmptySeq DEF IsInjective
<1>3. InImm = {} /\ InSt = {} /\ DOMAIN st = {}
  BY <1>1, <1>2 DEF InImm, InSt
<1>4. CachesTyped /\ Shaped
  BY <1>1, <1>2, <1>3, MemoryAssumption DEF CachesTyped, Shaped
<1>5. RestTyped
  BY <1>1, MemoryAssumption DEF RestTyped
<1>6. op \in [Handlers -> Ops] /\ Kinded
  BY <1>1, IdleIs, KindIdle DEF Kinded
<1>7. \A h \in Handlers : \A m : ~Holds(h, m)
  BY <1>1, IdleIs DEF Holds
<1>8. Alone /\ Fresh /\ Pending /\ Leaving /\ Collected
  <2>1. \A m \in Ids : Unseen(m)
    BY <1>1, <1>3 DEF Unseen
  <2> QED BY <1>1, <1>7, <2>1, IdleIs DEF Alone, Fresh, Pending, Leaving, Collected
<1>9. OneTier
  <2>1. \A m \in Ids : \A t \in Tiers : ~Said(m, t)
    BY <1>1, <1>3, IdleIs DEF Said, Claims, Tiers
  <2> QED BY <2>1 DEF OneTier
<1>10. Forgotten /\ RowsCached /\ CachedDurable /\ Searched /\ Copies
  BY <1>1, <1>3 DEF Forgotten, RowsCached, CachedDurable, Searched, Copies
<1>11. Bounded
  <2>1. ASSUME NEW s \in Sessions PROVE ToSet(imm[s]) \cup Updating(s) = {}
    BY <1>1, <1>2, IdleIs DEF Updating, Updater
  <2>2. Cardinality({}) = 0 /\ Cardinality(Handlers) \in Nat
    BY FS_EmptySet, FS_CardinalityType, MemoryAssumption
  <2>3. 0 <= MaxSize + Cardinality(Handlers)
    BY <2>2, MemoryAssumption
  <2>4. ASSUME NEW s \in Sessions
        PROVE Cardinality(ToSet(imm[s]) \cup Updating(s)) <= MaxSize + Cardinality(Handlers)
    <3>1. Cardinality(ToSet(imm[s]) \cup Updating(s)) = 0
      BY <2>1, <2>2
    <3> QED BY <3>1, <2>3
  <2> QED BY <2>4 DEF Bounded
<1> QED BY <1>4, <1>5, <1>6, <1>8, <1>9, <1>10, <1>11 DEF Inv, Core, Typed

\* Every step keeps the invariant.
LEMMA InvNext == Inv /\ [Next]_vars => Inv'
<1> SUFFICES ASSUME Inv, [Next]_vars PROVE Inv'
  OBVIOUS
<1>1. Typed' /\ Shaped'
  BY TypedStep, InvIs
<1>2. Alone'
  BY AloneStep, InvIs
<1>3. ASSUME NEW h \in Handlers, Remember(h) PROVE Core'
  BY <1>1, <1>3, RememberImmediateStep, EvictRaisesStep, RememberShortStep, PutShortStep, RememberLongStep,
     ResolveAddStep, ResolveMergeStep, ResolveNoneStep, LookStep, IndexAddStep DEF Remember
<1>4. ASSUME NEW h \in Handlers, Recall(h) PROVE Core'
  BY <1>1, <1>4, BuildStep, RegisterStep DEF Recall
<1>5. ASSUME NEW h \in Handlers, Forgetting(h) PROVE Core'
  BY <1>1, <1>5, ForgetStep, ForgetRowStep, ForgetIndexStep DEF Forgetting
<1>6. ASSUME NEW h \in Handlers, Update(h) PROVE Core'
  BY <1>1, <1>6, UpdateGetStep, UpdateCachedStep, UpdateLongStep DEF Update
<1>7. ASSUME NEW h \in Handlers, Decaying(h) PROVE Core'
  BY <1>1, <1>7, DecayStep, DecaySaveStep, DecayForgetStep, SweepStep DEF Decaying
<1>8. ASSUME NEW h \in Handlers, Clearing(h) PROVE Core'
  BY <1>1, <1>8, ClearStep, ClearShortStep, ClearLongStep DEF Clearing
<1>9. ASSUME NEW h \in Handlers, RollingBack(h) PROVE Core'
  BY <1>1, <1>9, RollbackStep, RollbackKeptStep, RollbackMergedStep DEF RollingBack
<1>14. ASSUME NEW h \in Handlers, Raise(h) PROVE Core'
  BY <1>1, <1>14, RaiseStep
<1>10. ASSUME NEW m \in Ids, Age(m) \/ DropRow(m) \/ ExpiredGet(m) \/ \E t \in Tiers : Delete(m, t) PROVE Core'
  BY <1>1, <1>10, AgeStep, DropRowStep, ExpiredGetStep, DeleteStep
<1>11. ASSUME Restart PROVE Core'
  BY <1>1, <1>11, RestartStep
<1>12. ASSUME UNCHANGED vars PROVE Core'
  <2>1. /\ UNCHANGED <<op, audit, made, stray, twice, torn, restarts, built, index, gone, row, imm, st, stale, doomed>>
    BY <1>12 DEF vars
  <2>2. InImm' = InImm /\ InSt' = InSt /\ \A s \in Sessions : ToSet(imm'[s]) = ToSet(imm[s])
    BY <2>1, SameCaches
  <2> QED BY <1>1, <2>1, <2>2, NobodyMoves
<1>13. Core'
  BY <1>3, <1>4, <1>5, <1>6, <1>7, <1>8, <1>9, <1>10, <1>11, <1>12, <1>14 DEF Next
<1> QED BY <1>1, <1>2, <1>13 DEF Inv

\* Whatever the handlers do, what each part of the memory says of a memory fits
\* what the others say, and what a handler holds across an await is accounted for.
THEOREM Invariant == Spec => []Inv
<1> QED BY InvInit, InvNext, PTL DEF Spec

-----------------------------------------------------------------------------
(* The properties.                                                         *)

\* The rows, the caches and the searchers are what they should be; updates can
\* take the immediate cache of a session past its limit by one memory for each
\* handler, and no further (ImmediateMemory.put checks the limit, update does not).
THEOREM TypeCorrect == Spec => []TypeOK
<1>1. ASSUME Inv PROVE TypeOK
  <2>1. ASSUME NEW s \in Sessions PROVE Len(imm[s]) <= MaxSize + Cardinality(Handlers)
    <3> DEFINE A == ToSet(imm[s]) \cup Updating(s)
    <3>1. /\ IsFiniteSet(ToSet(imm[s])) /\ Cardinality(ToSet(imm[s])) = Len(imm[s])
          /\ Len(imm[s]) \in Nat
      BY <1>1, InvIs, LengthIs DEF CachesTyped, Shaped
    <3>2. IsFiniteSet(A) /\ Cardinality(A) <= MaxSize + Cardinality(Handlers)
      BY <1>1, <3>1, InvIs, UpdatingFinite, FS_Union DEF Bounded
    <3>3. ToSet(imm[s]) \in SUBSET A
      OBVIOUS
    <3> HIDE DEF A
    <3>4. Cardinality(ToSet(imm[s])) <= Cardinality(A)
      BY <3>2, <3>3, FS_Subset
    <3>5. Cardinality(A) \in Nat /\ Cardinality(Handlers) \in Nat
      BY <3>2, FS_CardinalityType, MemoryAssumption
    <3> QED BY <3>1, <3>2, <3>4, <3>5, MemoryAssumption
  <2>2. /\ row \in [Ids -> Tiers \cup {"none"}] /\ stale \subseteq old
        /\ index \in [Tiers -> [Ids -> Nat]]
        /\ \A t \in Tiers : t \notin built => index[t] = [m \in Ids |-> 0]
    BY <1>1, InvIs DEF RestTyped
  <2>3. Shaped
    BY <1>1, InvIs
  <2> QED BY <2>1, <2>2, <2>3 DEF TypeOK, Shaped
<1> QED BY <1>1, Invariant, PTL

\* A memory in a cache has its row, in the tier of the cache: whatever any number
\* of requests and jobs do, only a failing storage, or the administration reaching
\* the row through another tier or after an eviction, parts them (immediate.py:52-56).
THEOREM CacheIsDurable == Spec => []CachedDurable
<1>1. Inv => CachedDurable
  BY DEF Inv, Core
<1> QED BY <1>1, Invariant, PTL

\* recall misses only memories stored while the searcher was being built, put
\* back after they had gone, or that their writer has still to add.
THEOREM RecallIsComplete == Spec => []Complete
<1>1. ASSUME Inv PROVE Complete
  <2> DEFINE Writing == {op[h].m : h \in {g \in Handlers : op[g].pc \in {"look", "index"}}}
  <2>1. ASSUME NEW t \in built, NEW m \in Members(t), m \notin Found(t), m \notin stray PROVE m \in Writing
    <3>1. t \in Tiers /\ m \in Ids
      BY <1>1, MembersSaid, InvIs
    <3>2. index[t][m] = 0
      <4>1. Found(t) = {e \in Ids : index[t][e] > 0} /\ index[t][m] \in Nat
        BY <1>1, <2>1, <3>1, InvIs DEF Found
      <4> QED BY <2>1, <3>1, <4>1
    <3>3. Looks(m, t) \/ Adds(m, t)
      BY <1>1, <2>1, <3>2, InvIs DEF Searched
    <3> QED BY <3>3 DEF Looks, Adds
  <2> HIDE DEF Writing
  <2>2. \A t \in built : Members(t) \ Found(t) \subseteq stray \cup Writing
    BY <2>1
  <2> QED BY <2>2 DEF Complete, Writing
<1> QED BY <1>1, Invariant, PTL

\* A memory that was forgotten while nobody else held it does not come back,
\* whatever requests, jobs, failures and restarts follow, unless a merge is
\* rolled back or a searcher held it twice (hybrid_search.py:201-218).
THEOREM ForgottenIsGone == Spec => []ForgottenStays
<1>1. ASSUME Inv PROVE ForgottenStays
  <2>1. ASSUME NEW m \in gone, NEW t \in Tiers, m \in Found(t) PROVE m \in twice
    <3>1. m \notin Members(t) /\ (index[t][m] > 0 => m \in twice)
      BY <1>1, <2>1, TiersApart, GoneIs
    <3> QED BY <2>1, <3>1 DEF Found
  <2>2. \A m \in gone : row[m] = "none" /\ m \notin InImm \cup InSt
    BY <1>1, GoneIs
  <2> QED BY <2>1, <2>2 DEF ForgottenStays, Cached
<1> QED BY <1>1, Invariant, PTL

\* load_from_storage and the load of the short-term tier bring back what was
\* cached, if no failure and no foreign update had parted rows and caches.
THEOREM RestartBringsBack == Spec => RestartKeeps
<1> DEFINE Kept0 == Restart /\ restarts = 0 /\ doomed = {} /\ torn = {}
                      /\ (\A s \in Sessions : Len(imm[s]) <= MaxSize)
                    => InImm \cup (InSt \ old) \subseteq InImm' \cup InSt'
<1>1. ASSUME Inv PROVE Kept0
  <2> SUFFICES ASSUME Restart, restarts = 0, doomed = {}, torn = {}, \A s \in Sessions : Len(imm[s]) <= MaxSize
               PROVE  InImm \cup (InSt \ old) \subseteq InImm' \cup InSt'
    OBVIOUS
  <2>1. /\ imm' = Load(row).imm
        /\ \A m : m \in InSt' <=> m \in Ids /\ row[m] = "short_term" /\ m \notin old
        /\ CachesTyped'
    BY <1>1, RestartCaches, InvIs DEF Restart
  <2>2. /\ imm \in [Sessions -> Seq(Ids)] /\ lru \in Seq(Sessions) /\ IsInjective(lru) /\ Len(lru) <= MaxSessions
        /\ \A s \in Sessions : IsInjective(imm[s])
    BY <1>1, InvIs DEF CachesTyped, Shaped
  <2>3. ASSUME NEW m \in Ids, row[m] = "immediate"
        PROVE  m \in ToSet(imm[SessionOf[m]]) /\ SessionOf[m] \in ToSet(lru)
    <3>1. m \in InImm
      BY <1>1, <2>3, InvIs DEF RowsCached
    <3> QED BY <1>1, <3>1, InvIs, SessionIs
  <2>4. \A m \in Ids : row[m] = "immediate" => m \in ToSet(Load(row).imm[SessionOf[m]])
    BY <2>2, <2>3, LoadKeeps
  <2>5. ASSUME NEW m \in InImm PROVE m \in InImm'
    <3>1. m \in Ids /\ row[m] = "immediate" /\ SessionOf[m] \in Sessions
      BY <1>1, InvIs, SessionIs DEF CachedDurable
    <3> QED BY <2>1, <2>4, <3>1 DEF InImm
  <2>6. ASSUME NEW m \in InSt \ old PROVE m \in InSt'
    <3>1. m \in Ids /\ row[m] = "short_term"
      BY <1>1, InvIs DEF CachedDurable
    <3> QED BY <2>1, <3>1
  <2> QED BY <2>5, <2>6
<1>2. Inv /\ [Next]_vars => [Kept0]_vars
  BY <1>1
<1> QED BY <1>2, Invariant, PTL DEF Spec, RestartKeeps
=============================================================================
