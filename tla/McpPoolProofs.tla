----------------------------- MODULE McpPoolProofs -----------------------------
(***************************************************************************)
(* The properties of McpPool hold for any number of tasks, keys and        *)
(* connections, any bound on crashes and cancellations and any time.       *)
(***************************************************************************)
EXTENDS McpPool, ListsProofs

\* A connection belongs to the task that opened it until it is pooled, and
\* to the task whose call is on it.
Opening == {"handshake", "replace"}
Using   == {"handshake", "replace", "call"}

Placed(t) ==
  /\ pc[t] = "idle" => loc[t] = NoLocal
  /\ pc[t] = "spawn" => loc[t].conn = NoConn /\ loc[t].key \in Keys
  /\ pc[t] \in Using => loc[t].conn \in Conns /\ loc[t].key \in Keys

Typed == TypeOK /\ \A t \in Tasks : Placed(t)

\* What a task opens is not in the pool yet, nor among what the cleanup task
\* took out of it; no two tasks use one connection.
Unshared ==
  /\ \A t \in Tasks : pc[t] \in Opening => loc[t].conn \notin Pooled \cup ToSet(sweep)
  /\ \A s, t \in Tasks : pc[s] \in Using /\ pc[t] \in Using /\ s # t
                           => loc[s].conn # loc[t].conn
  /\ ToSet(sweep) \cap Pooled = {}

\* The idle time of a connection counts from the start of the call on it.
Timed ==
  /\ \A t \in Tasks : pc[t] = "call" /\ Alive(loc[t].conn)
                        => proc[loc[t].conn].used <= loc[t].waited
  /\ SweepSparesBusy

\* Until a task is cancelled, a connection owes an answer to its call at most.
Answering ==
  /\ \A t \in Tasks : pc[t] = "call" => proc[loc[t].conn].owed \in {<<>>, <<t>>}
  /\ \A t \in Tasks : pc[t] \in Opening => proc[loc[t].conn].owed = <<>>
  /\ \A c \in Pooled : ~ Locked(c) => proc[c].owed = <<>>
  /\ OwnAnswer

\* _pools is in order of use, keeps no empty list and no connection twice.
Ordered ==
  /\ IsInjective(order) /\ ToSet(order) = {k \in Keys : conns[k] # <<>>}
  /\ \A k \in Keys : IsInjective(conns[k])
  /\ \A k, l \in Keys : k # l => ToSet(conns[k]) \cap ToSet(conns[l]) = {}

\* A list that a task is about to append to is in _pools, or was dropped from it.
Awaited(t) == pc[t] = "replace" /\ ~ loc[t].orphan => conns[loc[t].key] # <<>>

Sound == Typed /\ Unshared /\ Ordered /\ \A t \in Tasks : Awaited(t)

-----------------------------------------------------------------------------
(* What the operators of the model do.                                     *)

LEMMA WithoutIs ==
  ASSUME conns \in [Keys -> Seq(Conns)], NEW S
  PROVE  /\ Without(S) \in [Keys -> Seq(Conns)]
         /\ \A k \in Keys : ToSet(Without(S)[k]) = ToSet(conns[k]) \ S
         /\ \A k \in Keys : IsInjective(conns[k]) => IsInjective(Without(S)[k])
<1> SUFFICES ASSUME NEW k \in Keys
             PROVE  /\ Without(S)[k] \in Seq(Conns)
                    /\ ToSet(Without(S)[k]) = ToSet(conns[k]) \ S
                    /\ IsInjective(conns[k]) => IsInjective(Without(S)[k])
  BY DEF Without
<1>1. Without(S)[k] = Only(conns[k], Conns \ S)
  BY DEF Without
<1>2. /\ Only(conns[k], Conns \ S) \in Seq(Conns \ S)
      /\ ToSet(Only(conns[k], Conns \ S)) = ToSet(conns[k]) \cap (Conns \ S)
      /\ IsInjective(conns[k]) => IsInjective(Only(conns[k], Conns \ S))
  BY OnlyMembers
<1>3. Only(conns[k], Conns \ S) \in Seq(Conns)
  BY <1>2, SeqMonotonic
<1>4. ToSet(conns[k]) \subseteq Conns
  BY MembersUpTo
<1> QED BY <1>1, <1>2, <1>3, <1>4

LEMMA KeptIs ==
  ASSUME order \in Seq(Keys), NEW ls
  PROVE  /\ Kept(ls) \in Seq(Keys)
         /\ ToSet(Kept(ls)) = ToSet(order) \cap {k \in Keys : ls[k] # <<>>}
         /\ IsInjective(order) => IsInjective(Kept(ls))
<1> DEFINE S == {k \in Keys : ls[k] # <<>>}
<1>1. /\ Only(order, S) \in Seq(S)
      /\ ToSet(Only(order, S)) = ToSet(order) \cap S
      /\ IsInjective(order) => IsInjective(Only(order, S))
  BY OnlyMembers
<1>2. Only(order, S) \in Seq(Keys)
  BY <1>1, SeqMonotonic
<1> QED BY <1>1, <1>2 DEF Kept

LEMMA TouchedIs ==
  ASSUME order \in Seq(Keys), NEW k \in Keys
  PROVE  /\ Touched(k) \in Seq(Keys)
         /\ ToSet(Touched(k)) = ToSet(order) \cup {k}
         /\ IsInjective(order) => IsInjective(Touched(k))
<1> DEFINE rest == Only(order, Keys \ {k})
<1>1. /\ rest \in Seq(Keys \ {k})
      /\ ToSet(rest) = ToSet(order) \cap (Keys \ {k})
      /\ IsInjective(order) => IsInjective(rest)
  BY OnlyMembers
<1>2. rest \in Seq(Keys)
  BY <1>1, SeqMonotonic
<1>3. ToSet(order) \subseteq Keys
  BY MembersUpTo
<1>4. Touched(k) = Append(rest, k)
  BY DEF Touched
<1> HIDE DEF rest
<1>5. /\ Append(rest, k) \in Seq(Keys)
      /\ ToSet(Append(rest, k)) = ToSet(rest) \cup {k}
      /\ IsInjective(rest) /\ k \notin ToSet(rest) => IsInjective(Append(rest, k))
  BY <1>2, AppendMembers
<1> QED BY <1>1, <1>3, <1>4, <1>5

LEMMA FlatIs ==
  ASSUME order \in Seq(Keys), conns \in [Keys -> Seq(Conns)]
  PROVE  /\ Flat \in Seq(Conns)
         /\ ToSet(Flat) = UNION {ToSet(conns[k]) : k \in ToSet(order)}
         /\ ToSet(Flat) \subseteq Pooled
         /\ Ordered => IsInjective(Flat) /\ ToSet(Flat) = Pooled
<1> DEFINE n == Len(order)
           ss == [i \in 1..n |-> conns[order[i]]]
<1>1. n \in Nat /\ DOMAIN order = 1..n /\ \A i \in 1..n : order[i] \in Keys
  BY LenProperties
<1>2. \A i \in 1..n : ss[i] = conns[order[i]] /\ ss[i] \in Seq(Conns)
  BY <1>1
<1>3. ss \in Seq(Seq(Conns)) /\ DOMAIN ss = 1..n
  BY <1>1, <1>2
<1>4. Flat = FlattenSeq(ss)
  BY DEF Flat
<1> HIDE DEF ss, n
<1>5. /\ Flat \in Seq(Conns)
      /\ ToSet(Flat) = UNION {ToSet(ss[i]) : i \in 1..n}
      /\ Apart(ss) /\ (\A i \in 1..n : IsInjective(ss[i])) => IsInjective(Flat)
  BY <1>3, <1>4, FlattenMembers
<1>6. ToSet(order) = {order[i] : i \in 1..n} /\ ToSet(order) \subseteq Keys
  BY <1>1 DEF ToSet
<1>7. ToSet(Flat) = UNION {ToSet(conns[k]) : k \in ToSet(order)}
  <2>1. ASSUME NEW i \in 1..n PROVE \E k \in ToSet(order) : ToSet(ss[i]) = ToSet(conns[k])
    <3>1. order[i] \in ToSet(order) /\ ToSet(ss[i]) = ToSet(conns[order[i]])
      BY <1>2, <1>6
    <3> QED BY <3>1
  <2>2. ASSUME NEW k \in ToSet(order) PROVE \E i \in 1..n : ToSet(ss[i]) = ToSet(conns[k])
    <3>1. PICK i \in 1..n : k = order[i]
      BY <1>6
    <3>2. ss[i] = conns[k]
      BY <1>2, <3>1
    <3> QED BY <3>2
  <2> QED BY <1>5, <2>1, <2>2
<1>8. ToSet(Flat) \subseteq Pooled
  BY <1>6, <1>7 DEF Pooled
<1>9. ASSUME Ordered PROVE IsInjective(Flat) /\ ToSet(Flat) = Pooled
  <2>1. \A i \in 1..n : IsInjective(ss[i])
    BY <1>1, <1>2, <1>9 DEF Ordered
  <2>2. Apart(ss)
    <3> SUFFICES ASSUME NEW i \in 1..n, NEW j \in 1..n, i # j
                 PROVE  ToSet(ss[i]) \cap ToSet(ss[j]) = {}
      BY <1>3 DEF Apart
    <3>1. order[i] # order[j]
      BY <1>1, <1>9 DEF Ordered, IsInjective
    <3> QED BY <1>1, <1>2, <1>9, <3>1 DEF Ordered
  <2>3. ASSUME NEW c \in Pooled PROVE c \in ToSet(Flat)
    <3>1. PICK k \in Keys : c \in ToSet(conns[k])
      BY DEF Pooled
    <3>2. conns[k] # <<>>
      BY <3>1, NoMembers
    <3>3. k \in ToSet(order)
      BY <1>9, <3>2 DEF Ordered
    <3> QED BY <1>7, <3>1, <3>3
  <2> QED BY <1>5, <1>8, <2>1, <2>2, <2>3
<1> QED BY <1>5, <1>7, <1>8, <1>9

LEMMA PooledIs ==
  ASSUME conns \in [Keys -> Seq(Conns)]
  PROVE  /\ Pooled \subseteq Conns
         /\ \A k \in Keys : ToSet(conns[k]) \subseteq Pooled
         /\ \A k \in Keys : \A i \in DOMAIN conns[k] : conns[k][i] \in ToSet(conns[k])
<1>1. \A k \in Keys : ToSet(conns[k]) \subseteq Conns
  BY MembersUpTo
<1> QED BY <1>1 DEF Pooled, ToSet

LEMMA PooledFinite ==
  ASSUME order \in Seq(Keys), conns \in [Keys -> Seq(Conns)], Ordered
  PROVE  /\ IsFiniteSet(Pooled)
         /\ Cardinality(Pooled) = Len(Flat)
<1>1. Flat \in Seq(Conns) /\ IsInjective(Flat) /\ ToSet(Flat) = Pooled
  BY FlatIs
<1>2. Len(Flat) \in Nat /\ Len(Flat) \in 0..Len(Flat)
  BY <1>1, LenProperties
<1>3. SubSeq(Flat, 1, Len(Flat)) = Flat
  BY <1>1, SubSeqFull
<1>4. /\ IsFiniteSet(ToSet(SubSeq(Flat, 1, Len(Flat))))
      /\ Cardinality(ToSet(SubSeq(Flat, 1, Len(Flat)))) = Len(Flat)
  BY <1>1, <1>2, PrefixMembers
<1> QED BY <1>1, <1>3, <1>4

\* Once the victims are gone there is room for one connection.
LEMMA VictimsAre ==
  ASSUME order \in Seq(Keys), conns \in [Keys -> Seq(Conns)], Ordered
  PROVE  /\ Victims \subseteq Pooled
         /\ Cardinality(Pooled) >= MaxPool => Cardinality(Pooled \ Victims) = MaxPool - 1
         /\ Cardinality(Pooled) < MaxPool => Victims = {}
<1> DEFINE n == Cardinality(Pooled)
           m == n - MaxPool + 1
<1>1. /\ Flat \in Seq(Conns) /\ IsInjective(Flat) /\ ToSet(Flat) = Pooled
      /\ IsFiniteSet(Pooled) /\ n = Len(Flat) /\ n \in Nat /\ MaxPool \in Nat \ {0}
  BY FlatIs, PooledFinite, LenProperties, PoolAssumption
<1>2. CASE n < MaxPool
  BY <1>1, <1>2 DEF Victims
<1>3. CASE n >= MaxPool
  <2>1. m \in 0..Len(Flat) /\ ~ (n < MaxPool)
    BY <1>1, <1>3
  <2>2. Victims = ToSet(SubSeq(Flat, 1, m))
    BY <2>1 DEF Victims
  <2> HIDE DEF m
  <2>3. /\ ToSet(SubSeq(Flat, 1, m)) \subseteq ToSet(Flat)
        /\ Cardinality(ToSet(SubSeq(Flat, 1, m))) = m
    BY <1>1, <2>1, PrefixMembers
  <2>4. Victims \subseteq Pooled /\ Pooled \cap Victims = Victims /\ Cardinality(Victims) = m
    BY <1>1, <2>2, <2>3
  <2>5. Cardinality(Pooled \ Victims) = n - m
    <3>1. Cardinality(Pooled \ Victims) = n - Cardinality(Pooled \cap Victims)
      <4>1. IsFiniteSet(Pooled)
        BY <1>1
      <4> QED BY <4>1, FS_Difference
    <3> QED BY <2>4, <3>1
  <2>6. n - m = MaxPool - 1
    BY <1>1 DEF m
  <2> QED BY <1>1, <1>3, <2>4, <2>5, <2>6
<1> QED BY <1>1, <1>2, <1>3

LEMMA TerminatedIs ==
  ASSUME proc \in [Conns -> Process], NEW S
  PROVE  /\ Terminated(S) \in [Conns -> Process]
         /\ \A c \in Conns : /\ Terminated(S)[c].used = proc[c].used
                             /\ Terminated(S)[c].owed = proc[c].owed
                             /\ (Terminated(S)[c].state \in {"up", "ending"}
                                   <=> proc[c].state \in {"up", "ending"})
<1> SUFFICES ASSUME NEW c \in Conns
             PROVE  /\ Terminated(S)[c] \in Process
                    /\ Terminated(S)[c].used = proc[c].used
                    /\ Terminated(S)[c].owed = proc[c].owed
                    /\ (Terminated(S)[c].state \in {"up", "ending"}
                          <=> proc[c].state \in {"up", "ending"})
  BY DEF Terminated
<1>1. proc[c] \in Process
  OBVIOUS
<1>2. Terminated(S)[c] = proc[c] \/ (proc[c].state = "up"
                                       /\ Terminated(S)[c] = [proc[c] EXCEPT !.state = "ending"])
  BY DEF Terminated
<1> QED BY <1>1, <1>2 DEF Process

LEMMA OrphanedIs ==
  ASSUME loc \in [Tasks -> Local], NEW S
  PROVE  /\ Orphaned(S) \in [Tasks -> Local]
         /\ \A t \in Tasks : /\ Orphaned(S)[t].conn = loc[t].conn
                             /\ Orphaned(S)[t].key = loc[t].key
                             /\ Orphaned(S)[t].waited = loc[t].waited
                             /\ pc[t] # "replace" => Orphaned(S)[t] = loc[t]
                             /\ pc[t] = "replace" /\ loc[t].key \in S => Orphaned(S)[t].orphan
                             /\ loc[t].orphan => Orphaned(S)[t].orphan
<1> SUFFICES ASSUME NEW t \in Tasks
             PROVE  /\ Orphaned(S)[t] \in Local
                    /\ Orphaned(S)[t].conn = loc[t].conn
                    /\ Orphaned(S)[t].key = loc[t].key
                    /\ Orphaned(S)[t].waited = loc[t].waited
                    /\ pc[t] # "replace" => Orphaned(S)[t] = loc[t]
                    /\ pc[t] = "replace" /\ loc[t].key \in S => Orphaned(S)[t].orphan
                    /\ loc[t].orphan => Orphaned(S)[t].orphan
  BY DEF Orphaned
<1>1. loc[t] \in Local
  OBVIOUS
<1>2. Orphaned(S)[t] = IF pc[t] = "replace" /\ loc[t].key \in S
                       THEN [loc[t] EXCEPT !.orphan = TRUE] ELSE loc[t]
  BY DEF Orphaned
<1> QED BY <1>1, <1>2 DEF Local

LEMMA StartCallIs ==
  ASSUME Typed, NEW t \in Tasks, NEW k \in Keys, NEW c \in Conns, StartCall(t, k, c)
  PROVE  /\ pc' \in [Tasks -> Labels] /\ loc' \in [Tasks -> Local]
         /\ proc' \in [Conns -> Process]
         /\ got' \in [Tasks -> Tasks \cup {Nobody, Gone}]
         /\ pc'[t] = "call" /\ loc'[t].conn = c /\ loc'[t].key = k /\ loc'[t].waited = 0
         /\ \A s \in Tasks \ {t} : pc'[s] = pc[s] /\ loc'[s] = loc[s] /\ got'[s] = got[s]
         /\ got'[t] = Nobody
         /\ \A d \in Conns : proc'[d].state = proc[d].state
         /\ \A d \in Conns \ {c} : proc'[d] = proc[d]
         /\ proc'[c].used = 0
         /\ proc'[c].owed = IF Alive(c) THEN Append(proc[c].owed, t) ELSE proc[c].owed
<1>1. /\ proc \in [Conns -> Process] /\ pc \in [Tasks -> Labels] /\ loc \in [Tasks -> Local]
      /\ got \in [Tasks -> Tasks \cup {Nobody, Gone}]
  BY DEF Typed, TypeOK
<1>2. /\ pc' = [pc EXCEPT ![t] = "call"]
      /\ loc' = [loc EXCEPT ![t] = [key |-> k, conn |-> c, orphan |-> FALSE, waited |-> 0]]
      /\ proc' = [proc EXCEPT ![c].used = 0,
                              ![c].owed = IF Alive(c) THEN Append(@, t) ELSE @]
      /\ got' = [got EXCEPT ![t] = Nobody]
  BY DEF StartCall
<1> DEFINE owed == IF Alive(c) THEN Append(proc[c].owed, t) ELSE proc[c].owed
<1>3. owed \in Seq(Tasks \cup {Gone})
  <2>1. proc[c].owed \in Seq(Tasks \cup {Gone}) /\ t \in Tasks \cup {Gone}
    BY <1>1 DEF Process
  <2>2. Append(proc[c].owed, t) \in Seq(Tasks \cup {Gone})
    BY <2>1, AppendProperties
  <2> QED BY <2>1, <2>2
<1>4. proc' = [proc EXCEPT ![c] = [proc[c] EXCEPT !.used = 0, !.owed = owed]]
  BY <1>1, <1>2 DEF Process
<1> HIDE DEF owed
<1>5. [proc[c] EXCEPT !.used = 0, !.owed = owed] \in Process
  <2>1. proc[c] \in Process /\ 0 \in 0..IdleTimeout + 1
    BY <1>1, PoolAssumption
  <2> QED BY <1>3, <2>1 DEF Process
<1>6. 0 \in 0..CallTimeout /\ "call" \in Labels
  BY PoolAssumption DEF Labels
<1>7. loc' \in [Tasks -> Local] /\ pc' \in [Tasks -> Labels]
  BY <1>1, <1>2, <1>6 DEF Local
<1>8. proc' \in [Conns -> Process]
  BY <1>1, <1>4, <1>5
<1>9. got' \in [Tasks -> Tasks \cup {Nobody, Gone}]
  BY <1>1, <1>2
<1>10. /\ \A d \in Conns : proc'[d].state = proc[d].state
       /\ \A d \in Conns \ {c} : proc'[d] = proc[d]
       /\ proc'[c].used = 0 /\ proc'[c].owed = owed
  BY <1>1, <1>4 DEF Process
<1>11. /\ pc'[t] = "call" /\ loc'[t].conn = c /\ loc'[t].key = k /\ loc'[t].waited = 0
       /\ \A s \in Tasks \ {t} : pc'[s] = pc[s] /\ loc'[s] = loc[s] /\ got'[s] = got[s]
       /\ got'[t] = Nobody
  BY <1>1, <1>2
<1> QED BY <1>7, <1>8, <1>9, <1>10, <1>11 DEF owed

LEMMA AbandonedIs ==
  ASSUME NEW t \in Tasks, NEW owed \in Seq(Tasks \cup {Gone})
  PROVE  Abandoned(owed, t) \in Seq(Tasks \cup {Gone})
<1>1. Len(owed) \in Nat /\ \A i \in 1..Len(owed) : owed[i] \in Tasks \cup {Gone}
  BY LenProperties
<1>2. \A i \in 1..Len(owed) : (IF owed[i] = t THEN Gone ELSE owed[i]) \in Tasks \cup {Gone}
  BY <1>1
<1> QED BY <1>1, <1>2 DEF Abandoned

LEMMA EndsIs ==
  ASSUME proc \in [Conns -> Process], NEW c \in Conns, Ends(c)
  PROVE  /\ proc' \in [Conns -> Process]
         /\ \A d \in Conns \ {c} : proc'[d] = proc[d]
         /\ proc'[c].state = "dead"
         /\ ~ Locked(c) => proc'[c].owed = <<>>
         /\ \E n \in 0..Len(proc[c].owed) : Locked(c) => proc'[c].owed = SubSeq(proc[c].owed, 1, n)
<1>1. PICK n \in 0..Len(proc[c].owed) :
        proc' = [proc EXCEPT ![c] = [state |-> "dead", used |-> 0,
                   owed |-> IF Locked(c) THEN SubSeq(proc[c].owed, 1, n) ELSE <<>>]]
  BY DEF Ends
<1>2. proc[c].owed \in Seq(Tasks \cup {Gone})
  BY DEF Process
<1> DEFINE owed == IF Locked(c) THEN SubSeq(proc[c].owed, 1, n) ELSE <<>>
<1>3. owed \in Seq(Tasks \cup {Gone})
  <2>1. Len(proc[c].owed) \in Nat /\ \A i \in 1..n : proc[c].owed[i] \in Tasks \cup {Gone}
    BY <1>2, LenProperties
  <2>2. SubSeq(proc[c].owed, 1, n) \in Seq(Tasks \cup {Gone})
    BY <2>1, SubSeqProperties
  <2> QED BY <2>2
<1>4. [state |-> "dead", used |-> 0, owed |-> owed] \in Process
  BY <1>3, PoolAssumption DEF Process
<1> QED BY <1>1, <1>4

-----------------------------------------------------------------------------
(* What the actions do to the lists of the pool.                           *)

LEMMA DropIs ==
  ASSUME order \in Seq(Keys), conns \in [Keys -> Seq(Conns)], Ordered, NEW S,
         conns' = Without(S), order' = Kept(Without(S))
  PROVE  /\ order' \in Seq(Keys) /\ conns' \in [Keys -> Seq(Conns)] /\ Ordered'
         /\ Pooled' = Pooled \ S
         /\ \A k \in Keys : conns[k] # <<>> /\ conns'[k] = <<>> => k \in Emptied(Without(S))
<1>1. /\ conns' \in [Keys -> Seq(Conns)]
      /\ \A k \in Keys : ToSet(conns'[k]) = ToSet(conns[k]) \ S
      /\ \A k \in Keys : IsInjective(conns[k]) => IsInjective(conns'[k])
  BY WithoutIs
<1>2. /\ order' \in Seq(Keys)
      /\ ToSet(order') = ToSet(order) \cap {k \in Keys : conns'[k] # <<>>}
      /\ IsInjective(order) => IsInjective(order')
  BY KeptIs
<1>3. Pooled' = Pooled \ S
  BY <1>1 DEF Pooled
<1>4. ASSUME NEW k \in Keys, conns'[k] # <<>> PROVE conns[k] # <<>>
  <2>1. ToSet(conns'[k]) # {}
    BY <1>1, <1>4, NoMembers
  <2>2. ToSet(conns[k]) # {}
    BY <1>1, <2>1
  <2> QED BY <2>2, NoMembers
<1>5. Ordered'
  <2>1. ToSet(order') = {k \in Keys : conns'[k] # <<>>}
    BY <1>2, <1>4 DEF Ordered
  <2>2. \A k, l \in Keys : k # l => ToSet(conns'[k]) \cap ToSet(conns'[l]) = {}
    BY <1>1 DEF Ordered
  <2> QED BY <1>1, <1>2, <2>1, <2>2 DEF Ordered
<1>6. \A k \in Keys : conns[k] # <<>> /\ conns'[k] = <<>> => k \in Emptied(Without(S))
  BY DEF Emptied
<1> QED BY <1>1, <1>2, <1>3, <1>5, <1>6

LEMMA AddIs ==
  ASSUME order \in Seq(Keys), conns \in [Keys -> Seq(Conns)], Ordered,
         NEW k \in Keys, NEW c \in Conns, c \notin Pooled,
         NEW rest \in Seq(Conns), IsInjective(rest), ToSet(rest) \subseteq ToSet(conns[k]),
         conns' = [conns EXCEPT ![k] = Append(rest, c)], order' = Touched(k)
  PROVE  /\ order' \in Seq(Keys) /\ conns' \in [Keys -> Seq(Conns)] /\ Ordered'
         /\ Pooled' \subseteq Pooled \cup {c} /\ c \in Pooled'
         /\ \A l \in Keys : conns[l] # <<>> => conns'[l] # <<>>
<1>1. c \notin ToSet(conns[k]) /\ \A l \in Keys : c \notin ToSet(conns[l])
  BY DEF Pooled
<1>2. /\ Append(rest, c) \in Seq(Conns)
      /\ ToSet(Append(rest, c)) = ToSet(rest) \cup {c}
      /\ IsInjective(Append(rest, c))
  BY <1>1, AppendMembers
<1>3. conns' \in [Keys -> Seq(Conns)]
  BY <1>2
<1>4. ToSet(conns'[k]) \subseteq ToSet(conns[k]) \cup {c} /\ c \in ToSet(conns'[k])
  BY <1>2
<1>5. \A l \in Keys \ {k} : conns'[l] = conns[l]
  OBVIOUS
<1>6. conns'[k] # <<>>
  BY <1>3, <1>4, NoMembers
<1>7. /\ order' \in Seq(Keys) /\ ToSet(order') = ToSet(order) \cup {k}
      /\ IsInjective(order) => IsInjective(order')
  BY TouchedIs
<1>8. Pooled' \subseteq Pooled \cup {c} /\ c \in Pooled'
  BY <1>4, <1>5 DEF Pooled
<1>9. Ordered'
  <2>1. ToSet(order') = {l \in Keys : conns'[l] # <<>>}
    BY <1>5, <1>6, <1>7 DEF Ordered
  <2>2. \A l \in Keys : IsInjective(conns'[l])
    BY <1>2, <1>5 DEF Ordered
  <2>3. ASSUME NEW l \in Keys, NEW m \in Keys, l # m
        PROVE  ToSet(conns'[l]) \cap ToSet(conns'[m]) = {}
    <3>1. ToSet(conns[l]) \cap ToSet(conns[m]) = {}
      BY <2>3 DEF Ordered
    <3>2. CASE l = k
      BY <1>1, <1>4, <1>5, <2>3, <3>1, <3>2
    <3>3. CASE m = k
      BY <1>1, <1>4, <1>5, <2>3, <3>1, <3>3
    <3>4. CASE l # k /\ m # k
      BY <1>5, <3>1, <3>4
    <3> QED BY <3>2, <3>3, <3>4
  <2> QED BY <1>7, <2>1, <2>2, <2>3 DEF Ordered
<1> QED BY <1>3, <1>5, <1>6, <1>7, <1>8, <1>9

LEMMA ShiftIs ==
  ASSUME order \in Seq(Keys), conns \in [Keys -> Seq(Conns)], Ordered,
         NEW k \in Keys, Len(conns[k]) >= 2,
         conns' = [conns EXCEPT ![k] = Tail(conns[k])], order' = order
  PROVE  /\ conns' \in [Keys -> Seq(Conns)] /\ Ordered'
         /\ Pooled' \subseteq Pooled \ {Head(conns[k])} /\ Head(conns[k]) \in Pooled
         /\ \A l \in Keys : conns[l] # <<>> => conns'[l] # <<>>
<1>1. Len(conns[k]) \in Nat /\ conns[k] # <<>>
  BY LenProperties, EmptySeq
<1>2. /\ Head(conns[k]) \in ToSet(conns[k]) /\ Tail(conns[k]) \in Seq(Conns)
      /\ ToSet(conns[k]) = ToSet(Tail(conns[k])) \cup {Head(conns[k])}
      /\ IsInjective(Tail(conns[k])) /\ Head(conns[k]) \notin ToSet(Tail(conns[k]))
  BY <1>1, TailMembers DEF Ordered
<1>3. Len(Tail(conns[k])) = Len(conns[k]) - 1
  BY <1>1, HeadTailProperties
<1>4. Tail(conns[k]) # <<>>
  <2>1. Len(Tail(conns[k])) # 0
    BY <1>1, <1>3
  <2>2. Len(<<>>) = 0
    BY EmptySeq
  <2> QED BY <2>1, <2>2
<1>5. conns' \in [Keys -> Seq(Conns)]
  BY <1>2
<1>6. conns'[k] = Tail(conns[k]) /\ \A l \in Keys \ {k} : conns'[l] = conns[l]
  OBVIOUS
<1>7. \A l \in Keys \ {k} : Head(conns[k]) \notin ToSet(conns[l])
  BY <1>2 DEF Ordered
<1>8. \A l \in Keys : ToSet(conns'[l]) \subseteq ToSet(conns[l]) \ {Head(conns[k])}
  BY <1>2, <1>6, <1>7
<1>9. Pooled' \subseteq Pooled \ {Head(conns[k])} /\ Head(conns[k]) \in Pooled
  BY <1>2, <1>8 DEF Pooled
<1>10. Ordered'
  <2>1. ToSet(order') = {l \in Keys : conns'[l] # <<>>}
    BY <1>1, <1>4, <1>6 DEF Ordered
  <2>2. \A l \in Keys : IsInjective(conns'[l])
    BY <1>2, <1>6 DEF Ordered
  <2>3. \A l, m \in Keys : l # m => ToSet(conns'[l]) \cap ToSet(conns'[m]) = {}
    BY <1>8 DEF Ordered
  <2> QED BY <2>1, <2>2, <2>3 DEF Ordered
<1> QED BY <1>1, <1>4, <1>5, <1>6, <1>9, <1>10

-----------------------------------------------------------------------------
(* A step that lets nobody take a connection, and one that lets t take c.  *)

NoneTakes ==
  \A t \in Tasks : /\ pc'[t] \in Opening => pc[t] \in Opening
                   /\ pc'[t] \in Using => pc[t] \in Using /\ loc'[t].conn = loc[t].conn

LEMMA UnsharedKept ==
  ASSUME Unshared, NoneTakes,
         Pooled' \cup ToSet(sweep') \subseteq Pooled \cup ToSet(sweep),
         ToSet(sweep') \cap Pooled' = {}
  PROVE  Unshared'
<1>1. \A t \in Tasks : pc'[t] \in Opening => loc'[t].conn \notin Pooled' \cup ToSet(sweep')
  <2>1. Opening \subseteq Using
    BY DEF Opening, Using
  <2> QED BY <2>1 DEF Unshared, NoneTakes
<1>2. \A s, t \in Tasks : pc'[s] \in Using /\ pc'[t] \in Using /\ s # t
                            => loc'[s].conn # loc'[t].conn
  BY DEF Unshared, NoneTakes
<1> QED BY <1>1, <1>2 DEF Unshared

Others(t)  == \A s \in Tasks \ {t} : pc'[s] = pc[s] /\ loc'[s] = loc[s]
Free(t, c) == \A s \in Tasks \ {t} : pc[s] \in Using => loc[s].conn # c

LEMMA UnsharedTaken ==
  ASSUME Unshared, NEW t \in Tasks, NEW c, Others(t), Free(t, c),
         loc'[t].conn = c, pc'[t] = "call" \/ c \notin Pooled',
         Pooled' \subseteq Pooled \cup {c}, sweep' = sweep, c \notin ToSet(sweep)
  PROVE  Unshared'
<1>1. Opening \subseteq Using /\ "call" \notin Opening
  BY DEF Opening, Using
<1>2. ASSUME NEW s \in Tasks, pc'[s] \in Opening
      PROVE  loc'[s].conn \notin Pooled' \cup ToSet(sweep')
  <2>1. CASE s = t
    BY <1>1, <1>2, <2>1
  <2>2. CASE s # t
    <3>1. pc[s] \in Opening /\ loc'[s] = loc[s]
      BY <1>2, <2>2 DEF Others
    <3>2. loc[s].conn \notin Pooled \cup ToSet(sweep) /\ loc[s].conn # c
      BY <1>1, <2>2, <3>1 DEF Unshared, Free
    <3> QED BY <3>1, <3>2
  <2> QED BY <2>1, <2>2
<1>3. ASSUME NEW r \in Tasks, NEW s \in Tasks, pc'[r] \in Using, pc'[s] \in Using, r # s
      PROVE  loc'[r].conn # loc'[s].conn
  <2>1. CASE r = t
    BY <1>3, <2>1 DEF Others, Free
  <2>2. CASE s = t
    BY <1>3, <2>2 DEF Others, Free
  <2>3. CASE r # t /\ s # t
    BY <1>3, <2>3 DEF Others, Unshared
  <2> QED BY <2>1, <2>2, <2>3
<1>4. ToSet(sweep') \cap Pooled' = {}
  BY DEF Unshared
<1> QED BY <1>2, <1>3, <1>4 DEF Unshared

-----------------------------------------------------------------------------
(* Sound is inductive.                                                     *)


LEMMA InitSound == Init => Sound
<1> SUFFICES ASSUME Init PROVE Sound
  OBVIOUS
<1>1. \A T : <<>> \in Seq(T)
  BY EmptySeq
<1>2. ToSet(<<>>) = {} /\ IsInjective(<<>>)
  BY DEF ToSet, IsInjective
<1>3. NoLocal \in Local /\ "idle" \in Labels
  BY PoolAssumption DEF NoLocal, Local, Labels
<1>4. [state |-> "none", used |-> 0, owed |-> <<>>] \in Process
  BY <1>1, PoolAssumption DEF Process
<1>5. TypeOK
  BY <1>1, <1>3, <1>4, PoolAssumption DEF Init, TypeOK
<1>6. Pooled = {}
  BY <1>2 DEF Init, Pooled
<1>7. \A t \in Tasks : Placed(t) /\ Awaited(t)
  BY DEF Init, Placed, Awaited, Using
<1>8. Unshared
  BY <1>2, <1>6 DEF Init, Unshared, Opening, Using
<1>9. Ordered
  BY <1>2 DEF Init, Ordered
<1> QED BY <1>5, <1>7, <1>8, <1>9 DEF Sound, Typed

LEMMA SoundParts ==
  ASSUME Sound
  PROVE  /\ order \in Seq(Keys) /\ conns \in [Keys -> Seq(Conns)]
         /\ proc \in [Conns -> Process]
         /\ pc \in [Tasks -> Labels] /\ loc \in [Tasks -> Local]
         /\ got \in [Tasks -> Tasks \cup {Nobody, Gone}]
         /\ closing \in SUBSET Conns /\ sweep \in Seq(Conns)
         /\ crashes \in 0..MaxCrashes /\ cancels \in 0..MaxCancels
         /\ Typed /\ Unshared /\ Ordered
         /\ \A t \in Tasks : Placed(t) /\ Awaited(t)
         /\ Pooled \subseteq Conns /\ NoConn \notin Conns /\ NoKey \notin Keys
BY PooledIs, PoolAssumption DEF Sound, Typed, TypeOK

\* A call starts: what it takes is not used by another task.
LEMMA SoundCall ==
  ASSUME Sound, NEW t \in Tasks, NEW k \in Keys, NEW c \in Conns, StartCall(t, k, c),
         Free(t, c), c \notin ToSet(sweep), Pooled' \subseteq Pooled \cup {c},
         order' \in Seq(Keys), conns' \in [Keys -> Seq(Conns)], Ordered',
         \A l \in Keys : conns[l] # <<>> => conns'[l] # <<>>,
         UNCHANGED <<closing, sweep, crashes, cancels>>
  PROVE  Sound'
<1>1. /\ pc' \in [Tasks -> Labels] /\ loc' \in [Tasks -> Local]
      /\ proc' \in [Conns -> Process] /\ got' \in [Tasks -> Tasks \cup {Nobody, Gone}]
      /\ pc'[t] = "call" /\ loc'[t].conn = c /\ loc'[t].key = k
      /\ \A s \in Tasks \ {t} : pc'[s] = pc[s] /\ loc'[s] = loc[s]
  BY SoundParts, StartCallIs
<1>2. TypeOK'
  BY <1>1, SoundParts DEF TypeOK
<1>3. ASSUME NEW s \in Tasks PROVE Placed(s)' /\ Awaited(s)'
  <2>1. CASE s = t
    BY <1>1, <2>1 DEF Placed, Awaited
  <2>2. CASE s # t
    <3>1. pc'[s] = pc[s] /\ loc'[s] = loc[s] /\ Placed(s) /\ Awaited(s)
      BY <1>1, <2>2, SoundParts
    <3>2. pc[s] = "replace" => loc[s].key \in Keys
      BY <3>1 DEF Placed, Using
    <3> QED BY <3>1, <3>2 DEF Placed, Awaited
  <2> QED BY <2>1, <2>2
<1>4. Others(t)
  BY <1>1 DEF Others
<1>5. Unshared'
  BY <1>1, <1>4, SoundParts, UnsharedTaken
<1> QED BY <1>2, <1>3, <1>5 DEF Sound, Typed

LEMMA ReuseIs ==
  ASSUME Sound, NEW t \in Tasks, NEW k \in Keys, Reuse(t, k)
  PROVE  \E c \in Conns : /\ StartCall(t, k, c) /\ c \in Pooled /\ ~ Locked(c)
                          /\ c \notin ToSet(sweep) /\ Free(t, c)
                          /\ c \in ToSet(conns[k])
<1>1. PICK i \in Reusable(k) : StartCall(t, k, conns[k][i])
  BY DEF Reuse
<1> DEFINE c == conns[k][i]
<1>2. i \in DOMAIN conns[k] /\ ~ Locked(c)
  BY DEF Reusable
<1>3. c \in ToSet(conns[k]) /\ c \in Pooled /\ c \in Conns
  BY <1>2, SoundParts, PooledIs
<1>4. c \notin ToSet(sweep)
  BY <1>3, SoundParts DEF Unshared
<1>5. Free(t, c)
  <2> SUFFICES ASSUME NEW s \in Tasks \ {t}, pc[s] \in Using PROVE loc[s].conn # c
    BY DEF Free
  <2>1. CASE pc[s] = "call"
    BY <1>2, <2>1 DEF Locked
  <2>2. CASE pc[s] \in Opening
    BY <1>3, <2>2, SoundParts DEF Unshared
  <2> QED BY <2>1, <2>2 DEF Using, Opening
<1> QED BY <1>1, <1>2, <1>3, <1>4, <1>5

LEMMA SoundReuse ==
  ASSUME Sound, NEW t \in Tasks, NEW k \in Keys, Reuse(t, k)
  PROVE  Sound'
<1>1. PICK c \in Conns : /\ StartCall(t, k, c) /\ c \notin ToSet(sweep) /\ Free(t, c)
                         /\ c \in ToSet(conns[k])
  BY ReuseIs
<1>2. order' = Touched(k) /\ UNCHANGED <<conns, closing, sweep, crashes, cancels>>
  BY DEF Reuse
<1>3. conns[k] # <<>>
  BY <1>1, SoundParts, NoMembers
<1>4. order' \in Seq(Keys) /\ ToSet(order') = ToSet(order) \cup {k} /\ IsInjective(order')
  BY <1>2, SoundParts, TouchedIs DEF Ordered
<1>5. Ordered'
  BY <1>2, <1>3, <1>4, SoundParts DEF Ordered
<1>6. Pooled' = Pooled
  BY <1>2 DEF Pooled
<1>7. /\ conns' \in [Keys -> Seq(Conns)] /\ Pooled' \subseteq Pooled \cup {c}
      /\ \A l \in Keys : conns[l] # <<>> => conns'[l] # <<>>
  BY <1>2, <1>6, SoundParts
<1> QED BY <1>1, <1>2, <1>4, <1>5, <1>7, SoundCall

\* Tasks other than t keep their places when lists are dropped.
LEMMA OrphansPlaced ==
  ASSUME Sound, NEW S, NEW l, l = Orphaned(S), NEW s \in Tasks,
         pc'[s] = pc[s], loc'[s] = l[s],
         \A k \in Keys : conns[k] # <<>> /\ conns'[k] = <<>> => k \in S
  PROVE  Placed(s)' /\ Awaited(s)'
<1>1. /\ loc'[s].conn = loc[s].conn /\ loc'[s].key = loc[s].key
      /\ pc[s] # "replace" => loc'[s] = loc[s]
      /\ pc[s] = "replace" /\ loc[s].key \in S => loc'[s].orphan
      /\ loc[s].orphan => loc'[s].orphan
  BY SoundParts, OrphanedIs
<1>2. Placed(s) /\ Awaited(s)
  BY SoundParts
<1>3. Placed(s)'
  BY <1>1, <1>2 DEF Placed
<1>4. pc[s] = "replace" => loc[s].key \in Keys
  BY <1>2 DEF Placed, Using
<1>5. Awaited(s)'
  BY <1>1, <1>2, <1>4 DEF Awaited
<1> QED BY <1>3, <1>5

LEMMA SoundCreate ==
  ASSUME Sound, NEW t \in Tasks, NEW k \in Keys, Create(t, k)
  PROVE  Sound'
<1> DEFINE l == Orphaned(Emptied(Without(Victims)))
<1>1. /\ pc[t] = "idle" /\ conns' = Without(Victims) /\ order' = Kept(Without(Victims))
      /\ closing' = closing \cup Victims
      /\ pc' = [pc EXCEPT ![t] = "spawn"] /\ loc' = [l EXCEPT ![t].key = k]
      /\ got' = [got EXCEPT ![t] = Nobody]
      /\ UNCHANGED <<proc, sweep, crashes, cancels>>
  BY DEF Create
<1>2. /\ order' \in Seq(Keys) /\ conns' \in [Keys -> Seq(Conns)] /\ Ordered'
      /\ Pooled' = Pooled \ Victims
      /\ \A j \in Keys : conns[j] # <<>> /\ conns'[j] = <<>> => j \in Emptied(Without(Victims))
  BY <1>1, SoundParts, DropIs
<1>3. Victims \subseteq Conns
  BY SoundParts, VictimsAre
<1>4. /\ l \in [Tasks -> Local]
      /\ \A s \in Tasks : l[s].conn = loc[s].conn /\ (pc[s] # "replace" => l[s] = loc[s])
  BY SoundParts, OrphanedIs
<1>5. loc[t] = NoLocal /\ l[t] = NoLocal
  BY <1>1, <1>4, SoundParts DEF Placed
<1> HIDE DEF l
<1>6. [l[t] EXCEPT !.key = k] \in Local
  BY <1>4 DEF Local
<1>7. /\ loc' \in [Tasks -> Local] /\ loc'[t] = [l[t] EXCEPT !.key = k]
      /\ \A s \in Tasks \ {t} : loc'[s] = l[s]
  BY <1>1, <1>4, <1>6
<1>8. pc' \in [Tasks -> Labels] /\ got' \in [Tasks -> Tasks \cup {Nobody, Gone}]
  BY <1>1, SoundParts DEF Labels
<1>9. TypeOK'
  BY <1>1, <1>2, <1>3, <1>7, <1>8, SoundParts DEF TypeOK
<1>10. ASSUME NEW s \in Tasks PROVE Placed(s)' /\ Awaited(s)'
  <2>1. CASE s = t
    <3>1. pc'[t] = "spawn" /\ loc'[t].conn = NoConn /\ loc'[t].key = k
      BY <1>1, <1>5, <1>7, SoundParts DEF NoLocal
    <3> QED BY <2>1, <3>1 DEF Placed, Awaited, Using
  <2>2. CASE s # t
    BY <1>1, <1>2, <1>7, <2>2, SoundParts, OrphansPlaced DEF l
  <2> QED BY <2>1, <2>2
<1>11. NoneTakes
  BY <1>1, <1>4, <1>7, SoundParts DEF NoneTakes, Opening, Using
<1>12. Unshared'
  <2>1. sweep' = sweep /\ Pooled' \subseteq Pooled
    BY <1>1, <1>2
  <2>2. ToSet(sweep') \cap Pooled' = {}
    BY <2>1, SoundParts DEF Unshared
  <2> QED BY <1>11, <2>1, <2>2, SoundParts, UnsharedKept
<1> QED BY <1>2, <1>9, <1>10, <1>12 DEF Sound, Typed

\* A step that leaves the lists of the pool alone and lets nobody take a
\* connection: a task keeps what it had, or becomes idle, or has failed.
Leaves(s) ==
  \/ pc'[s] = pc[s] /\ loc'[s] \in Local /\ loc'[s].conn = loc[s].conn
     /\ loc'[s].key = loc[s].key /\ loc'[s].orphan = loc[s].orphan
     /\ (pc[s] = "idle" => loc'[s] = loc[s])
  \/ pc'[s] = "failed" /\ loc'[s] = loc[s]
  \/ pc'[s] = "idle" /\ loc'[s] = NoLocal

LEMMA SoundQuiet ==
  ASSUME Sound, \A s \in Tasks : Leaves(s), UNCHANGED pool,
         pc' = [s \in Tasks |-> pc'[s]], loc' = [s \in Tasks |-> loc'[s]],
         proc' \in [Conns -> Process], got' \in [Tasks -> Tasks \cup {Nobody, Gone}],
         closing' \in SUBSET Conns, sweep' \in Seq(Conns),
         ToSet(sweep') \subseteq ToSet(sweep),
         crashes' \in 0..MaxCrashes, cancels' \in 0..MaxCancels
  PROVE  Sound'
<1>1. order' = order /\ conns' = conns
  BY DEF pool
<1>2. NoLocal \in Local /\ {"idle", "failed"} \subseteq Labels
  BY PoolAssumption DEF NoLocal, Local, Labels
<1>3. \A s \in Tasks : pc'[s] \in Labels /\ loc'[s] \in Local
  BY <1>2, SoundParts DEF Leaves
<1>4. TypeOK'
  BY <1>1, <1>3, SoundParts DEF TypeOK
<1>5. ASSUME NEW s \in Tasks PROVE Placed(s)' /\ Awaited(s)'
  <2>1. Leaves(s) /\ Placed(s) /\ Awaited(s)
    BY SoundParts
  <2>2. Placed(s)'
    BY <2>1 DEF Leaves, Placed, Using
  <2>3. Awaited(s)'
    BY <1>1, <2>1 DEF Leaves, Awaited
  <2> QED BY <2>2, <2>3
<1>6. NoneTakes
  BY DEF NoneTakes, Leaves, Opening, Using
<1>7. Pooled' = Pooled /\ Ordered'
  BY <1>1, SoundParts DEF Pooled, Ordered
<1>8. ToSet(sweep') \cap Pooled' = {}
  BY <1>7, SoundParts DEF Unshared
<1>9. Unshared'
  BY <1>6, <1>7, <1>8, SoundParts, UnsharedKept
<1> QED BY <1>4, <1>5, <1>7, <1>9 DEF Sound, Typed

LEMMA SoundSpawn ==
  ASSUME Sound, NEW t \in Tasks, Spawn(t)
  PROVE  Sound'
<1>1. PICK c \in Conns : /\ Unused(c)
                         /\ proc' = [proc EXCEPT ![c] = [state |-> "up", used |-> 0, owed |-> <<>>]]
                         /\ loc' = [loc EXCEPT ![t].conn = c]
  BY DEF Spawn
<1>2. /\ pc[t] = "spawn" /\ pc' = [pc EXCEPT ![t] = "handshake"]
      /\ UNCHANGED <<order, conns, got, closing, sweep, crashes, cancels>>
  BY DEF Spawn, pool
<1>3. c \notin Pooled /\ c \notin ToSet(sweep) /\ \A s \in Tasks : loc[s].conn # c
  BY <1>1 DEF Unused
<1>4. [state |-> "up", used |-> 0, owed |-> <<>>] \in Process
  BY EmptySeq, PoolAssumption DEF Process
<1>5. proc' \in [Conns -> Process] /\ pc' \in [Tasks -> Labels]
  BY <1>1, <1>2, <1>4, SoundParts DEF Labels
<1>6. [loc[t] EXCEPT !.conn = c] \in Local
  BY SoundParts DEF Local
<1>7. /\ loc' \in [Tasks -> Local] /\ loc'[t] = [loc[t] EXCEPT !.conn = c]
      /\ \A s \in Tasks \ {t} : loc'[s] = loc[s] /\ pc'[s] = pc[s]
  BY <1>1, <1>2, <1>6, SoundParts
<1>8. TypeOK'
  BY <1>2, <1>5, <1>7, SoundParts DEF TypeOK
<1>9. pc'[t] = "handshake" /\ loc'[t].conn = c /\ loc'[t].key = loc[t].key /\ loc[t].key \in Keys
  <2>1. loc[t] \in Local /\ loc[t].key \in Keys
    BY <1>2, SoundParts DEF Placed
  <2> QED BY <1>2, <1>7, <2>1, SoundParts DEF Local
<1>10. ASSUME NEW s \in Tasks PROVE Placed(s)' /\ Awaited(s)'
  <2>1. CASE s = t
    BY <1>9, <2>1 DEF Placed, Awaited
  <2>2. CASE s # t
    <3>1. pc'[s] = pc[s] /\ loc'[s] = loc[s] /\ conns' = conns /\ Placed(s) /\ Awaited(s)
      BY <1>2, <1>7, <2>2, SoundParts
    <3> QED BY <3>1 DEF Placed, Awaited
  <2> QED BY <2>1, <2>2
<1>11. Pooled' = Pooled /\ Ordered'
  BY <1>2, SoundParts DEF Pooled, Ordered
<1>12. Others(t) /\ Free(t, c)
  BY <1>3, <1>7 DEF Others, Free
<1>13. Unshared'
  BY <1>2, <1>3, <1>9, <1>11, <1>12, SoundParts, UnsharedTaken
<1> QED BY <1>8, <1>10, <1>11, <1>13 DEF Sound, Typed

\* What a task that opens a connection holds is nobody else's.
LEMMA OpeningIs ==
  ASSUME Sound, NEW t \in Tasks, pc[t] \in Opening
  PROVE  /\ loc[t].key \in Keys /\ loc[t].conn \in Conns
         /\ loc[t].conn \notin Pooled /\ loc[t].conn \notin ToSet(sweep)
         /\ Free(t, loc[t].conn)
<1>1. pc[t] \in Using
  BY DEF Opening, Using
<1> QED BY <1>1, SoundParts DEF Placed, Unshared, Free

LEMMA ReplaceIs ==
  ASSUME Sound, NEW t \in Tasks, Replace(t)
  PROVE  /\ order' \in Seq(Keys) /\ conns' \in [Keys -> Seq(Conns)] /\ Ordered'
         /\ Pooled' \subseteq Pooled \cup {loc[t].conn}
         /\ \A l \in Keys : conns[l] # <<>> => conns'[l] # <<>>
<1> DEFINE k == loc[t].key
           c == loc[t].conn
<1>1. /\ pc[t] = "replace"
      /\ conns' = IF loc[t].orphan THEN conns
                  ELSE [conns EXCEPT ![k] = Append(conns[k], c)]
      /\ order' = IF Contains(order, k) THEN Touched(k) ELSE order
  BY DEF Replace
<1>2. k \in Keys /\ c \in Conns /\ c \notin Pooled
  BY <1>1, OpeningIs DEF Opening
<1>3. Contains(order, k) <=> k \in ToSet(order)
  BY LenProperties, SoundParts DEF Contains, ToSet
<1>4. CASE loc[t].orphan
  <2>1. conns' = conns /\ Pooled' = Pooled
    BY <1>1, <1>4 DEF Pooled
  <2>2. order' \in Seq(Keys) /\ Ordered'
    <3>1. CASE k \in ToSet(order)
      <4>1. order' = Touched(k) /\ conns[k] # <<>>
        BY <1>1, <1>3, <3>1, SoundParts DEF Ordered
      <4>2. order' \in Seq(Keys) /\ ToSet(order') = ToSet(order) \cup {k} /\ IsInjective(order')
        BY <1>2, <4>1, SoundParts, TouchedIs DEF Ordered
      <4> QED BY <2>1, <3>1, <4>2, SoundParts DEF Ordered
    <3>2. CASE k \notin ToSet(order)
      BY <1>1, <1>3, <2>1, <3>2, SoundParts DEF Ordered
    <3> QED BY <3>1, <3>2
  <2> HIDE DEF k, c
  <2>3. conns' \in [Keys -> Seq(Conns)] /\ \A l \in Keys : conns[l] # <<>> => conns'[l] # <<>>
    BY <2>1, SoundParts
  <2> QED BY <2>1, <2>2, <2>3
<1>5. CASE ~ loc[t].orphan
  <2>1. conns[k] # <<>> /\ k \in ToSet(order)
    BY <1>1, <1>2, <1>5, SoundParts DEF Awaited, Ordered
  <2>2. order' = Touched(k) /\ conns' = [conns EXCEPT ![k] = Append(conns[k], c)]
    BY <1>1, <1>3, <1>5, <2>1
  <2>3. conns[k] \in Seq(Conns) /\ IsInjective(conns[k])
    BY <1>2, SoundParts DEF Ordered
  <2> HIDE DEF k, c
  <2>4. /\ order' \in Seq(Keys) /\ conns' \in [Keys -> Seq(Conns)] /\ Ordered'
        /\ Pooled' \subseteq Pooled \cup {c}
        /\ \A l \in Keys : conns[l] # <<>> => conns'[l] # <<>>
    BY <1>2, <2>2, <2>3, SoundParts, AddIs
  <2> QED BY <2>4 DEF c
<1> QED BY <1>4, <1>5

LEMMA SoundReplace ==
  ASSUME Sound, NEW t \in Tasks, Replace(t)
  PROVE  Sound'
<1>1. /\ pc[t] \in Opening /\ StartCall(t, loc[t].key, loc[t].conn)
      /\ UNCHANGED <<closing, sweep, crashes, cancels>>
  BY DEF Replace, Opening
<1> QED BY <1>1, OpeningIs, ReplaceIs, SoundCall

Waits(t) == Len(conns[loc[t].key]) >= MaxPerKey /\ Alive(Head(conns[loc[t].key]))

LEMMA AdmitIs ==
  ASSUME Sound, NEW t \in Tasks, Admit(t), ~ Waits(t)
  PROVE  /\ StartCall(t, loc[t].key, loc[t].conn)
         /\ order' \in Seq(Keys) /\ conns' \in [Keys -> Seq(Conns)] /\ Ordered'
         /\ Pooled' \subseteq Pooled \cup {loc[t].conn}
         /\ \A l \in Keys : conns[l] # <<>> => conns'[l] # <<>>
<1> DEFINE k    == loc[t].key
           c    == loc[t].conn
           full == Len(conns[k]) >= MaxPerKey
           rest == IF full THEN Tail(conns[k]) ELSE conns[k]
<1>1. /\ pc[t] = "handshake" /\ conns' = [conns EXCEPT ![k] = Append(rest, c)]
      /\ order' = Touched(k) /\ StartCall(t, k, c)
  BY DEF Admit, Waits
<1>2. k \in Keys /\ c \in Conns /\ c \notin Pooled
  BY <1>1, OpeningIs DEF Opening
<1>3. conns[k] \in Seq(Conns) /\ IsInjective(conns[k])
  BY <1>2, SoundParts DEF Ordered
<1>4. rest \in Seq(Conns) /\ IsInjective(rest) /\ ToSet(rest) \subseteq ToSet(conns[k])
  <2>1. CASE full
    <3>1. conns[k] # <<>>
      <4>1. Len(<<>>) = 0
        BY EmptySeq
      <4> QED BY <2>1, <4>1, PoolAssumption
    <3>2. /\ Tail(conns[k]) \in Seq(Conns) /\ IsInjective(Tail(conns[k]))
          /\ ToSet(conns[k]) = ToSet(Tail(conns[k])) \cup {Head(conns[k])}
      BY <1>3, <3>1, TailMembers
    <3> QED BY <2>1, <3>2
  <2>2. CASE ~ full
    BY <1>3, <2>2
  <2> QED BY <2>1, <2>2
<1> HIDE DEF full, rest
<1> QED BY <1>1, <1>2, <1>4, SoundParts, AddIs

\* The oldest connection of the key has to end first.
LEMMA WaitIs ==
  ASSUME Sound, NEW t \in Tasks, Admit(t), Waits(t)
  PROVE  /\ pc' = [pc EXCEPT ![t] = "replace"] /\ UNCHANGED <<order, loc, got>>
         /\ conns' \in [Keys -> Seq(Conns)] /\ Ordered'
         /\ \E c \in Pooled : Pooled' \subseteq Pooled \ {c} /\ proc' = Terminated({c})
         /\ \A l \in Keys : conns[l] # <<>> => conns'[l] # <<>>
         /\ conns[loc[t].key] # <<>>
<1> DEFINE k == loc[t].key
<1>1. /\ pc[t] = "handshake" /\ conns' = [conns EXCEPT ![k] = Tail(conns[k])]
      /\ proc' = Terminated({Head(conns[k])}) /\ pc' = [pc EXCEPT ![t] = "replace"]
      /\ UNCHANGED <<order, loc, got>>
  BY DEF Admit, Waits
<1>2. k \in Keys
  BY <1>1, OpeningIs DEF Opening
<1>3. Len(conns[k]) >= 2 /\ conns[k] # <<>>
  <2>1. Len(conns[k]) \in Nat /\ Len(<<>>) = 0
    BY <1>2, SoundParts, LenProperties, EmptySeq
  <2> QED BY <2>1, PoolAssumption DEF Waits
<1>4. /\ conns' \in [Keys -> Seq(Conns)] /\ Ordered'
      /\ Pooled' \subseteq Pooled \ {Head(conns[k])} /\ Head(conns[k]) \in Pooled
      /\ \A l \in Keys : conns[l] # <<>> => conns'[l] # <<>>
  BY <1>1, <1>2, <1>3, SoundParts, ShiftIs
<1> QED BY <1>1, <1>3, <1>4

LEMMA SoundAdmit ==
  ASSUME Sound, NEW t \in Tasks, Admit(t)
  PROVE  Sound'
<1>1. pc[t] = "handshake" /\ pc[t] \in Opening /\ pc[t] \in Using
      /\ UNCHANGED <<closing, sweep, crashes, cancels>>
  BY DEF Admit, Opening, Using
<1>2. CASE ~ Waits(t)
  BY <1>1, <1>2, OpeningIs, AdmitIs, SoundCall
<1>3. CASE Waits(t)
  <2>1. /\ pc' = [pc EXCEPT ![t] = "replace"] /\ UNCHANGED <<order, loc, got>>
        /\ conns' \in [Keys -> Seq(Conns)] /\ Ordered' /\ Pooled' \subseteq Pooled
        /\ \A l \in Keys : conns[l] # <<>> => conns'[l] # <<>>
        /\ conns[loc[t].key] # <<>>
    BY <1>3, WaitIs
  <2>2. proc' \in [Conns -> Process] /\ pc' \in [Tasks -> Labels]
    <3>1. \E c \in Pooled : proc' = Terminated({c})
      BY <1>3, WaitIs
    <3> QED BY <2>1, <3>1, SoundParts, TerminatedIs DEF Labels
  <2>3. TypeOK'
    BY <1>1, <2>1, <2>2, SoundParts DEF TypeOK
  <2>4. ASSUME NEW s \in Tasks PROVE Placed(s)' /\ Awaited(s)'
    <3>1. Placed(s) /\ Awaited(s) /\ loc'[s] = loc[s]
      BY <2>1, SoundParts
    <3>2. CASE s = t
      <4>1. loc[t].key \in Keys /\ loc[t].conn \in Conns
        BY <1>1, OpeningIs
      <4>2. pc'[t] = "replace" /\ conns'[loc[t].key] # <<>>
        BY <2>1, <4>1, SoundParts
      <4> QED BY <3>1, <3>2, <4>1, <4>2 DEF Placed, Awaited
    <3>3. CASE s # t
      <4>1. pc'[s] = pc[s]
        BY <2>1, <3>3, SoundParts
      <4>2. pc[s] = "replace" => loc[s].key \in Keys
        BY <3>1 DEF Placed, Using
      <4> QED BY <2>1, <3>1, <4>1, <4>2 DEF Placed, Awaited
    <3> QED BY <3>2, <3>3
  <2>5. NoneTakes
    <3> SUFFICES ASSUME NEW s \in Tasks
                 PROVE  /\ pc'[s] \in Opening => pc[s] \in Opening
                        /\ pc'[s] \in Using => pc[s] \in Using /\ loc'[s].conn = loc[s].conn
      BY DEF NoneTakes
    <3>1. CASE s = t
      BY <1>1, <2>1, <3>1
    <3>2. CASE s # t
      BY <2>1, <3>2, SoundParts
    <3> QED BY <3>1, <3>2
  <2>6. sweep' = sweep /\ ToSet(sweep') \cap Pooled' = {}
    BY <1>1, <2>1, SoundParts DEF Unshared
  <2>7. Unshared'
    BY <2>1, <2>5, <2>6, SoundParts, UnsharedKept
  <2> QED BY <2>1, <2>3, <2>4, <2>7 DEF Sound, Typed
<1> QED BY <1>2, <1>3

LEMMA SoundSpawnFails ==
  ASSUME Sound, NEW t \in Tasks, SpawnFails(t) \/ HandshakeFails(t)
  PROVE  Sound'
<1>1. /\ pc' = [pc EXCEPT ![t] = "failed"] /\ UNCHANGED <<pool, loc, got, closing, sweep, crashes, cancels>>
      /\ proc' = proc \/ proc' = Terminated({loc[t].conn})
  BY DEF SpawnFails, HandshakeFails
<1>2. proc' \in [Conns -> Process]
  BY <1>1, SoundParts, TerminatedIs
<1>3. \A s \in Tasks : Leaves(s)
  BY <1>1, SoundParts DEF Leaves
<1>4. pc' = [s \in Tasks |-> pc'[s]] /\ loc' = [s \in Tasks |-> loc'[s]]
  BY <1>1, SoundParts
<1> QED BY <1>1, <1>2, <1>3, <1>4, SoundParts, SoundQuiet

LEMMA IdleLeaves ==
  ASSUME Sound, NEW t \in Tasks, Idle(t)
  PROVE  /\ \A s \in Tasks : Leaves(s)
         /\ pc' = [s \in Tasks |-> pc'[s]] /\ loc' = [s \in Tasks |-> loc'[s]]
         /\ \A s \in Tasks \ {t} : pc'[s] = pc[s] /\ loc'[s] = loc[s]
         /\ pc'[t] = "idle"
<1>1. pc' = [pc EXCEPT ![t] = "idle"] /\ loc' = [loc EXCEPT ![t] = NoLocal]
  BY DEF Idle
<1> QED BY <1>1, SoundParts DEF Leaves

LEMMA SoundAnswer ==
  ASSUME Sound, NEW t \in Tasks, Answer(t)
  PROVE  Sound'
<1> DEFINE c == loc[t].conn
<1>1. /\ pc[t] = "call" /\ proc[c].owed # <<>> /\ Idle(t)
      /\ got' = [got EXCEPT ![t] = Head(proc[c].owed)]
      /\ proc' = [proc EXCEPT ![c].owed = Tail(proc[c].owed)]
      /\ UNCHANGED <<pool, closing, sweep, crashes, cancels>>
  BY DEF Answer
<1>2. c \in Conns
  BY <1>1, SoundParts DEF Placed, Using
<1>3. proc[c] \in Process /\ proc[c].owed \in Seq(Tasks \cup {Gone})
  BY <1>2, SoundParts DEF Process
<1>4. Head(proc[c].owed) \in Tasks \cup {Gone} /\ Tail(proc[c].owed) \in Seq(Tasks \cup {Gone})
  BY <1>1, <1>3, HeadTailProperties
<1> HIDE DEF c
<1>5. [proc[c] EXCEPT !.owed = Tail(proc[c].owed)] \in Process
  BY <1>3, <1>4 DEF Process
<1>6. proc' \in [Conns -> Process] /\ got' \in [Tasks -> Tasks \cup {Nobody, Gone}]
  BY <1>1, <1>4, <1>5, SoundParts
<1> QED BY <1>1, <1>6, SoundParts, IdleLeaves, SoundQuiet

LEMMA SoundFallback ==
  ASSUME Sound, NEW t \in Tasks, Fallback(t)
  PROVE  Sound'
BY SoundParts, IdleLeaves, SoundQuiet DEF Fallback

LEMMA SoundCancel ==
  ASSUME Sound, NEW t \in Tasks, Cancel(t)
  PROVE  Sound'
<1> DEFINE c == loc[t].conn
<1>1. /\ cancels < MaxCancels /\ cancels' = cancels + 1 /\ Idle(t)
      /\ proc' = IF c = NoConn THEN proc
                 ELSE [proc EXCEPT ![c].owed = Abandoned(proc[c].owed, t)]
      /\ UNCHANGED <<pool, got, closing, sweep, crashes>>
  BY DEF Cancel
<1>2. c \in Conns \cup {NoConn}
  BY SoundParts DEF Local
<1>3. proc' \in [Conns -> Process]
  <2>1. CASE c = NoConn
    BY <1>1, <2>1, SoundParts
  <2>2. CASE c # NoConn
    <3>1. proc[c] \in Process /\ proc[c].owed \in Seq(Tasks \cup {Gone})
      BY <1>2, <2>2, SoundParts DEF Process
    <3>2. Abandoned(proc[c].owed, t) \in Seq(Tasks \cup {Gone})
      BY <3>1, AbandonedIs
    <3> HIDE DEF c
    <3>3. [proc[c] EXCEPT !.owed = Abandoned(proc[c].owed, t)] \in Process
      BY <3>1, <3>2 DEF Process
    <3> QED BY <1>1, <2>2, <3>3, SoundParts
  <2> QED BY <2>1, <2>2
<1>4. cancels' \in 0..MaxCancels
  BY <1>1, SoundParts, PoolAssumption
<1> QED BY <1>1, <1>3, <1>4, SoundParts, IdleLeaves, SoundQuiet

LEMMA SoundProcess ==
  ASSUME Sound, NEW c \in Conns, Close(c) \/ Die(c) \/ Crash(c)
  PROVE  Sound'
<1>1. /\ UNCHANGED <<pool, pc, loc, got, sweep, cancels>>
      /\ proc' = Terminated({c}) \/ Ends(c)
      /\ closing' \subseteq closing
      /\ crashes' = crashes \/ (crashes < MaxCrashes /\ crashes' = crashes + 1)
  BY DEF Close, Die, Crash
<1>2. proc' \in [Conns -> Process]
  BY <1>1, SoundParts, TerminatedIs, EndsIs
<1>3. \A s \in Tasks : Leaves(s)
  BY <1>1, SoundParts DEF Leaves
<1>4. pc' = [s \in Tasks |-> pc'[s]] /\ loc' = [s \in Tasks |-> loc'[s]]
  BY <1>1, SoundParts
<1>5. crashes' \in 0..MaxCrashes
  BY <1>1, SoundParts, PoolAssumption
<1>6. closing' \in SUBSET Conns
  BY <1>1, SoundParts
<1> QED BY <1>1, <1>2, <1>3, <1>4, <1>5, <1>6, SoundParts, SoundQuiet

LEMMA SoundFail ==
  ASSUME Sound, NEW t \in Tasks, Fail(t)
  PROVE  Sound'
<1> DEFINE c == loc[t].conn
           S == Emptied(Without({c}))
<1>1. /\ pc[t] = "call" /\ conns' = Without({c}) /\ order' = Kept(Without({c}))
      /\ proc' = [Terminated({c}) EXCEPT ![c].owed = Abandoned(Terminated({c})[c].owed, t)]
      /\ pc' = [pc EXCEPT ![t] = "failed"] /\ loc' = Orphaned(S)
      /\ UNCHANGED <<got, closing, sweep, crashes, cancels>>
  BY DEF Fail
<1>2. /\ order' \in Seq(Keys) /\ conns' \in [Keys -> Seq(Conns)] /\ Ordered'
      /\ Pooled' = Pooled \ {c}
      /\ \A k \in Keys : conns[k] # <<>> /\ conns'[k] = <<>> => k \in S
  BY <1>1, SoundParts, DropIs
<1>3. c \in Conns
  BY <1>1, SoundParts DEF Placed, Using
<1>4. proc' \in [Conns -> Process]
  <2> DEFINE p == Terminated({c})
  <2>1. p \in [Conns -> Process] /\ p[c].owed \in Seq(Tasks \cup {Gone})
    BY <1>3, SoundParts, TerminatedIs DEF Process
  <2> HIDE DEF p
  <2>2. Abandoned(p[c].owed, t) \in Seq(Tasks \cup {Gone})
    BY <2>1, AbandonedIs
  <2> HIDE DEF c
  <2>3. [p[c] EXCEPT !.owed = Abandoned(p[c].owed, t)] \in Process
    BY <1>3, <2>1, <2>2 DEF Process
  <2>4. proc' = [p EXCEPT ![c].owed = Abandoned(p[c].owed, t)]
    BY <1>1 DEF p
  <2> QED BY <2>1, <2>3, <2>4
<1>5. /\ loc' \in [Tasks -> Local]
      /\ \A s \in Tasks : loc'[s].conn = loc[s].conn
  BY <1>1, SoundParts, OrphanedIs
<1>6. pc' \in [Tasks -> Labels] /\ pc'[t] = "failed" /\ \A s \in Tasks \ {t} : pc'[s] = pc[s]
  BY <1>1, SoundParts DEF Labels
<1>7. TypeOK'
  BY <1>1, <1>2, <1>4, <1>5, <1>6, SoundParts DEF TypeOK
<1>8. ASSUME NEW s \in Tasks PROVE Placed(s)' /\ Awaited(s)'
  <2>1. CASE s = t
    BY <1>6, <2>1 DEF Placed, Awaited, Using
  <2>2. CASE s # t
    <3>1. pc'[s] = pc[s] /\ loc'[s] = Orphaned(S)[s]
      BY <1>1, <1>6, <2>2
    <3> HIDE DEF S
    <3> QED BY <1>2, <3>1, OrphansPlaced
  <2> QED BY <2>1, <2>2
<1>9. NoneTakes
  BY <1>5, <1>6 DEF NoneTakes, Opening, Using
<1>10. sweep' = sweep /\ Pooled' \subseteq Pooled /\ ToSet(sweep') \cap Pooled' = {}
  BY <1>1, <1>2, SoundParts DEF Unshared
<1>11. Unshared'
  BY <1>9, <1>10, SoundParts, UnsharedKept
<1> QED BY <1>2, <1>7, <1>8, <1>11 DEF Sound, Typed

\* What the cleanup task removes was in the pool.
LEMMA SweepIs ==
  ASSUME Sound, Sweep
  PROVE  /\ sweep' \in Seq(Conns) /\ ToSet(sweep') = Expired
         /\ Pooled' = Pooled \ Expired /\ Expired \subseteq Pooled
         /\ order' \in Seq(Keys) /\ conns' \in [Keys -> Seq(Conns)] /\ Ordered'
<1>1. /\ sweep' = Only(Flat, Expired) /\ conns' = Without(Expired)
      /\ order' = Kept(Without(Expired))
  BY DEF Sweep
<1>2. Flat \in Seq(Conns) /\ ToSet(Flat) = Pooled
  BY SoundParts, FlatIs
<1>3. Expired \subseteq Pooled /\ Expired \subseteq Conns
  BY SoundParts DEF Expired
<1>4. sweep' \in Seq(Expired) /\ ToSet(sweep') = Pooled \cap Expired
  BY <1>1, <1>2, OnlyMembers
<1>5. sweep' \in Seq(Conns)
  BY <1>3, <1>4, SeqMonotonic
<1>6. /\ order' \in Seq(Keys) /\ conns' \in [Keys -> Seq(Conns)] /\ Ordered'
      /\ Pooled' = Pooled \ Expired
  BY <1>1, SoundParts, DropIs
<1> QED BY <1>3, <1>4, <1>5, <1>6

LEMMA SoundSweep ==
  ASSUME Sound, Sweep
  PROVE  Sound'
<1> DEFINE S == {k \in Keys : conns[k] # <<>>}
<1>1. loc' = Orphaned(S) /\ UNCHANGED <<proc, pc, got, closing, crashes, cancels>>
  BY DEF Sweep
<1>2. /\ sweep' \in Seq(Conns) /\ ToSet(sweep') = Expired
      /\ Pooled' = Pooled \ Expired /\ Expired \subseteq Pooled
      /\ order' \in Seq(Keys) /\ conns' \in [Keys -> Seq(Conns)] /\ Ordered'
  BY SweepIs
<1>3. /\ loc' \in [Tasks -> Local]
      /\ \A s \in Tasks : loc'[s].conn = loc[s].conn
  BY <1>1, SoundParts, OrphanedIs
<1>4. TypeOK'
  BY <1>1, <1>2, <1>3, SoundParts DEF TypeOK
<1>5. \A k \in Keys : conns[k] # <<>> /\ conns'[k] = <<>> => k \in S
  OBVIOUS
<1> HIDE DEF S
<1>6. \A s \in Tasks : Placed(s)' /\ Awaited(s)'
  BY <1>1, <1>5, OrphansPlaced
<1>7. NoneTakes
  BY <1>1, <1>3 DEF NoneTakes
<1>8. Unshared'
  BY <1>2, <1>7, SoundParts, UnsharedKept
<1> QED BY <1>2, <1>4, <1>6, <1>8 DEF Sound, Typed

LEMMA SoundSweepClose ==
  ASSUME Sound, SweepClose
  PROVE  Sound'
<1>1. /\ sweep # <<>> /\ proc' = Terminated({Head(sweep)}) /\ sweep' = Tail(sweep)
      /\ UNCHANGED <<pool, pc, loc, got, closing, crashes, cancels>>
  BY DEF SweepClose
<1>2. sweep' \in Seq(Conns) /\ ToSet(sweep') \subseteq ToSet(sweep)
  BY <1>1, SoundParts, TailMembers
<1>3. proc' \in [Conns -> Process]
  BY <1>1, SoundParts, TerminatedIs
<1>4. \A s \in Tasks : Leaves(s)
  BY <1>1, SoundParts DEF Leaves
<1>5. pc' = [s \in Tasks |-> pc'[s]] /\ loc' = [s \in Tasks |-> loc'[s]]
  BY <1>1, SoundParts
<1> QED BY <1>1, <1>2, <1>3, <1>4, <1>5, SoundParts, SoundQuiet

LEMMA TickIs ==
  ASSUME Sound, Tick
  PROVE  /\ proc' \in [Conns -> Process] /\ loc' \in [Tasks -> Local]
         /\ \A c \in Conns : /\ proc'[c].state = proc[c].state /\ proc'[c].owed = proc[c].owed
                             /\ proc'[c].used <= proc[c].used + 1
         /\ \A t \in Tasks : /\ loc'[t].conn = loc[t].conn /\ loc'[t].key = loc[t].key
                             /\ loc'[t].orphan = loc[t].orphan
                             /\ pc[t] = "call" => loc'[t].waited = loc[t].waited + 1
                             /\ pc[t] # "call" => loc'[t] = loc[t]
<1>1. /\ \A t \in Tasks : pc[t] = "call" => loc[t].waited < CallTimeout
      /\ proc' = [c \in Conns |-> IF Alive(c) /\ proc[c].used <= IdleTimeout
                                  THEN [proc[c] EXCEPT !.used = proc[c].used + 1] ELSE proc[c]]
      /\ loc' = [t \in Tasks |-> IF pc[t] = "call"
                                 THEN [loc[t] EXCEPT !.waited = loc[t].waited + 1] ELSE loc[t]]
  BY DEF Tick
<1>2. ASSUME NEW c \in Conns
      PROVE  /\ proc'[c] \in Process /\ proc'[c].state = proc[c].state
             /\ proc'[c].owed = proc[c].owed /\ proc'[c].used <= proc[c].used + 1
  <2>1. proc[c] \in Process /\ proc[c].used \in 0..IdleTimeout + 1
    BY SoundParts DEF Process
  <2>2. proc[c].used <= IdleTimeout => proc[c].used + 1 \in 0..IdleTimeout + 1
    BY <2>1, PoolAssumption
  <2>3. CASE Alive(c) /\ proc[c].used <= IdleTimeout
    <3>1. proc'[c] = [proc[c] EXCEPT !.used = proc[c].used + 1]
      BY <1>1, <2>3
    <3> QED BY <2>1, <2>2, <2>3, <3>1 DEF Process
  <2>4. CASE ~ (Alive(c) /\ proc[c].used <= IdleTimeout)
    <3>1. proc'[c] = proc[c]
      BY <1>1, <2>4
    <3> QED BY <2>1, <3>1, PoolAssumption
  <2> QED BY <2>3, <2>4
<1>3. ASSUME NEW t \in Tasks
      PROVE  /\ loc'[t] \in Local /\ loc'[t].conn = loc[t].conn /\ loc'[t].key = loc[t].key
             /\ loc'[t].orphan = loc[t].orphan
             /\ pc[t] = "call" => loc'[t].waited = loc[t].waited + 1
             /\ pc[t] # "call" => loc'[t] = loc[t]
  <2>1. loc[t] \in Local /\ loc[t].waited \in 0..CallTimeout
    BY SoundParts DEF Local
  <2>2. CASE pc[t] = "call"
    <3>1. loc[t].waited + 1 \in 0..CallTimeout
      BY <1>1, <2>1, <2>2, PoolAssumption
    <3>2. loc'[t] = [loc[t] EXCEPT !.waited = loc[t].waited + 1]
      BY <1>1, <2>2
    <3> QED BY <2>1, <2>2, <3>1, <3>2 DEF Local
  <2>3. CASE pc[t] # "call"
    BY <1>1, <2>1, <2>3
  <2> QED BY <2>2, <2>3
<1> QED BY <1>1, <1>2, <1>3

LEMMA SoundTick ==
  ASSUME Sound, Tick
  PROVE  Sound'
<1>1. UNCHANGED <<pool, pc, got, closing, sweep, crashes, cancels>>
  BY DEF Tick
<1>2. proc' \in [Conns -> Process] /\ loc' \in [Tasks -> Local]
  BY TickIs
<1>3. ASSUME NEW s \in Tasks PROVE Leaves(s)
  BY <1>1, <1>2, TickIs DEF Leaves
<1>4. pc' = [s \in Tasks |-> pc'[s]] /\ loc' = [s \in Tasks |-> loc'[s]]
  BY <1>1, <1>2, SoundParts
<1> QED BY <1>1, <1>2, <1>3, <1>4, SoundParts, SoundQuiet

LEMMA SoundStep == Sound /\ [Next]_vars => Sound'
<1> SUFFICES ASSUME Sound, [Next]_vars PROVE Sound'
  OBVIOUS
<1>1. ASSUME NEW t \in Tasks, Call(t) PROVE Sound'
  BY <1>1, SoundReuse, SoundCreate, SoundSpawn, SoundSpawnFails, SoundAdmit, SoundReplace,
     SoundAnswer, SoundFail, SoundFallback, SoundCancel DEF Call
<1>2. CASE Sweep \/ SweepClose \/ Tick
  BY <1>2, SoundSweep, SoundSweepClose, SoundTick
<1>3. CASE UNCHANGED vars
  BY <1>3 DEF vars, Sound, Typed, TypeOK, Placed, Unshared, Ordered, Awaited, Pooled
<1> QED BY <1>1, <1>2, <1>3, SoundProcess DEF Next

\* Every variable keeps its type, whatever the tasks, processes and the
\* cleanup task do.
THEOREM TypeCorrect == Spec => []TypeOK
<1>1. Spec => []Sound
  BY InitSound, SoundStep, PTL DEF Spec
<1>2. Sound => TypeOK
  BY DEF Sound, Typed
<1> QED BY <1>1, <1>2, PTL

\* No two calls are on one connection of the pool (acquire, McpConnection.call_tool).
THEOREM CallersApart == Spec => []OneCaller
<1>1. Spec => []Sound
  BY InitSound, SoundStep, PTL DEF Spec
<1>2. Sound => OneCaller
  BY DEF Sound, Unshared, OneCaller, Using
<1> QED BY <1>1, <1>2, PTL

-----------------------------------------------------------------------------
(* Calls: how they start, go on and end.                                   *)

\* Task t starts a call on a free connection of the pool, or on its own.
Starts(t, c) ==
  /\ pc[t] # "call" /\ \E k \in Keys : StartCall(t, k, c)
  /\ Free(t, c) /\ c \notin ToSet(sweep) /\ sweep' = sweep
  /\ Pooled' \subseteq Pooled \cup {c}
  /\ (c \in Pooled /\ ~ Locked(c)) \/ (pc[t] \in Opening /\ c = loc[t].conn)

LEMMA StartsIs ==
  ASSUME Sound, NEW t \in Tasks,
         \/ \E k \in Keys : Reuse(t, k)
         \/ Replace(t)
         \/ (Admit(t) /\ ~ Waits(t))
  PROVE  \E c \in Conns : Starts(t, c)
<1>1. ASSUME NEW k \in Keys, Reuse(t, k) PROVE \E c \in Conns : Starts(t, c)
  <2>1. PICK c \in Conns : /\ StartCall(t, k, c) /\ c \in Pooled /\ ~ Locked(c)
                           /\ c \notin ToSet(sweep) /\ Free(t, c)
    BY <1>1, ReuseIs
  <2>2. Pooled' = Pooled /\ sweep' = sweep /\ pc[t] # "call"
    BY <1>1 DEF Reuse, Pooled
  <2> QED BY <2>1, <2>2 DEF Starts
<1>2. CASE Replace(t)
  <2>1. /\ pc[t] # "call" /\ pc[t] \in Opening
        /\ StartCall(t, loc[t].key, loc[t].conn) /\ sweep' = sweep
    BY <1>2 DEF Replace, Opening
  <2> QED BY <1>2, <2>1, OpeningIs, ReplaceIs DEF Starts
<1>3. CASE Admit(t) /\ ~ Waits(t)
  <2>1. pc[t] # "call" /\ pc[t] \in Opening /\ sweep' = sweep
    BY <1>3 DEF Admit, Opening
  <2> QED BY <1>3, <2>1, OpeningIs, AdmitIs DEF Starts
<1> QED BY <1>1, <1>2, <1>3

\* A call that goes on is the call it was; a process that lives did so before.
GoesOn(s) ==
  pc'[s] = "call" => pc[s] = "call" /\ loc'[s].conn = loc[s].conn
                       /\ loc'[s].waited = loc[s].waited
Cooler(c) ==
  proc'[c].state \in {"up", "ending"} => Alive(c) /\ proc'[c].used <= proc[c].used

LEMMA TimedKept ==
  ASSUME Sound, Timed, \A s \in Tasks : GoesOn(s), \A c \in Conns : Cooler(c),
         proc' \in [Conns -> Process], loc' \in [Tasks -> Local],
         ToSet(sweep') \subseteq ToSet(sweep)
  PROVE  Timed'
<1>1. ASSUME NEW s \in Tasks, pc'[s] = "call", proc'[loc'[s].conn].state \in {"up", "ending"}
      PROVE  proc'[loc'[s].conn].used <= loc'[s].waited
  <2> DEFINE c == loc[s].conn
  <2>1. pc[s] = "call" /\ loc'[s].conn = c /\ loc'[s].waited = loc[s].waited
    BY <1>1 DEF GoesOn
  <2>2. c \in Conns
    BY <2>1, SoundParts DEF Placed, Using
  <2>3. Alive(c) /\ proc'[c].used <= proc[c].used
    BY <1>1, <2>1, <2>2 DEF Cooler, Alive
  <2>4. proc[c].used <= loc[s].waited
    BY <2>1, <2>3 DEF Timed
  <2>5. proc[c].used \in Nat /\ proc'[c].used \in Nat /\ loc[s].waited \in Nat
    BY <2>2, SoundParts, PoolAssumption DEF Process, Local
  <2> HIDE DEF c
  <2> QED BY <2>1, <2>3, <2>4, <2>5
<1>2. ASSUME NEW c \in ToSet(sweep'), Locked(c)' PROVE ~ Alive(c)'
  <2>1. c \in ToSet(sweep) /\ c \in Conns
    BY MembersUpTo, SoundParts
  <2>2. Locked(c)
    BY <1>2 DEF Locked, GoesOn
  <2>3. ~ Alive(c)
    BY <2>1, <2>2 DEF Timed, SweepSparesBusy
  <2> QED BY <2>1, <2>3 DEF Cooler, Alive
<1> QED BY <1>1, <1>2 DEF Timed, SweepSparesBusy, Alive

LEMMA TimedStarts ==
  ASSUME Sound, Timed, NEW t \in Tasks, NEW c \in Conns, Starts(t, c)
  PROVE  Timed'
<1>1. PICK k \in Keys : StartCall(t, k, c)
  BY DEF Starts
<1>2. /\ pc'[t] = "call" /\ loc'[t].conn = c /\ loc'[t].waited = 0
      /\ \A s \in Tasks \ {t} : pc'[s] = pc[s] /\ loc'[s] = loc[s]
      /\ \A d \in Conns : proc'[d].state = proc[d].state
      /\ \A d \in Conns \ {c} : proc'[d] = proc[d]
      /\ proc'[c].used = 0
  BY <1>1, SoundParts, StartCallIs
<1>3. ASSUME NEW s \in Tasks, pc'[s] = "call", proc'[loc'[s].conn].state \in {"up", "ending"}
      PROVE  proc'[loc'[s].conn].used <= loc'[s].waited
  <2>1. CASE s = t
    BY <1>2, <2>1
  <2>2. CASE s # t
    <3>1. pc[s] = "call" /\ loc'[s] = loc[s] /\ loc[s].conn \in Conns \ {c}
      BY <1>2, <1>3, <2>2, SoundParts DEF Starts, Free, Using, Placed
    <3>2. Alive(loc[s].conn) /\ proc'[loc[s].conn] = proc[loc[s].conn]
      BY <1>2, <1>3, <3>1 DEF Alive
    <3> QED BY <3>1, <3>2 DEF Timed
  <2> QED BY <2>1, <2>2
<1>4. ASSUME NEW d \in ToSet(sweep'), Locked(d)' PROVE ~ Alive(d)'
  <2>1. d \in ToSet(sweep) /\ d \in Conns /\ d # c
    BY MembersUpTo, SoundParts DEF Starts
  <2>2. Locked(d)
    BY <1>2, <1>4, <2>1 DEF Locked
  <2> QED BY <1>2, <2>1, <2>2 DEF Timed, SweepSparesBusy, Alive
<1> QED BY <1>3, <1>4 DEF Timed, SweepSparesBusy, Alive

LEMMA SameProcess ==
  ASSUME proc \in [Conns -> Process],
         proc' = proc \/ (\E S : proc' = Terminated(S)) \/ (\E c \in Conns : Ends(c))
  PROVE  \A c \in Conns : Cooler(c)
<1>1. CASE proc' = proc
  BY <1>1, PoolAssumption DEF Cooler, Alive, Process
<1>2. ASSUME NEW S, proc' = Terminated(S) PROVE \A c \in Conns : Cooler(c)
  BY <1>2, TerminatedIs, PoolAssumption DEF Cooler, Alive, Process
<1>3. ASSUME NEW d \in Conns, Ends(d), NEW c \in Conns PROVE Cooler(c)
  <2>1. CASE c = d
    BY <1>3, <2>1, EndsIs DEF Cooler
  <2>2. CASE c # d
    BY <1>3, <2>2, EndsIs, PoolAssumption DEF Cooler, Alive, Process
  <2> QED BY <2>1, <2>2
<1> QED BY <1>1, <1>2, <1>3

LEMMA TimedSpawn ==
  ASSUME Sound, Timed, NEW t \in Tasks, Spawn(t)
  PROVE  Timed'
<1>1. PICK c \in Conns : /\ Unused(c)
                         /\ proc' = [proc EXCEPT ![c] = [state |-> "up", used |-> 0, owed |-> <<>>]]
                         /\ loc' = [loc EXCEPT ![t].conn = c]
  BY DEF Spawn
<1>2. pc' = [pc EXCEPT ![t] = "handshake"] /\ sweep' = sweep
  BY DEF Spawn
<1>3. c \notin ToSet(sweep) /\ \A s \in Tasks : loc[s].conn # c
  BY <1>1 DEF Unused
<1>4. \A s \in Tasks : pc'[s] = "call" => s # t /\ pc[s] = "call" /\ loc'[s] = loc[s]
  BY <1>1, <1>2, SoundParts
<1>5. \A d \in Conns \ {c} : proc'[d] = proc[d]
  BY <1>1, SoundParts
<1>6. \A s \in Tasks : pc[s] = "call" => loc[s].conn \in Conns \ {c}
  BY <1>3, SoundParts DEF Placed, Using
<1>7. ASSUME NEW s \in Tasks, pc'[s] = "call", proc'[loc'[s].conn].state \in {"up", "ending"}
      PROVE  proc'[loc'[s].conn].used <= loc'[s].waited
  BY <1>4, <1>5, <1>6, <1>7 DEF Timed, Alive
<1>8. ASSUME NEW d \in ToSet(sweep'), Locked(d)' PROVE ~ Alive(d)'
  <2>1. d \in ToSet(sweep) /\ d \in Conns \ {c}
    BY <1>2, <1>3, MembersUpTo, SoundParts
  <2>2. Locked(d)
    BY <1>4, <1>8 DEF Locked
  <2> QED BY <1>5, <2>1, <2>2 DEF Timed, SweepSparesBusy, Alive
<1> QED BY <1>7, <1>8 DEF Timed, SweepSparesBusy, Alive

\* A connection that a call is waiting on has not been idle long enough.
LEMMA TimedSweep ==
  ASSUME Sound, Timed, Sweep
  PROVE  Timed'
<1> DEFINE S == {k \in Keys : conns[k] # <<>>}
<1>1. loc' = Orphaned(S) /\ pc' = pc /\ proc' = proc
  BY DEF Sweep
<1> HIDE DEF S
<1>2. \A s \in Tasks : loc'[s].conn = loc[s].conn /\ loc'[s].waited = loc[s].waited
  BY <1>1, SoundParts, OrphanedIs
<1>3. ToSet(sweep') = Expired
  BY SweepIs
<1>4. ASSUME NEW c \in Expired, NEW s \in Tasks, pc[s] = "call", loc[s].conn = c, Alive(c)
      PROVE  FALSE
  <2>1. c \in Conns /\ proc[c].used > IdleTimeout
    BY <1>4, SoundParts DEF Expired
  <2>2. proc[c].used <= loc[s].waited
    BY <1>4 DEF Timed
  <2>3. loc[s].waited \in 0..CallTimeout /\ proc[c].used \in 0..IdleTimeout + 1
    BY <2>1, SoundParts DEF Local, Process
  <2> QED BY <2>1, <2>2, <2>3, PoolAssumption
<1>5. SweepSparesBusy'
  BY <1>1, <1>2, <1>3, <1>4 DEF SweepSparesBusy, Locked, Alive
<1> QED BY <1>1, <1>2, <1>5 DEF Timed, Alive

LEMMA TimedTick ==
  ASSUME Sound, Timed, Tick
  PROVE  Timed'
<1>1. pc' = pc /\ sweep' = sweep
  BY DEF Tick
<1>2. ASSUME NEW s \in Tasks, pc'[s] = "call", proc'[loc'[s].conn].state \in {"up", "ending"}
      PROVE  proc'[loc'[s].conn].used <= loc'[s].waited
  <2> DEFINE c == loc[s].conn
  <2>1. c \in Conns /\ pc[s] = "call"
    BY <1>1, <1>2, SoundParts DEF Placed, Using
  <2>2. /\ loc'[s].conn = c /\ loc'[s].waited = loc[s].waited + 1
        /\ proc'[c].state = proc[c].state /\ proc'[c].used <= proc[c].used + 1
    BY <2>1, TickIs
  <2>3. proc[c].used <= loc[s].waited
    BY <1>2, <2>1, <2>2 DEF Timed, Alive
  <2>4. proc[c].used \in Nat /\ proc'[c].used \in Nat /\ loc[s].waited \in Nat
    BY <2>1, SoundParts, TickIs, PoolAssumption DEF Process, Local
  <2> HIDE DEF c
  <2> QED BY <2>2, <2>3, <2>4
<1>3. ASSUME NEW d \in ToSet(sweep'), Locked(d)' PROVE ~ Alive(d)'
  <2>1. d \in ToSet(sweep) /\ d \in Conns
    BY <1>1, MembersUpTo, SoundParts
  <2>2. Locked(d)
    BY <1>1, <1>3, TickIs DEF Locked
  <2> QED BY <2>1, <2>2, TickIs DEF Timed, SweepSparesBusy, Alive
<1> QED BY <1>2, <1>3 DEF Timed, SweepSparesBusy, Alive

\* The steps in which no call starts, no process starts and no time passes.
LEMMA TimedRest ==
  ASSUME Sound, Timed, Sound', sweep' = sweep \/ SweepClose,
         \/ \E t \in Tasks : \/ \E k \in Keys : Create(t, k)
                             \/ SpawnFails(t) \/ HandshakeFails(t) \/ (Admit(t) /\ Waits(t))
                             \/ Answer(t) \/ Fail(t) \/ Fallback(t) \/ Cancel(t)
         \/ \E c \in Conns : Close(c) \/ Die(c) \/ Crash(c)
         \/ SweepClose
  PROVE  Timed'
<1>1. ToSet(sweep') \subseteq ToSet(sweep)
  <2>1. CASE SweepClose
    BY <2>1, SoundParts, TailMembers DEF SweepClose
  <2> QED BY <2>1
<1>2. proc' \in [Conns -> Process] /\ loc' \in [Tasks -> Local] /\ proc \in [Conns -> Process]
  BY DEF Sound, Typed, TypeOK
<1> DEFINE Good == (\A s \in Tasks : GoesOn(s)) /\ (\A c \in Conns : Cooler(c))
<1>3. ASSUME NEW t \in Tasks, NEW k \in Keys, Create(t, k) PROVE Good
  <2> DEFINE l == Orphaned(Emptied(Without(Victims)))
  <2>1. /\ pc' = [pc EXCEPT ![t] = "spawn"] /\ loc' = [l EXCEPT ![t].key = k] /\ proc' = proc
    BY <1>3 DEF Create
  <2>2. l \in [Tasks -> Local] /\ \A s \in Tasks : pc[s] # "replace" => l[s] = loc[s]
    BY SoundParts, OrphanedIs
  <2> HIDE DEF l
  <2>3. \A s \in Tasks : GoesOn(s)
    BY <2>1, <2>2, SoundParts DEF GoesOn
  <2> QED BY <1>2, <2>1, <2>3, SameProcess
<1>4. ASSUME NEW t \in Tasks, SpawnFails(t) \/ HandshakeFails(t) \/ (Admit(t) /\ Waits(t))
      PROVE  Good
  <2>1. /\ \E p \in {"failed", "replace"} : pc' = [pc EXCEPT ![t] = p]
        /\ loc' = loc /\ (proc' = proc \/ \E S : proc' = Terminated(S))
    BY <1>4, WaitIs DEF SpawnFails, HandshakeFails
  <2>2. \A s \in Tasks : GoesOn(s)
    BY <2>1, SoundParts DEF GoesOn
  <2> QED BY <1>2, <2>1, <2>2, SameProcess
<1>5. ASSUME NEW t \in Tasks, Answer(t) \/ Fallback(t) \/ Cancel(t) PROVE Good
  <2>1. Idle(t)
    BY <1>5 DEF Answer, Fallback, Cancel
  <2>2. \A s \in Tasks : GoesOn(s)
    BY <2>1, IdleLeaves DEF GoesOn
  <2>3. \A c \in Conns : proc'[c].state = proc[c].state /\ proc'[c].used = proc[c].used
    <3>1. proc' = proc \/ \E d, o : proc' = [proc EXCEPT ![d].owed = o]
      BY <1>5 DEF Answer, Fallback, Cancel
    <3>2. ASSUME NEW d, NEW o, proc' = [proc EXCEPT ![d].owed = o]
          PROVE  \A c \in Conns : proc'[c].state = proc[c].state /\ proc'[c].used = proc[c].used
      BY <1>2, <3>2 DEF Process
    <3> QED BY <3>1, <3>2
  <2>4. \A c \in Conns : Cooler(c)
    BY <1>2, <2>3, PoolAssumption DEF Cooler, Alive, Process
  <2> QED BY <2>2, <2>4
<1>6. ASSUME NEW t \in Tasks, Fail(t) PROVE Good
  <2> DEFINE d == loc[t].conn
             S == Emptied(Without({d}))
             p == Terminated({d})
  <2>1. /\ proc' = [p EXCEPT ![d].owed = Abandoned(p[d].owed, t)]
        /\ pc' = [pc EXCEPT ![t] = "failed"] /\ loc' = Orphaned(S)
    BY <1>6 DEF Fail
  <2>2. /\ p \in [Conns -> Process]
        /\ \A c \in Conns : /\ p[c].used = proc[c].used
                            /\ (p[c].state \in {"up", "ending"} <=> proc[c].state \in {"up", "ending"})
    BY <1>2, TerminatedIs
  <2>3. \A s \in Tasks : pc[s] # "replace" => loc'[s] = loc[s]
    BY <2>1, SoundParts, OrphanedIs
  <2>4. \A s \in Tasks : GoesOn(s)
    BY <2>1, <2>3, SoundParts DEF GoesOn
  <2> HIDE DEF p, S, d
  <2>5. \A c \in Conns : proc'[c].state = p[c].state /\ proc'[c].used = p[c].used
    BY <2>1, <2>2 DEF Process
  <2>6. \A c \in Conns : Cooler(c)
    BY <1>2, <2>2, <2>5, PoolAssumption DEF Cooler, Alive, Process
  <2> QED BY <2>4, <2>6
<1>7. ASSUME SweepClose \/ \E c \in Conns : Close(c) \/ Die(c) \/ Crash(c) PROVE Good
  <2>1. /\ pc' = pc /\ loc' = loc
        /\ (\E S : proc' = Terminated(S)) \/ (\E c \in Conns : Ends(c))
    BY <1>7 DEF SweepClose, Close, Die, Crash
  <2>2. \A s \in Tasks : GoesOn(s)
    BY <2>1 DEF GoesOn
  <2> QED BY <1>2, <2>1, <2>2, SameProcess
<1>8. Good
  BY <1>3, <1>4, <1>5, <1>6, <1>7
<1> QED BY <1>1, <1>2, <1>8, TimedKept

LEMMA TimedStep == Sound /\ Timed /\ [Next]_vars => Timed'
<1> SUFFICES ASSUME Sound, Timed, [Next]_vars PROVE Timed'
  OBVIOUS
<1>1. Sound'
  BY SoundStep
<1>2. ASSUME NEW t \in Tasks, Call(t) PROVE Timed'
  <2>1. CASE (\E k \in Keys : Reuse(t, k)) \/ Replace(t) \/ (Admit(t) /\ ~ Waits(t))
    BY <2>1, StartsIs, TimedStarts
  <2>2. CASE Spawn(t)
    BY <2>2, TimedSpawn
  <2>3. CASE \/ \E k \in Keys : Create(t, k)
             \/ SpawnFails(t) \/ HandshakeFails(t) \/ (Admit(t) /\ Waits(t))
             \/ Answer(t) \/ Fail(t) \/ Fallback(t) \/ Cancel(t)
    <3>1. sweep' = sweep
      BY <2>3 DEF Create, SpawnFails, HandshakeFails, Admit, Answer, Fail, Fallback, Cancel
    <3> QED BY <1>1, <2>3, <3>1, TimedRest
  <2>4. \/ (\E k \in Keys : Reuse(t, k)) \/ Replace(t) \/ Admit(t) \/ Spawn(t)
        \/ (\E k \in Keys : Create(t, k)) \/ SpawnFails(t) \/ HandshakeFails(t)
        \/ Answer(t) \/ Fail(t) \/ Fallback(t) \/ Cancel(t)
    BY <1>2 DEF Call
  <2>5. CASE Admit(t)
    BY <2>1, <2>3, <2>5
  <2>6. CASE (\E k \in Keys : Reuse(t, k)) \/ Replace(t)
    BY <2>1, <2>6
  <2>7. CASE SpawnFails(t) \/ HandshakeFails(t) \/ Answer(t) \/ Fail(t) \/ Fallback(t) \/ Cancel(t)
    BY <2>3, <2>7
  <2>8. CASE \E k \in Keys : Create(t, k)
    BY <2>3, <2>8
  <2> QED BY <2>2, <2>4, <2>5, <2>6, <2>7, <2>8
<1>3. ASSUME NEW c \in Conns, Close(c) \/ Die(c) \/ Crash(c) PROVE Timed'
  <2>1. sweep' = sweep
    BY <1>3 DEF Close, Die, Crash
  <2> QED BY <1>1, <1>3, <2>1, TimedRest
<1>4. CASE SweepClose
  BY <1>1, <1>4, TimedRest
<1>5. CASE Sweep \/ Tick
  BY <1>5, TimedSweep, TimedTick
<1>6. CASE UNCHANGED vars
  BY <1>6 DEF vars, Timed, SweepSparesBusy, Alive, Locked
<1> QED BY <1>2, <1>3, <1>4, <1>5, <1>6 DEF Next

\* The cleanup task never closes a connection on which a call is waiting
\* (_idle_cleanup_loop looks at last_used, which call_tool sets at its start):
\* CallTimeout <= IdleTimeout is all it takes.
THEOREM BusyAreSpared == Spec => []SweepSparesBusy
<1>1. Init => Timed
  BY EmptySeq DEF Init, Timed, SweepSparesBusy, ToSet
<1>2. Spec => [](Sound /\ Timed)
  BY <1>1, InitSound, SoundStep, TimedStep, PTL DEF Spec
<1>3. Timed => SweepSparesBusy
  BY DEF Timed
<1> QED BY <1>2, <1>3, PTL

-----------------------------------------------------------------------------
(* Answers: what a connection owes while no task has been cancelled.       *)

LEMMA OneOwed ==
  ASSUME NEW t \in Tasks, NEW owed \in {<<>>, <<t>>}
  PROVE  /\ owed # <<>> => Head(owed) = t /\ Tail(owed) = <<>>
         /\ \A n \in 0..Len(owed) : SubSeq(owed, 1, n) \in {<<>>, <<t>>}
<1>1. CASE owed = <<>>
  <2>1. Len(owed) = 0 /\ \A n \in 0..0 : n = 0
    BY <1>1, EmptySeq
  <2>2. SubSeq(owed, 1, 0) = <<>>
    BY SubSeqEmpty
  <2> QED BY <1>1, <2>1, <2>2
<1>2. CASE owed = <<t>>
  <2>1. owed \in Seq(Tasks) /\ Len(owed) = 1 /\ Head(owed) = t
    BY <1>2
  <2>2. Tail(owed) = <<>>
    BY <1>2
  <2>3. SubSeq(owed, 1, 0) = <<>> /\ SubSeq(owed, 1, 1) = owed
    BY <2>1, SubSeqEmpty, SubSeqFull
  <2>4. \A n \in 0..1 : n = 0 \/ n = 1
    OBVIOUS
  <2> QED BY <1>2, <2>1, <2>2, <2>3, <2>4
<1> QED BY <1>1, <1>2

LEMMA AnsweringStarts ==
  ASSUME Sound, Answering, NEW t \in Tasks, NEW c \in Conns, Starts(t, c)
  PROVE  Answering'
<1>1. PICK k \in Keys : StartCall(t, k, c)
  BY DEF Starts
<1>2. /\ pc'[t] = "call" /\ loc'[t].conn = c /\ got'[t] = Nobody
      /\ \A s \in Tasks \ {t} : pc'[s] = pc[s] /\ loc'[s] = loc[s] /\ got'[s] = got[s]
      /\ \A d \in Conns \ {c} : proc'[d] = proc[d]
      /\ proc'[c].owed = IF Alive(c) THEN Append(proc[c].owed, t) ELSE proc[c].owed
  BY <1>1, SoundParts, StartCallIs
<1>3. proc[c].owed = <<>>
  BY DEF Starts, Answering
<1>4. proc'[c].owed \in {<<>>, <<t>>}
  <2>1. Append(<<>>, t) = <<t>>
    OBVIOUS
  <2> QED BY <1>2, <1>3, <2>1
<1>5. ASSUME NEW s \in Tasks, pc'[s] = "call" PROVE proc'[loc'[s].conn].owed \in {<<>>, <<s>>}
  <2>1. CASE s = t
    BY <1>2, <1>4, <2>1
  <2>2. CASE s # t
    <3>1. pc[s] = "call" /\ loc'[s] = loc[s] /\ loc[s].conn \in Conns \ {c}
      BY <1>2, <1>5, <2>2, SoundParts DEF Starts, Free, Using, Placed
    <3> QED BY <1>2, <3>1 DEF Answering
  <2> QED BY <2>1, <2>2
<1>6. ASSUME NEW s \in Tasks, pc'[s] \in Opening PROVE proc'[loc'[s].conn].owed = <<>>
  <2>1. s # t
    BY <1>2, <1>6 DEF Opening
  <2>2. pc[s] \in Opening /\ pc[s] \in Using /\ loc'[s] = loc[s]
    BY <1>2, <1>6, <2>1 DEF Opening, Using
  <2>3. loc[s].conn \in Conns \ {c}
    BY <2>1, <2>2, OpeningIs DEF Starts, Free
  <2> QED BY <1>2, <2>2, <2>3 DEF Answering
<1>7. ASSUME NEW d \in Pooled', ~ Locked(d)' PROVE proc'[d].owed = <<>>
  <2>1. d # c
    BY <1>2, <1>7 DEF Locked
  <2>2. d \in Pooled /\ d \in Conns
    BY <2>1, SoundParts DEF Starts
  <2>3. ~ Locked(d)
    <3> SUFFICES ASSUME NEW s \in Tasks, pc[s] = "call", loc[s].conn = d PROVE FALSE
      BY DEF Locked
    <3>1. s # t
      BY DEF Starts
    <3> QED BY <1>2, <1>7, <3>1 DEF Locked
  <2> QED BY <1>2, <2>1, <2>2, <2>3 DEF Answering
<1>8. OwnAnswer'
  BY <1>2 DEF Answering, OwnAnswer
<1> QED BY <1>5, <1>6, <1>7, <1>8 DEF Answering

\* A step after which nobody uses what was not used, and no connection that
\* is used or pooled owes more; one that is let go owes nothing.
SameUse(s) ==
  /\ pc'[s] = "call" => pc[s] = "call" /\ loc'[s].conn = loc[s].conn
  /\ pc'[s] \in Opening => pc[s] \in Opening /\ loc'[s].conn = loc[s].conn
Owes(c) ==
  \/ proc'[c].owed \in {proc[c].owed, <<>>}
  \/ c \notin Pooled' /\ \A s \in Tasks : pc'[s] \in Using => loc'[s].conn # c
LetGo(s) ==
  pc[s] = "call" /\ pc'[s] # "call"
    => loc[s].conn \notin Pooled' \/ proc'[loc[s].conn].owed = <<>>

LEMMA AnsweringKept ==
  ASSUME Sound, Sound', Answering, Pooled' \subseteq Pooled, OwnAnswer',
         \A s \in Tasks : SameUse(s) /\ LetGo(s), \A c \in Conns : Owes(c)
  PROVE  Answering'
<1>1. ASSUME NEW s \in Tasks, pc'[s] = "call" PROVE proc'[loc'[s].conn].owed \in {<<>>, <<s>>}
  <2>1. pc[s] = "call" /\ loc'[s].conn = loc[s].conn /\ pc'[s] \in Using
    BY <1>1 DEF SameUse, Using
  <2>2. loc[s].conn \in Conns
    BY <2>1, SoundParts DEF Placed, Using
  <2>3. proc'[loc[s].conn].owed \in {proc[loc[s].conn].owed, <<>>}
    BY <2>1, <2>2 DEF Owes
  <2> QED BY <2>1, <2>3 DEF Answering
<1>2. ASSUME NEW s \in Tasks, pc'[s] \in Opening PROVE proc'[loc'[s].conn].owed = <<>>
  <2>1. pc[s] \in Opening /\ loc'[s].conn = loc[s].conn /\ pc'[s] \in Using
    BY <1>2 DEF SameUse, Opening, Using
  <2>2. loc[s].conn \in Conns
    BY <2>1, OpeningIs
  <2>3. proc'[loc[s].conn].owed \in {proc[loc[s].conn].owed, <<>>}
    BY <2>1, <2>2 DEF Owes
  <2> QED BY <2>1, <2>3 DEF Answering
<1>3. ASSUME NEW c \in Pooled', ~ Locked(c)' PROVE proc'[c].owed = <<>>
  <2>1. c \in Pooled /\ c \in Conns
    BY SoundParts
  <2>2. proc'[c].owed \in {proc[c].owed, <<>>}
    BY <2>1 DEF Owes
  <2>3. CASE Locked(c)
    <3>1. PICK s \in Tasks : pc[s] = "call" /\ loc[s].conn = c
      BY <2>3 DEF Locked
    <3>2. pc'[s] # "call"
      BY <1>3, <3>1 DEF SameUse, Locked
    <3> QED BY <3>1, <3>2 DEF LetGo
  <2>4. CASE ~ Locked(c)
    BY <2>1, <2>2, <2>4 DEF Answering
  <2> QED BY <2>3, <2>4
<1> QED BY <1>1, <1>2, <1>3 DEF Answering

LEMMA AnsweringSpawn ==
  ASSUME Sound, Answering, NEW t \in Tasks, Spawn(t)
  PROVE  Answering'
<1>1. PICK c \in Conns : /\ Unused(c)
                         /\ proc' = [proc EXCEPT ![c] = [state |-> "up", used |-> 0, owed |-> <<>>]]
                         /\ loc' = [loc EXCEPT ![t].conn = c]
  BY DEF Spawn
<1>2. pc[t] = "spawn" /\ pc' = [pc EXCEPT ![t] = "handshake"] /\ got' = got /\ Pooled' = Pooled
  BY DEF Spawn, pool, Pooled
<1>3. c \notin Pooled /\ \A s \in Tasks : loc[s].conn # c
  BY <1>1 DEF Unused
<1>4. /\ \A s \in Tasks \ {t} : loc'[s] = loc[s] /\ pc'[s] = pc[s]
      /\ \A d \in Conns \ {c} : proc'[d] = proc[d]
      /\ proc'[c].owed = <<>> /\ pc'[t] = "handshake"
  BY <1>1, <1>2, SoundParts
<1>5. loc'[t].conn = c
  BY <1>1, SoundParts DEF Local
<1>6. \A s \in Tasks : pc[s] \in Using => loc[s].conn \in Conns \ {c}
  BY <1>3, SoundParts DEF Placed
<1>7. ASSUME NEW s \in Tasks
      PROVE  /\ pc'[s] = "call" => proc'[loc'[s].conn].owed \in {<<>>, <<s>>}
             /\ pc'[s] \in Opening => proc'[loc'[s].conn].owed = <<>>
  <2>1. CASE s = t
    BY <1>4, <1>5, <2>1
  <2>2. CASE s # t
    <3>1. pc'[s] = pc[s] /\ loc'[s] = loc[s]
      BY <1>4, <2>2
    <3>2. pc[s] \in Using => proc'[loc[s].conn] = proc[loc[s].conn]
      BY <1>4, <1>6
    <3> QED BY <3>1, <3>2 DEF Answering, Opening, Using
  <2> QED BY <2>1, <2>2
<1>8. ASSUME NEW d \in Pooled', ~ Locked(d)' PROVE proc'[d].owed = <<>>
  <2>1. d \in Pooled /\ d \in Conns \ {c}
    BY <1>2, <1>3, SoundParts
  <2>2. ~ Locked(d)
    BY <1>2, <1>4, <1>8 DEF Locked
  <2> QED BY <1>4, <2>1, <2>2 DEF Answering
<1>9. OwnAnswer'
  BY <1>2 DEF Answering, OwnAnswer
<1> QED BY <1>7, <1>8, <1>9 DEF Answering

\* The call that reads a line reads its own answer, and is let go.
LEMMA AnsweringAnswer ==
  ASSUME Sound, Sound', Answering, NEW t \in Tasks, Answer(t)
  PROVE  Answering'
<1> DEFINE c == loc[t].conn
<1>1. /\ pc[t] = "call" /\ proc[c].owed # <<>> /\ Idle(t)
      /\ got' = [got EXCEPT ![t] = Head(proc[c].owed)]
      /\ proc' = [proc EXCEPT ![c].owed = Tail(proc[c].owed)]
      /\ UNCHANGED pool
  BY DEF Answer
<1>2. proc[c].owed \in {<<>>, <<t>>} /\ c \in Conns
  BY <1>1, SoundParts DEF Answering, Placed, Using
<1>3. Head(proc[c].owed) = t /\ Tail(proc[c].owed) = <<>>
  BY <1>1, <1>2, OneOwed
<1>4. /\ \A s \in Tasks \ {t} : pc'[s] = pc[s] /\ loc'[s] = loc[s]
      /\ pc'[t] = "idle"
  BY <1>1, IdleLeaves
<1>5. \A d \in Conns : proc'[d].owed = IF d = c THEN <<>> ELSE proc[d].owed
  <2> HIDE DEF c
  <2> QED BY <1>1, <1>2, <1>3, SoundParts DEF Process
<1>6. OwnAnswer'
  BY <1>1, <1>3, SoundParts DEF Answering, OwnAnswer
<1>7. Pooled' = Pooled
  BY <1>1 DEF pool, Pooled
<1>8. \A s \in Tasks : SameUse(s) /\ LetGo(s)
  BY <1>2, <1>4, <1>5 DEF SameUse, LetGo, Opening
<1>9. \A d \in Conns : Owes(d)
  BY <1>5 DEF Owes
<1> QED BY <1>6, <1>7, <1>8, <1>9, AnsweringKept

\* The call that fails takes its connection out of the pool.
LEMMA AnsweringFail ==
  ASSUME Sound, Sound', Answering, NEW t \in Tasks, Fail(t)
  PROVE  Answering'
<1> DEFINE c == loc[t].conn
           p == Terminated({c})
           S == Emptied(Without({c}))
<1>1. /\ pc[t] = "call" /\ conns' = Without({c}) /\ order' = Kept(Without({c}))
      /\ proc' = [p EXCEPT ![c].owed = Abandoned(p[c].owed, t)]
      /\ pc' = [pc EXCEPT ![t] = "failed"] /\ loc' = Orphaned(S) /\ got' = got
  BY DEF Fail
<1>2. Pooled' = Pooled \ {c}
  BY <1>1, SoundParts, DropIs
<1>3. \A s \in Tasks : loc'[s].conn = loc[s].conn
  BY <1>1, SoundParts, OrphanedIs
<1>4. pc'[t] = "failed" /\ \A s \in Tasks \ {t} : pc'[s] = pc[s]
  BY <1>1, SoundParts
<1>5. p \in [Conns -> Process] /\ \A d \in Conns : p[d].owed = proc[d].owed
  BY SoundParts, TerminatedIs
<1> HIDE DEF p, S
<1>6. \A d \in Conns : d # c => proc'[d].owed = proc[d].owed
  BY <1>1, <1>5
<1>7. \A s \in Tasks : SameUse(s) /\ LetGo(s)
  BY <1>2, <1>3, <1>4 DEF SameUse, LetGo, Opening
<1>8. ASSUME NEW d \in Conns PROVE Owes(d)
  <2>1. CASE d # c
    BY <1>6, <2>1 DEF Owes
  <2>2. CASE d = c
    <3>1. \A s \in Tasks : pc'[s] \in Using => loc'[s].conn # c
      BY <1>1, <1>3, <1>4, SoundParts DEF Using, Unshared
    <3> QED BY <1>2, <2>2, <3>1 DEF Owes
  <2> QED BY <2>1, <2>2
<1>9. OwnAnswer'
  BY <1>1 DEF Answering, OwnAnswer
<1> QED BY <1>2, <1>7, <1>8, <1>9, AnsweringKept

\* A process ends: a call still reads what it wrote, nothing else is kept.
LEMMA AnsweringEnds ==
  ASSUME Sound, Sound', Answering, NEW c \in Conns, Die(c) \/ Crash(c)
  PROVE  Answering'
<1>1. Ends(c) /\ UNCHANGED <<pool, pc, loc, got>>
  BY DEF Die, Crash
<1>2. /\ \A d \in Conns \ {c} : proc'[d] = proc[d]
      /\ ~ Locked(c) => proc'[c].owed = <<>>
      /\ \E n \in 0..Len(proc[c].owed) : Locked(c) => proc'[c].owed = SubSeq(proc[c].owed, 1, n)
  BY <1>1, SoundParts, EndsIs
<1>3. Pooled' = Pooled
  BY <1>1 DEF pool, Pooled
<1>4. ASSUME NEW s \in Tasks, pc[s] = "call", loc[s].conn = c
      PROVE  proc'[c].owed \in {<<>>, <<s>>}
  <2>1. Locked(c) /\ proc[c].owed \in {<<>>, <<s>>}
    BY <1>4 DEF Locked, Answering
  <2>2. PICK n \in 0..Len(proc[c].owed) : proc'[c].owed = SubSeq(proc[c].owed, 1, n)
    BY <1>2, <2>1
  <2> QED BY <2>1, <2>2, OneOwed
<1>5. ASSUME NEW s \in Tasks
      PROVE  /\ pc'[s] = "call" => proc'[loc'[s].conn].owed \in {<<>>, <<s>>}
             /\ pc'[s] \in Opening => proc'[loc'[s].conn].owed = <<>>
  <2>1. pc'[s] = pc[s] /\ loc'[s] = loc[s] /\ (pc[s] \in Using => loc[s].conn \in Conns)
    BY <1>1, SoundParts DEF Placed
  <2>2. CASE loc[s].conn # c
    BY <1>2, <2>1, <2>2 DEF Answering, Opening, Using
  <2>3. CASE loc[s].conn = c
    <3>1. pc[s] \in Opening => ~ Locked(c)
      BY <2>3, SoundParts DEF Locked, Unshared, Opening, Using
    <3> QED BY <1>2, <1>4, <2>1, <2>3, <3>1
  <2> QED BY <2>2, <2>3
<1>6. ASSUME NEW d \in Pooled', ~ Locked(d)' PROVE proc'[d].owed = <<>>
  <2>1. d \in Pooled /\ d \in Conns /\ ~ Locked(d)
    BY <1>1, <1>3, <1>6, SoundParts DEF Locked
  <2> QED BY <1>2, <2>1 DEF Answering
<1>7. OwnAnswer'
  BY <1>1 DEF Answering, OwnAnswer
<1> QED BY <1>5, <1>6, <1>7 DEF Answering

\* The steps that leave what connections owe alone.
LEMMA AnsweringRest ==
  ASSUME Sound, Sound', Answering,
         \/ \E t \in Tasks : \/ \E k \in Keys : Create(t, k)
                             \/ SpawnFails(t) \/ HandshakeFails(t) \/ (Admit(t) /\ Waits(t))
                             \/ Fallback(t)
         \/ \E c \in Conns : Close(c)
         \/ Sweep \/ SweepClose \/ Tick
  PROVE  Answering'
<1> DEFINE Good == /\ \A s \in Tasks : SameUse(s) /\ LetGo(s)
                   /\ \A c \in Conns : proc'[c].owed = proc[c].owed
                   /\ Pooled' \subseteq Pooled
                   /\ \A s \in Tasks : got'[s] \in {got[s], Nobody}
<1>1. \A S : proc' = Terminated(S) => \A c \in Conns : proc'[c].owed = proc[c].owed
  BY SoundParts, TerminatedIs
<1>2. got' = got => \A s \in Tasks : got'[s] \in {got[s], Nobody}
  OBVIOUS
<1>3. ASSUME NEW t \in Tasks, NEW k \in Keys, Create(t, k) PROVE Good
  <2> DEFINE l == Orphaned(Emptied(Without(Victims)))
  <2>1. /\ pc[t] = "idle" /\ pc' = [pc EXCEPT ![t] = "spawn"]
        /\ loc' = [l EXCEPT ![t].key = k] /\ proc' = proc /\ got' = [got EXCEPT ![t] = Nobody]
        /\ conns' = Without(Victims) /\ order' = Kept(Without(Victims))
    BY <1>3 DEF Create
  <2>2. l \in [Tasks -> Local] /\ \A s \in Tasks : l[s].conn = loc[s].conn
    BY SoundParts, OrphanedIs
  <2> HIDE DEF l
  <2>3. \A s \in Tasks : SameUse(s) /\ LetGo(s)
    BY <2>1, <2>2, SoundParts DEF SameUse, LetGo, Opening
  <2>4. Pooled' \subseteq Pooled
    BY <2>1, SoundParts, DropIs
  <2> QED BY <2>1, <2>3, <2>4, SoundParts
<1>4. ASSUME NEW t \in Tasks, SpawnFails(t) \/ HandshakeFails(t) \/ (Admit(t) /\ Waits(t))
      PROVE  Good
  <2>1. /\ pc[t] \in {"spawn", "handshake"} /\ loc' = loc /\ got' = got
        /\ pc' = [pc EXCEPT ![t] = "failed"]
             \/ (pc' = [pc EXCEPT ![t] = "replace"] /\ pc[t] = "handshake")
        /\ (proc' = proc \/ \E S : proc' = Terminated(S))
    BY <1>4, WaitIs DEF SpawnFails, HandshakeFails, Admit
  <2>2. Pooled' \subseteq Pooled
    <3>1. CASE Admit(t) /\ Waits(t)
      BY <3>1, WaitIs
    <3>2. CASE SpawnFails(t) \/ HandshakeFails(t)
      BY <3>2 DEF SpawnFails, HandshakeFails, pool, Pooled
    <3> QED BY <1>4, <3>1, <3>2
  <2>3. \A s \in Tasks : SameUse(s) /\ LetGo(s)
    BY <2>1, SoundParts DEF SameUse, LetGo, Opening
  <2> QED BY <1>1, <1>2, <2>1, <2>2, <2>3
<1>5. ASSUME NEW t \in Tasks, Fallback(t) PROVE Good
  <2>1. pc[t] = "failed" /\ Idle(t) /\ proc' = proc /\ got' = got /\ Pooled' = Pooled
    BY <1>5 DEF Fallback, pool, Pooled
  <2>2. \A s \in Tasks : SameUse(s) /\ LetGo(s)
    BY <2>1, IdleLeaves DEF SameUse, LetGo, Opening
  <2> QED BY <1>2, <2>1, <2>2
<1>6. ASSUME (\E c \in Conns : Close(c)) \/ SweepClose PROVE Good
  <2>1. /\ pc' = pc /\ loc' = loc /\ got' = got /\ Pooled' = Pooled
        /\ \E S : proc' = Terminated(S)
    BY <1>6 DEF Close, SweepClose, pool, Pooled
  <2>2. \A s \in Tasks : SameUse(s) /\ LetGo(s)
    BY <2>1 DEF SameUse, LetGo
  <2> QED BY <1>1, <1>2, <2>1, <2>2
<1>7. ASSUME Sweep PROVE Good
  <2>1. pc' = pc /\ proc' = proc /\ got' = got /\ loc' = Orphaned({k \in Keys : conns[k] # <<>>})
    BY <1>7 DEF Sweep
  <2>2. \A s \in Tasks : loc'[s].conn = loc[s].conn
    BY <2>1, SoundParts, OrphanedIs
  <2>3. \A s \in Tasks : SameUse(s) /\ LetGo(s)
    BY <2>1, <2>2 DEF SameUse, LetGo
  <2>4. Pooled' \subseteq Pooled
    BY <1>7, SweepIs
  <2> QED BY <1>2, <2>1, <2>3, <2>4
<1>8. ASSUME Tick PROVE Good
  <2>1. pc' = pc /\ got' = got /\ Pooled' = Pooled
    BY <1>8 DEF Tick, pool, Pooled
  <2>2. /\ \A s \in Tasks : loc'[s].conn = loc[s].conn
        /\ \A c \in Conns : proc'[c].owed = proc[c].owed
    BY <1>8, TickIs
  <2>3. \A s \in Tasks : SameUse(s) /\ LetGo(s)
    BY <2>1, <2>2 DEF SameUse, LetGo
  <2> QED BY <1>2, <2>1, <2>2, <2>3
<1>9. Good
  BY <1>3, <1>4, <1>5, <1>6, <1>7, <1>8
<1>10. OwnAnswer'
  BY <1>9 DEF Answering, OwnAnswer
<1>11. \A c \in Conns : Owes(c)
  BY <1>9 DEF Owes
<1> HIDE DEF Good
<1>12. (\A s \in Tasks : SameUse(s) /\ LetGo(s)) /\ Pooled' \subseteq Pooled
  BY <1>9 DEF Good
<1> QED BY <1>10, <1>11, <1>12, AnsweringKept

Unhurried == cancels = 0 => Answering

LEMMA AnsweringStep == Sound /\ Unhurried /\ [Next]_vars => Unhurried'
<1> SUFFICES ASSUME Sound, Unhurried, [Next]_vars, cancels' = 0 PROVE Answering'
  BY DEF Unhurried
<1>1. Sound'
  BY SoundStep
<1>2. CASE UNCHANGED vars
  <2>1. Answering
    BY <1>2 DEF vars, Unhurried
  <2> QED BY <1>2, <2>1 DEF vars, Answering, OwnAnswer, Locked, Pooled
<1>3. ASSUME NEW t \in Tasks, Call(t) PROVE Answering'
  <2>1. ~ Cancel(t)
    BY SoundParts, PoolAssumption DEF Cancel
  <2>2. \/ (\E k \in Keys : Reuse(t, k)) \/ Replace(t) \/ Admit(t) \/ Spawn(t)
        \/ (\E k \in Keys : Create(t, k)) \/ SpawnFails(t) \/ HandshakeFails(t)
        \/ Answer(t) \/ Fail(t) \/ Fallback(t)
    BY <1>3, <2>1 DEF Call
  <2>3. cancels' = cancels
    BY <2>2 DEF Reuse, Replace, Admit, Spawn, Create, SpawnFails, HandshakeFails, Answer,
                Fail, Fallback
  <2>4. Answering
    BY <2>3 DEF Unhurried
  <2>5. CASE Admit(t)
    <3>1. CASE Waits(t)
      BY <1>1, <2>4, <2>5, <3>1, AnsweringRest
    <3>2. CASE ~ Waits(t)
      BY <2>4, <2>5, <3>2, StartsIs, AnsweringStarts
    <3> QED BY <3>1, <3>2
  <2>6. CASE (\E k \in Keys : Reuse(t, k)) \/ Replace(t)
    BY <2>4, <2>6, StartsIs, AnsweringStarts
  <2>7. CASE SpawnFails(t) \/ HandshakeFails(t) \/ Fallback(t)
    BY <1>1, <2>4, <2>7, AnsweringRest
  <2>8. CASE \E k \in Keys : Create(t, k)
    BY <1>1, <2>4, <2>8, AnsweringRest
  <2>9. CASE Spawn(t) \/ Answer(t) \/ Fail(t)
    BY <1>1, <2>4, <2>9, AnsweringSpawn, AnsweringAnswer, AnsweringFail
  <2> QED BY <2>2, <2>5, <2>6, <2>7, <2>8, <2>9
<1>4. ASSUME NEW c \in Conns, Close(c) \/ Die(c) \/ Crash(c) PROVE Answering'
  <2>1. Answering
    BY <1>4 DEF Unhurried, Close, Die, Crash
  <2>2. CASE Close(c)
    BY <1>1, <2>1, <2>2, AnsweringRest
  <2>3. CASE Die(c) \/ Crash(c)
    BY <1>1, <2>1, <2>3, AnsweringEnds
  <2> QED BY <1>4, <2>2, <2>3
<1>5. CASE Sweep \/ SweepClose \/ Tick
  <2>1. Answering
    BY <1>5 DEF Unhurried, Sweep, SweepClose, Tick
  <2> QED BY <1>1, <1>5, <2>1, AnsweringRest
<1> QED BY <1>2, <1>3, <1>4, <1>5 DEF Next

\* Until a task is cancelled inside a call, call_tool returns the answer to its
\* own request, although nothing compares ids: processes may crash, be evicted,
\* replaced or closed by the cleanup task while the call is on them.
THEOREM AnswersAreOwn == Spec => [](cancels = 0 => OwnAnswer)
<1>1. Init => Unhurried
  <2> SUFFICES ASSUME Init PROVE Answering
    BY DEF Unhurried
  <2>1. Pooled = {}
    BY EmptySeq DEF Init, Pooled, ToSet
  <2> QED BY <2>1 DEF Init, Answering, OwnAnswer, Opening
<1>2. Spec => [](Sound /\ Unhurried)
  BY <1>1, InitSound, SoundStep, AnsweringStep, PTL DEF Spec
<1>3. Unhurried => (cancels = 0 => OwnAnswer)
  BY DEF Unhurried, Answering
<1> QED BY <1>2, <1>3, PTL

-----------------------------------------------------------------------------
(* How many connections are pooled.                                        *)

LEMMA CountsAre ==
  ASSUME Sound
  PROVE  /\ IsFiniteSet(Pooled) /\ Cardinality(Pooled) \in Nat
         /\ IsFiniteSet(Creating) /\ Cardinality(Creating) \in Nat
         /\ MaxPool \in Nat \ {0} /\ Cardinality(Tasks) \in Nat
<1>1. IsFiniteSet(Pooled)
  BY SoundParts, PooledFinite
<1>2. IsFiniteSet(Tasks) /\ Creating \in SUBSET Tasks
  BY PoolAssumption DEF Creating
<1>3. IsFiniteSet(Creating)
  BY <1>2, FS_Subset
<1> QED BY <1>1, <1>2, <1>3, FS_CardinalityType, PoolAssumption

LEMMA FewerKept ==
  ASSUME Sound, Sound', PoolBound, Pooled' \subseteq Pooled, Creating' \subseteq Creating
  PROVE  PoolBound'
<1>1. Cardinality(Pooled') <= Cardinality(Pooled)
  BY CountsAre, FS_Subset
<1>2. Cardinality(Creating') <= Cardinality(Creating)
  BY CountsAre, FS_Subset
<1>3. Cardinality(Pooled') \in Nat /\ Cardinality(Creating') \in Nat
  <2>1. IsFiniteSet(Pooled') /\ IsFiniteSet(Creating')
    BY CountsAre, FS_Subset
  <2> QED BY <2>1, FS_CardinalityType
<1> QED BY <1>1, <1>2, <1>3, CountsAre DEF PoolBound

\* What a task adds, it had a right to: it was counted before.
LEMMA BoundStarts ==
  ASSUME Sound, Sound', PoolBound, NEW t \in Tasks, NEW c \in Conns, Starts(t, c)
  PROVE  PoolBound'
<1>1. pc'[t] = "call" /\ \A s \in Tasks \ {t} : pc'[s] = pc[s]
  BY SoundParts, StartCallIs DEF Starts
<1>2. Creating' \subseteq Creating \ {t}
  BY <1>1 DEF Creating
<1>3. CASE c \in Pooled
  BY <1>2, <1>3, FewerKept DEF Starts
<1>4. CASE c \notin Pooled
  <2>1. t \in Creating
    BY <1>4 DEF Starts, Creating, Opening
  <2>2. /\ IsFiniteSet(Creating \ {t}) /\ IsFiniteSet(Pooled \cup {c})
        /\ Cardinality(Creating \ {t}) = Cardinality(Creating) - 1
        /\ Cardinality(Pooled \cup {c}) = Cardinality(Pooled) + 1
    BY <1>4, <2>1, CountsAre, FS_RemoveElement, FS_AddElement
  <2>3. /\ IsFiniteSet(Creating') /\ Cardinality(Creating') <= Cardinality(Creating \ {t})
        /\ IsFiniteSet(Pooled') /\ Cardinality(Pooled') <= Cardinality(Pooled \cup {c})
    BY <1>2, <2>2, FS_Subset DEF Starts
  <2>4. Cardinality(Pooled') \in Nat /\ Cardinality(Creating') \in Nat
    BY <2>3, FS_CardinalityType
  <2> QED BY <2>2, <2>3, <2>4, CountsAre DEF PoolBound
<1> QED BY <1>3, <1>4

\* Room is made for the connection before its process is spawned.
LEMMA BoundCreate ==
  ASSUME Sound, Sound', PoolBound, NEW t \in Tasks, NEW k \in Keys, Create(t, k)
  PROVE  PoolBound'
<1>1. /\ conns' = Without(Victims) /\ order' = Kept(Without(Victims))
      /\ pc' = [pc EXCEPT ![t] = "spawn"] /\ pc[t] = "idle"
  BY DEF Create
<1>2. Pooled' = Pooled \ Victims
  BY <1>1, SoundParts, DropIs
<1>3. Cardinality(Pooled') < MaxPool
  <2>1. CASE Cardinality(Pooled) < MaxPool
    <3>1. Pooled' = Pooled
      BY <1>2, <2>1, SoundParts, VictimsAre
    <3> QED BY <2>1, <3>1
  <2>2. CASE ~ (Cardinality(Pooled) < MaxPool)
    <3>1. Cardinality(Pooled) >= MaxPool
      BY <2>2, CountsAre
    <3>2. Cardinality(Pooled') = MaxPool - 1
      BY <1>2, <3>1, SoundParts, VictimsAre
    <3> QED BY <3>2, CountsAre
  <2> QED BY <2>1, <2>2
<1>4. Cardinality(Creating') <= Cardinality(Tasks) /\ Cardinality(Creating') \in Nat
  <2>1. Creating' \in SUBSET Tasks
    BY DEF Creating
  <2>2. IsFiniteSet(Creating') /\ Cardinality(Creating') <= Cardinality(Tasks)
    BY <2>1, PoolAssumption, FS_Subset
  <2> QED BY <2>2, FS_CardinalityType
<1>5. Cardinality(Pooled') \in Nat
  <2>1. Pooled' \in SUBSET Pooled
    BY <1>2
  <2>2. IsFiniteSet(Pooled')
    BY <2>1, CountsAre, FS_Subset
  <2> QED BY <2>2, FS_CardinalityType
<1> QED BY <1>3, <1>4, <1>5, CountsAre DEF PoolBound

LEMMA BoundStep == Sound /\ PoolBound /\ [Next]_vars => PoolBound'
<1> SUFFICES ASSUME Sound, PoolBound, [Next]_vars PROVE PoolBound'
  OBVIOUS
<1>1. Sound'
  BY SoundStep
<1>2. CASE UNCHANGED vars
  BY <1>2 DEF vars, PoolBound, Creating, Pooled
<1>3. ASSUME NEW t \in Tasks, Call(t) PROVE PoolBound'
  <2>1. \/ (\E k \in Keys : Reuse(t, k)) \/ Replace(t) \/ Admit(t)
        \/ (\E k \in Keys : Create(t, k))
        \/ Spawn(t) \/ SpawnFails(t) \/ HandshakeFails(t)
        \/ Answer(t) \/ Fail(t) \/ Fallback(t) \/ Cancel(t)
    BY <1>3 DEF Call
  <2>2. CASE Admit(t)
    <3>1. CASE Waits(t)
      <4>1. Pooled' \subseteq Pooled /\ pc' = [pc EXCEPT ![t] = "replace"] /\ pc[t] = "handshake"
        BY <2>2, <3>1, WaitIs DEF Admit
      <4>2. Creating' \subseteq Creating
        BY <4>1, SoundParts DEF Creating
      <4> QED BY <1>1, <4>1, <4>2, FewerKept
    <3>2. CASE ~ Waits(t)
      BY <1>1, <2>2, <3>2, StartsIs, BoundStarts
    <3> QED BY <3>1, <3>2
  <2>3. CASE (\E k \in Keys : Reuse(t, k)) \/ Replace(t)
    BY <1>1, <2>3, StartsIs, BoundStarts
  <2>4. CASE \E k \in Keys : Create(t, k)
    BY <1>1, <2>4, BoundCreate
  <2>5. CASE Spawn(t) \/ SpawnFails(t) \/ HandshakeFails(t)
    <3>1. Pooled' = Pooled
      BY <2>5 DEF Spawn, SpawnFails, HandshakeFails, pool, Pooled
    <3>2. /\ pc[t] \in {"spawn", "handshake"}
          /\ pc' = [pc EXCEPT ![t] = "failed"] \/ pc' = [pc EXCEPT ![t] = "handshake"]
      BY <2>5 DEF Spawn, SpawnFails, HandshakeFails
    <3>3. Creating' \subseteq Creating
      BY <3>2, SoundParts DEF Creating
    <3> QED BY <1>1, <3>1, <3>3, FewerKept
  <2>6. CASE Answer(t) \/ Fallback(t) \/ Cancel(t)
    <3>1. Pooled' = Pooled /\ pc' = [pc EXCEPT ![t] = "idle"]
      BY <2>6 DEF Answer, Fallback, Cancel, Idle, pool, Pooled
    <3>2. Creating' \subseteq Creating
      BY <3>1, SoundParts DEF Creating
    <3> QED BY <1>1, <3>1, <3>2, FewerKept
  <2>7. CASE Fail(t)
    <3>1. /\ conns' = Without({loc[t].conn}) /\ order' = Kept(Without({loc[t].conn}))
          /\ pc' = [pc EXCEPT ![t] = "failed"]
      BY <2>7 DEF Fail
    <3>2. Pooled' = Pooled \ {loc[t].conn}
      BY <3>1, SoundParts, DropIs
    <3>3. Creating' \subseteq Creating
      BY <3>1, SoundParts DEF Creating
    <3> QED BY <1>1, <3>2, <3>3, FewerKept
  <2> QED BY <2>1, <2>2, <2>3, <2>4, <2>5, <2>6, <2>7
<1>4. ASSUME Sweep \/ SweepClose \/ Tick \/ \E c \in Conns : Close(c) \/ Die(c) \/ Crash(c)
      PROVE  PoolBound'
  <2>1. pc' = pc
    BY <1>4 DEF Sweep, SweepClose, Tick, Close, Die, Crash
  <2>2. Pooled' \subseteq Pooled
    <3>1. CASE Sweep
      BY <3>1, SweepIs
    <3>2. CASE SweepClose \/ Tick \/ \E c \in Conns : Close(c) \/ Die(c) \/ Crash(c)
      BY <3>2 DEF SweepClose, Tick, Close, Die, Crash, pool, Pooled
    <3> QED BY <1>4, <3>1, <3>2
  <2>3. Creating' \subseteq Creating
    BY <2>1 DEF Creating
  <2> QED BY <1>1, <2>2, <2>3, FewerKept
<1> QED BY <1>2, <1>3, <1>4 DEF Next

\* The pool overshoots _MAX_POOL_SIZE by less than one connection for each task
\* (_evict_if_full runs before the process is spawned, not when it is pooled).
THEOREM PoolIsBounded == Spec => []PoolBound
<1>1. Init /\ Sound => PoolBound
  <2> SUFFICES ASSUME Init, Sound PROVE PoolBound
    OBVIOUS
  <2>1. Pooled = {} /\ Creating = {}
    BY EmptySeq DEF Init, Pooled, Creating, ToSet
  <2>2. Cardinality({}) = 0
    BY FS_EmptySet
  <2> QED BY <2>1, <2>2, CountsAre DEF PoolBound
<1>2. Spec => [](Sound /\ PoolBound)
  BY <1>1, InitSound, SoundStep, BoundStep, PTL DEF Spec
<1> QED BY <1>2, PTL
=============================================================================
