------------------------------- MODULE McpPool -------------------------------
(***************************************************************************)
(* The pool of MCP server processes of one worker (McpProcessPool): tool   *)
(* calls of any number of asyncio tasks share long-lived processes that    *)
(* they talk to over pipes, one request and one line of answer at a time.  *)
(* Tasks interleave where the code awaits something that suspends; pc[t]   *)
(* is what task t awaits.  Taking a connection from the pool, or adding    *)
(* one, and taking its lock happen without a suspension in between.        *)
(***************************************************************************)
EXTENDS Naturals, FiniteSets, Sequences, SequencesExt, Lists

CONSTANTS
  Tasks,        \* asyncio tasks that call MCP tools
  Keys,         \* pool keys: an MCP server's command, arguments, environment
  Conns,        \* connections, each with its child process
  MaxPool,      \* _MAX_POOL_SIZE
  MaxPerKey,    \* _MAX_PER_KEY
  IdleTimeout,  \* _IDLE_TIMEOUT, in ticks of the clock
  CallTimeout,  \* how long a call waits for its answer, in ticks
  MaxCrashes,   \* bound on processes that end by themselves
  MaxCancels,   \* bound on tasks that are cancelled inside a call
  NoKey,        \* no key
  NoConn,       \* no connection
  Nobody,       \* no answer was returned
  Gone          \* the caller of a request who no longer waits for the answer

ASSUME PoolAssumption ==
  /\ IsFiniteSet(Tasks)
  /\ MaxPool \in Nat \ {0}
  /\ MaxPerKey \in Nat \ {0, 1}
  /\ IdleTimeout \in Nat /\ CallTimeout \in Nat /\ CallTimeout <= IdleTimeout
  /\ MaxCrashes \in Nat /\ MaxCancels \in Nat
  /\ NoKey \notin Keys /\ NoConn \notin Conns
  /\ Nobody \notin Tasks /\ Gone \notin Tasks

VARIABLES
  order,    \* the keys of _pools, the least recently used one first
  conns,    \* the list of connections of every key of _pools
  proc,     \* the process of every connection
  pc,       \* what each task awaits
  loc,      \* the local variables of each task
  got,      \* history: whose request the answer of each task's last call is to
  closing,  \* evicted connections whose close() is scheduled
  sweep,    \* connections the cleanup task has still to close
  crashes, cancels

pool == <<order, conns>>
vars == <<order, conns, proc, pc, loc, got, closing, sweep, crashes, cancels>>

\* "ending": told to terminate, and not yet known to have ended.
Process == [state : {"none", "up", "ending", "dead"}, used : 0..IdleTimeout + 1,
            owed : Seq(Tasks \cup {Gone})]
Local   == [key : Keys \cup {NoKey}, conn : Conns \cup {NoConn}, orphan : BOOLEAN,
            waited : 0..CallTimeout]
NoLocal == [key |-> NoKey, conn |-> NoConn, orphan |-> FALSE, waited |-> 0]
Labels  == {"idle", "spawn", "handshake", "replace", "call", "failed"}

Init ==
  /\ order = <<>>
  /\ conns = [k \in Keys |-> <<>>]
  /\ proc = [c \in Conns |-> [state |-> "none", used |-> 0, owed |-> <<>>]]
  /\ pc = [t \in Tasks |-> "idle"]
  /\ loc = [t \in Tasks |-> NoLocal]
  /\ got = [t \in Tasks |-> Nobody]
  /\ closing = {}
  /\ sweep = <<>>
  /\ crashes = 0
  /\ cancels = 0

Alive(c)  == proc[c].state \in {"up", "ending"}
Locked(c) == \E t \in Tasks : pc[t] = "call" /\ loc[t].conn = c
Pooled    == UNION {ToSet(conns[k]) : k \in Keys}

\* The pooled connections, the first to be evicted first.
Flat == FlattenSeq([i \in 1..Len(order) |-> conns[order[i]]])

\* The lists without the connections in S, and the keys that keep a list.
Without(S) == [k \in Keys |-> Only(conns[k], Conns \ S)]
Kept(ls)   == Only(order, {k \in Keys : ls[k] # <<>>})

\* setdefault and move_to_end.
Touched(k) == Append(Only(order, Keys \ {k}), k)

\* The connections in S are told to terminate.
Terminated(S) ==
  [c \in Conns |-> IF c \in S /\ proc[c].state = "up"
                   THEN [proc[c] EXCEPT !.state = "ending"] ELSE proc[c]]

\* Lists of the keys in S are dropped from _pools: a task that awaits the end
\* of a connection it took from one holds a list that is no longer pooled.
Orphaned(S) ==
  [t \in Tasks |-> IF pc[t] = "replace" /\ loc[t].key \in S
                   THEN [loc[t] EXCEPT !.orphan = TRUE] ELSE loc[t]]

Emptied(ls) == {k \in Keys : conns[k] # <<>> /\ ls[k] = <<>>}

-----------------------------------------------------------------------------
(* A tool call: acquire, then call_tool on the connection.                 *)

\* Mutant: last_used keeps the time of the call before.
StartCallUnstamped(t, k, c) ==
  /\ pc' = [pc EXCEPT ![t] = "call"]
  /\ loc' = [loc EXCEPT ![t] = [key |-> k, conn |-> c, orphan |-> FALSE,
                                waited |-> 0]]
  /\ proc' = [proc EXCEPT ![c].owed = IF Alive(c) THEN Append(@, t) ELSE @]
  /\ got' = [got EXCEPT ![t] = Nobody]

\* McpConnection.call_tool: lock, stamp, write the request, await a line.
StartCall(t, k, c) ==
  /\ pc' = [pc EXCEPT ![t] = "call"]
  /\ loc' = [loc EXCEPT ![t] = [key |-> k, conn |-> c, orphan |-> FALSE,
                                waited |-> 0]]
  /\ proc' = [proc EXCEPT ![c].used = 0,
                          ![c].owed = IF Alive(c) THEN Append(@, t) ELSE @]
  /\ got' = [got EXCEPT ![t] = Nobody]

\* Mutant: the lock is not looked at.
ReusableLocked(k) == {i \in DOMAIN conns[k] : Alive(conns[k][i])}

Reusable(k) ==
  {i \in DOMAIN conns[k] : Alive(conns[k][i]) /\ ~ Locked(conns[k][i])}

\* The first connection of the key that is free is taken.
Reuse(t, k) ==
  /\ pc[t] = "idle"
  /\ \E i \in Reusable(k) : /\ \A j \in Reusable(k) : i <= j
                           /\ StartCall(t, k, conns[k][i])
  /\ order' = Touched(k)
  /\ UNCHANGED <<conns, closing, sweep, crashes, cancels>>

\* Mutant: one connection more than there may be is left alone.
VictimsLate ==
  LET n == Cardinality(Pooled) IN
  IF n <= MaxPool THEN {} ELSE ToSet(SubSeq(Flat, 1, n - MaxPool))

\* _evict_if_full makes room for one connection.
Victims ==
  LET n == Cardinality(Pooled) IN
  IF n < MaxPool THEN {} ELSE ToSet(SubSeq(Flat, 1, n - MaxPool + 1))

Create(t, k) ==
  /\ pc[t] = "idle"
  /\ Reusable(k) = {}
  /\ conns' = Without(Victims)
  /\ order' = Kept(Without(Victims))
  /\ closing' = closing \cup Victims
  /\ pc' = [pc EXCEPT ![t] = "spawn"]
  /\ loc' = [Orphaned(Emptied(Without(Victims))) EXCEPT ![t].key = k]
  /\ got' = [got EXCEPT ![t] = Nobody]
  /\ UNCHANGED <<proc, sweep, crashes, cancels>>

\* A connection object that nothing refers to any more, or was never created.
Unused(c) ==
  /\ ~ Alive(c)
  /\ c \notin Pooled \cup closing \cup ToSet(sweep)
  /\ \A t \in Tasks : loc[t].conn # c

Spawn(t) ==
  /\ pc[t] = "spawn"
  /\ \E c \in Conns :
       /\ Unused(c)
       /\ proc' = [proc EXCEPT ![c] = [state |-> "up", used |-> 0, owed |-> <<>>]]
       /\ loc' = [loc EXCEPT ![t].conn = c]
  /\ pc' = [pc EXCEPT ![t] = "handshake"]
  /\ UNCHANGED <<pool, got, closing, sweep, crashes, cancels>>

\* The command cannot be started: the call goes on without the pool.
SpawnFails(t) ==
  /\ pc[t] = "spawn"
  /\ pc' = [pc EXCEPT ![t] = "failed"]
  /\ UNCHANGED <<pool, proc, loc, got, closing, sweep, crashes, cancels>>

HandshakeFails(t) ==
  /\ pc[t] = "handshake"
  /\ proc' = Terminated({loc[t].conn})
  /\ pc' = [pc EXCEPT ![t] = "failed"]
  /\ UNCHANGED <<pool, loc, got, closing, sweep, crashes, cancels>>

\* Once the handshake is done the connection is pooled; if its key has its
\* share of connections, once the oldest of them has been closed (at once if
\* its process has ended already).
Admit(t) ==
  LET k    == loc[t].key
      full == Len(conns[k]) >= MaxPerKey
      rest == IF full THEN Tail(conns[k]) ELSE conns[k]
  IN
  /\ pc[t] = "handshake"
  /\ IF full /\ Alive(Head(conns[k]))
     THEN /\ conns' = [conns EXCEPT ![k] = rest]
          /\ proc' = Terminated({Head(conns[k])})
          /\ pc' = [pc EXCEPT ![t] = "replace"]
          /\ UNCHANGED <<order, loc, got>>
     ELSE /\ conns' = [conns EXCEPT ![k] = Append(rest, loc[t].conn)]
          /\ order' = Touched(k)
          /\ StartCall(t, k, loc[t].conn)
  /\ UNCHANGED <<closing, sweep, crashes, cancels>>

\* The list that the task appends to may have been dropped from the pool.
Replace(t) ==
  LET k == loc[t].key IN
  /\ pc[t] = "replace"
  /\ conns' = IF loc[t].orphan THEN conns
              ELSE [conns EXCEPT ![k] = Append(@, loc[t].conn)]
  /\ order' = IF Contains(order, k) THEN Touched(k) ELSE order
  /\ StartCall(t, k, loc[t].conn)
  /\ UNCHANGED <<closing, sweep, crashes, cancels>>

Idle(t) ==
  /\ pc' = [pc EXCEPT ![t] = "idle"]
  /\ loc' = [loc EXCEPT ![t] = NoLocal]

\* The next line is read, whosever request it answers.
Answer(t) ==
  LET c == loc[t].conn IN
  /\ pc[t] = "call"
  /\ proc[c].owed # <<>>
  /\ got' = [got EXCEPT ![t] = Head(proc[c].owed)]
  /\ proc' = [proc EXCEPT ![c].owed = Tail(@)]
  /\ Idle(t)
  /\ UNCHANGED <<pool, closing, sweep, crashes, cancels>>

\* The requests of a caller that no longer waits.
Abandoned(owed, t) == [i \in 1..Len(owed) |-> IF owed[i] = t THEN Gone ELSE owed[i]]

\* Mutant: the connection stays in the pool after an error.
FailPooled(t) ==
  LET c == loc[t].conn IN
  /\ pc[t] = "call"
  /\ proc' = [proc EXCEPT ![c].owed = Abandoned(@, t)]
  /\ pc' = [pc EXCEPT ![t] = "failed"]
  /\ UNCHANGED <<pool, loc, got, closing, sweep, crashes, cancels>>

\* An error answer, a timeout, the end of the process: _remove_conn.
Fail(t) ==
  LET c == loc[t].conn IN
  /\ pc[t] = "call"
  /\ conns' = Without({c})
  /\ order' = Kept(Without({c}))
  /\ proc' = [Terminated({c}) EXCEPT ![c].owed = Abandoned(@, t)]
  /\ pc' = [pc EXCEPT ![t] = "failed"]
  /\ loc' = Orphaned(Emptied(Without({c})))
  /\ UNCHANGED <<got, closing, sweep, crashes, cancels>>

\* close() is over; the caller makes the call with a process of its own.
Fallback(t) ==
  /\ pc[t] = "failed"
  /\ Idle(t)
  /\ UNCHANGED <<pool, proc, got, closing, sweep, crashes, cancels>>

\* The request the task works for is cancelled (a client disconnects):
\* CancelledError is not an Exception, nothing is cleaned up but the lock.
Cancel(t) ==
  LET c == loc[t].conn IN
  /\ cancels < MaxCancels
  /\ pc[t] # "idle"
  /\ cancels' = cancels + 1
  /\ proc' = IF c = NoConn THEN proc
             ELSE [proc EXCEPT ![c].owed = Abandoned(@, t)]
  /\ Idle(t)
  /\ UNCHANGED <<pool, got, closing, sweep, crashes>>

-----------------------------------------------------------------------------
(* Processes, the cleanup task and time.                                   *)

\* The task that _evict_if_full created runs close().
Close(c) ==
  /\ c \in closing
  /\ closing' = closing \ {c}
  /\ proc' = Terminated({c})
  /\ UNCHANGED <<pool, pc, loc, got, sweep, crashes, cancels>>

\* A process ends; a call that waits for it can still read what it wrote.
Ends(c) ==
  \E n \in 0..Len(proc[c].owed) :
    proc' = [proc EXCEPT ![c] = [state |-> "dead", used |-> 0,
                                 owed |-> IF Locked(c) THEN SubSeq(@.owed, 1, n)
                                          ELSE <<>>]]

Die(c) ==
  /\ proc[c].state = "ending"
  /\ Ends(c)
  /\ UNCHANGED <<pool, pc, loc, got, closing, sweep, crashes, cancels>>

Crash(c) ==
  /\ crashes < MaxCrashes
  /\ proc[c].state = "up"
  /\ crashes' = crashes + 1
  /\ Ends(c)
  /\ UNCHANGED <<pool, pc, loc, got, closing, sweep, cancels>>

Expired == {c \in Pooled : ~ Alive(c) \/ proc[c].used > IdleTimeout}

\* _idle_cleanup_loop gives every key a new list ...
Sweep ==
  /\ sweep = <<>>
  /\ sweep' = Only(Flat, Expired)
  /\ conns' = Without(Expired)
  /\ order' = Kept(Without(Expired))
  /\ loc' = Orphaned({k \in Keys : conns[k] # <<>>})
  /\ UNCHANGED <<proc, pc, got, closing, crashes, cancels>>

\* ... then closes what it removed, one after the other.
SweepClose ==
  /\ sweep # <<>>
  /\ proc' = Terminated({Head(sweep)})
  /\ sweep' = Tail(sweep)
  /\ UNCHANGED <<pool, pc, loc, got, closing, crashes, cancels>>

\* Mutant: a call waits for its answer without a limit.
TickPatient ==
  /\ proc' = [c \in Conns |->
                IF Alive(c) /\ proc[c].used <= IdleTimeout
                THEN [proc[c] EXCEPT !.used = @ + 1] ELSE proc[c]]
  /\ loc' = [t \in Tasks |-> IF pc[t] = "call"
                             THEN [loc[t] EXCEPT !.waited = @ + 1] ELSE loc[t]]
  /\ UNCHANGED <<pool, pc, got, closing, sweep, crashes, cancels>>

\* Time passes; a call that has waited CallTimeout fails first.
Tick ==
  /\ \A t \in Tasks : pc[t] = "call" => loc[t].waited < CallTimeout
  /\ proc' = [c \in Conns |->
                IF Alive(c) /\ proc[c].used <= IdleTimeout
                THEN [proc[c] EXCEPT !.used = @ + 1] ELSE proc[c]]
  /\ loc' = [t \in Tasks |-> IF pc[t] = "call"
                             THEN [loc[t] EXCEPT !.waited = @ + 1] ELSE loc[t]]
  /\ UNCHANGED <<pool, pc, got, closing, sweep, crashes, cancels>>

Call(t) ==
  \/ \E k \in Keys : Reuse(t, k) \/ Create(t, k)
  \/ Spawn(t) \/ SpawnFails(t) \/ HandshakeFails(t) \/ Admit(t) \/ Replace(t)
  \/ Answer(t) \/ Fail(t) \/ Fallback(t) \/ Cancel(t)

Next ==
  \/ \E t \in Tasks : Call(t)
  \/ \E c \in Conns : Close(c) \/ Die(c) \/ Crash(c)
  \/ Sweep \/ SweepClose \/ Tick

Spec == Init /\ [][Next]_vars

-----------------------------------------------------------------------------
(* Properties.                                                             *)

TypeOK ==
  /\ order \in Seq(Keys)
  /\ conns \in [Keys -> Seq(Conns)]
  /\ proc \in [Conns -> Process]
  /\ pc \in [Tasks -> Labels]
  /\ loc \in [Tasks -> Local]
  /\ got \in [Tasks -> Tasks \cup {Nobody, Gone}]
  /\ closing \in SUBSET Conns
  /\ sweep \in Seq(Conns)
  /\ crashes \in 0..MaxCrashes /\ cancels \in 0..MaxCancels

\* call_tool returns the answer to the request it sent.  The code does not
\* compare the response id: it relies on a connection having no answer
\* outstanding when it is handed out.
OwnAnswer == \A t \in Tasks : got[t] \in {t, Nobody}

\* No two calls are on one connection: acquire hands out connections whose
\* lock is free, so that no call ever waits for another's lock.
OneCaller ==
  \A s, t \in Tasks : pc[s] = "call" /\ pc[t] = "call" /\ s # t
                        => loc[s].conn # loc[t].conn

\* The cleanup task never closes a connection a call is waiting on, although
\* it looks at the time the call started and not at the lock: a call times
\* out long before its connection counts as idle.
SweepSparesBusy == \A c \in ToSet(sweep) : Locked(c) => ~ Alive(c)

Creating == {t \in Tasks : pc[t] \in {"spawn", "handshake", "replace"}}

\* _MAX_POOL_SIZE is checked before a process is spawned, so callers that
\* spawn at once overshoot it; by less than one each.
PoolBound ==
  Cardinality(Pooled) + Cardinality(Creating) < MaxPool + Cardinality(Tasks)
=============================================================================
