------------------------------ MODULE WorkLock -------------------------------
(***************************************************************************)
(* The work lock manager of crates/api-db/src/work_lock_manager.rs: leases *)
(* in the work_locks table that several API servers share.  Each server    *)
(* (instance) runs one manager loop that executes the commands of its      *)
(* callers one at a time and in the order they were sent.  A WorkLock keeps *)
(* its lease alive from a task of its own and releases it when dropped.    *)
(*                                                                         *)
(* A step is one message sent, one command taken from the queue, one SQL   *)
(* statement with its reply, or one tick of time.                          *)
(***************************************************************************)
EXTENDS Naturals, Sequences, FiniteSets

CONSTANTS
  Instance,    \* API servers
  Caller,      \* tasks that use a work lock, one call at a time
  Home,        \* [Caller -> Instance]: the server a caller runs in
  Key,         \* work keys
  KeyOf,       \* [Caller -> Key]: the work a caller does
  WorkerId,    \* the uuids of leases; one is drawn anew when nothing refers to it
  NoId, NoCaller, NoCommand,
  Buffer,      \* COMMAND_BUFFER_SIZE
  Interval,    \* KeepaliveConfig::interval, in ticks
  KeepaliveTimeout, \* KeepaliveConfig::timeout, in ticks
  Prompt,      \* instances whose manager and timers are never late
  Faults,      \* the kinds of fault that may happen, see FaultKind
  MaxFaults    \* bound: how many of them, over a whole behaviour

FaultKind == {"statement", "reply", "cancel", "crash"}

ASSUME WorkLockAssumption ==
  /\ Home \in [Caller -> Instance]
  /\ KeyOf \in [Caller -> Key]
  /\ NoId \notin WorkerId
  /\ NoCaller \notin Caller
  /\ Buffer \in Nat \ {0}
  /\ Interval \in Nat \ {0}
  /\ KeepaliveTimeout \in Nat
  /\ Prompt \subseteq Instance
  /\ Faults \subseteq FaultKind
  /\ MaxFaults \in Nat

\* A queued command.  id is NoId for an acquire; from is the caller a reply is
\* for, if any, and open says that it still waits for it.
Command == [op : {"acquire", "keepalive", "release"}, key : Key,
            id : WorkerId \cup {NoId}, from : Caller \cup {NoCaller}, open : BOOLEAN]

ASSUME NoCommandAssumption == NoCommand \notin Command

Expired == KeepaliveTimeout + 1

VARIABLES
  \* the work_locks table
  row,        \* worker_id by work_key, NoId without a row
  age,        \* now() - last_keepalive, up to Expired
  fence,      \* workers whose row an open transaction holds FOR KEY SHARE, by key
  \* managers
  queue,      \* the FIFO of commands
  cur,        \* the command being executed
  seen,       \* the expired row that an acquire's statement found at its now()
  \* callers
  cpc, cid,
  \* keepalive loops of the WorkLock objects, by worker id
  loop,       \* "none", "idle" in select!, "due" after the tick, "sent"
  stop,       \* the WorkLock was dropped
  owner,      \* the caller that created it
  ktime,      \* time since the timer last ticked, up to Interval
  faults

tableVars == <<row, age, fence>>
managerVars == <<queue, cur, seen>>
callerVars == <<cpc, cid>>
loopVars == <<loop, stop, owner, ktime>>
vars == <<tableVars, managerVars, callerVars, loopVars, faults>>

(***************************************************************************)
(* Helpers.                                                                *)
(***************************************************************************)
Fault(kind) == /\ kind \in Faults
               /\ faults < MaxFaults
               /\ faults' = faults + 1

Queued(i) == {queue[i][n] : n \in DOMAIN queue[i]}
InFlight == UNION {Queued(i) \cup ({cur[i]} \ {NoCommand}) : i \in Instance}

\* Acquisitions and keepalives wait for a command slot, releases never do.
HasSlot(i) ==
  Cardinality({n \in DOMAIN queue[i] : queue[i][n].op # "release"}) < Buffer

Send(i, c) == queue' = [queue EXCEPT ![i] = Append(@, c)]

\* gen_random_uuid() draws an id nobody has.
Unused(id) ==
  /\ \A k \in Key : row[k] # id
  /\ \A c \in Caller : cid[c] # id
  /\ \A i \in Instance : seen[i] # id
  /\ \A c \in InFlight : c.id # id
  /\ loop[id] = "none"

(***************************************************************************)
(* Callers and the WorkLock they hold.                                     *)
(***************************************************************************)
\* Mutant: the acquire overtakes what the caller sent before.
AskJumpsQueue(c) ==
  /\ cpc[c] = "idle"
  /\ HasSlot(Home[c])
  /\ queue' = [queue EXCEPT ![Home[c]] =
                 <<[op |-> "acquire", key |-> KeyOf[c], id |-> NoId,
                    from |-> c, open |-> TRUE]>> \o @]
  /\ cpc' = [cpc EXCEPT ![c] = "asking"]
  /\ UNCHANGED <<tableVars, cur, seen, cid, loopVars, faults>>

\* try_acquire_lock: without a free slot the call fails at once.
Ask(c) ==
  /\ cpc[c] = "idle"
  /\ HasSlot(Home[c])
  /\ Send(Home[c], [op |-> "acquire", key |-> KeyOf[c], id |-> NoId,
                    from |-> c, open |-> TRUE])
  /\ cpc' = [cpc EXCEPT ![c] = "asking"]
  /\ UNCHANGED <<tableVars, cur, seen, cid, loopVars, faults>>

\* Mutant: the timer is armed past its period and never ticks.
PollLateTimer(c) ==
  /\ cpc[c] = "granted"
  /\ cpc' = [cpc EXCEPT ![c] = "holding"]
  /\ loop' = [loop EXCEPT ![cid[c]] = "idle"]
  /\ stop' = [stop EXCEPT ![cid[c]] = FALSE]
  /\ owner' = [owner EXCEPT ![cid[c]] = c]
  /\ ktime' = [ktime EXCEPT ![cid[c]] = Interval + 1]
  /\ UNCHANGED <<tableVars, managerVars, cid, faults>>

\* The reply is polled: WorkLock::new spawns the keepalive loop, whose timer
\* ticks for the first time at once.
Poll(c) ==
  /\ cpc[c] = "granted"
  /\ cpc' = [cpc EXCEPT ![c] = "holding"]
  /\ loop' = [loop EXCEPT ![cid[c]] = "idle"]
  /\ stop' = [stop EXCEPT ![cid[c]] = FALSE]
  /\ owner' = [owner EXCEPT ![cid[c]] = c]
  /\ ktime' = [ktime EXCEPT ![cid[c]] = Interval]
  /\ UNCHANGED <<tableVars, managerVars, cid, faults>>

\* The future that awaits a reply is dropped (a timeout, a select, a shutdown).
Cancel(c) ==
  LET close(m) == IF m # NoCommand /\ m.from = c THEN [m EXCEPT !.open = FALSE] ELSE m
  IN /\ cpc[c] \in {"asking", "granted", "releasing"}
     /\ Fault("cancel")
     /\ cpc' = [cpc EXCEPT ![c] = "idle"]
     /\ cid' = [cid EXCEPT ![c] = NoId]
     /\ queue' = [i \in Instance |-> [n \in DOMAIN queue[i] |-> close(queue[i][n])]]
     /\ cur' = [i \in Instance |-> close(cur[i])]
     /\ UNCHANGED <<tableVars, seen, loopVars>>

\* Mutant: a release needs a command slot and is lost without one.
ReleaseNeedsSlot(c, wait) ==
  /\ cpc[c] = "holding"
  /\ IF HasSlot(Home[c])
       THEN Send(Home[c], [op |-> "release", key |-> KeyOf[c], id |-> cid[c],
                           from |-> c, open |-> wait])
       ELSE UNCHANGED queue
  /\ stop' = [stop EXCEPT ![cid[c]] = loop[cid[c]] # "none"]
  /\ cpc' = [cpc EXCEPT ![c] = IF wait /\ HasSlot(Home[c]) THEN "releasing" ELSE "idle"]
  /\ cid' = [cid EXCEPT ![c] = NoId]
  /\ UNCHANGED <<tableVars, cur, seen, loop, owner, ktime, faults>>

\* WorkLock::drop queues the release, and WorkLock::release also awaits it.
Release(c, wait) ==
  /\ cpc[c] = "holding"
  /\ Send(Home[c], [op |-> "release", key |-> KeyOf[c], id |-> cid[c],
                    from |-> c, open |-> wait])
  /\ stop' = [stop EXCEPT ![cid[c]] = loop[cid[c]] # "none"]
  /\ cpc' = [cpc EXCEPT ![c] = IF wait THEN "releasing" ELSE "idle"]
  /\ cid' = [cid EXCEPT ![c] = NoId]
  /\ UNCHANGED <<tableVars, cur, seen, loop, owner, ktime, faults>>

\* Mutant: the fence does not check that the row names this worker.
FenceUnchecked(c) ==
  /\ cpc[c] = "holding"
  /\ fence' = [fence EXCEPT ![KeyOf[c]] = @ \cup {cid[c]}]
  /\ UNCHANGED <<row, age, managerVars, callerVars, loopVars, faults>>

\* fence_transaction, when the row still names this worker.
FenceTransaction(c) ==
  /\ cpc[c] = "holding"
  /\ row[KeyOf[c]] = cid[c]
  /\ fence' = [fence EXCEPT ![KeyOf[c]] = @ \cup {cid[c]}]
  /\ UNCHANGED <<row, age, managerVars, callerVars, loopVars, faults>>

\* The fenced transaction commits or rolls back, or its connection is gone.
EndTransaction(k) ==
  /\ fence[k] # {}
  /\ fence' = [fence EXCEPT ![k] = {}]
  /\ UNCHANGED <<row, age, managerVars, callerVars, loopVars, faults>>

(***************************************************************************)
(* The keepalive loop.                                                     *)
(***************************************************************************)
\* select! is biased: the stop channel is looked at first.
KeepaliveTick(id) ==
  /\ loop[id] = "idle"
  /\ ~stop[id]
  /\ ktime[id] = Interval
  /\ loop' = [loop EXCEPT ![id] = "due"]
  /\ ktime' = [ktime EXCEPT ![id] = 0]
  /\ UNCHANGED <<tableVars, managerVars, callerVars, stop, owner, faults>>

\* The lock may have been dropped since.  Without a slot the loop tries again
\* at the next tick.
KeepaliveSend(id) ==
  LET i == Home[owner[id]]
  IN /\ loop[id] = "due"
     /\ \/ /\ HasSlot(i)
           /\ Send(i, [op |-> "keepalive", key |-> KeyOf[owner[id]], id |-> id,
                       from |-> NoCaller, open |-> TRUE])
           /\ loop' = [loop EXCEPT ![id] = "sent"]
        \/ /\ ~HasSlot(i)
           /\ loop' = [loop EXCEPT ![id] = "idle"]
           /\ UNCHANGED queue
     /\ UNCHANGED <<tableVars, cur, seen, callerVars, stop, owner, ktime, faults>>

\* The loops of ids end; nothing refers to their timers any more.
LoopsEnd(ids) ==
  /\ loop' = [id \in WorkerId |-> IF id \in ids THEN "none" ELSE loop[id]]
  /\ stop' = [id \in WorkerId |-> IF id \in ids THEN FALSE ELSE stop[id]]
  /\ owner' = [id \in WorkerId |-> IF id \in ids THEN NoCaller ELSE owner[id]]
  /\ ktime' = [id \in WorkerId |-> IF id \in ids THEN 0 ELSE ktime[id]]

LoopStops(id) ==
  /\ loop[id] = "idle"
  /\ stop[id]
  /\ LoopsEnd({id})
  /\ UNCHANGED <<tableVars, managerVars, callerVars, faults>>

(***************************************************************************)
(* The manager loop.                                                       *)
(***************************************************************************)
\* Takes the next command, which frees its slot, and starts its statement;
\* an acquire whose caller has gone is skipped.
TakeCommand(i) ==
  LET c == Head(queue[i])
      skip == c.op = "acquire" /\ ~c.open
      old == c.op = "acquire" /\ row[c.key] # NoId /\ age[c.key] > KeepaliveTimeout
  IN /\ cur[i] = NoCommand
     /\ queue[i] # <<>>
     /\ queue' = [queue EXCEPT ![i] = Tail(@)]
     /\ cur' = [cur EXCEPT ![i] = IF skip THEN NoCommand ELSE c]
     /\ seen' = [seen EXCEPT ![i] = IF ~skip /\ old THEN row[c.key] ELSE NoId]
     /\ UNCHANGED <<tableVars, callerVars, loopVars, faults>>

Executing(i, op) == cur[i] # NoCommand /\ cur[i].op = op

Finished(i) ==
  /\ cur' = [cur EXCEPT ![i] = NoCommand]
  /\ seen' = [seen EXCEPT ![i] = NoId]
  /\ UNCHANGED queue

\* The caller that awaits this command's reply gets an error, or a plain Ok.
Answered(i) ==
  /\ cpc' = [c \in Caller |-> IF cur[i].open /\ cur[i].from = c THEN "idle" ELSE cpc[c]]
  /\ UNCHANGED cid

\* Mutant: no unique index on worker_id, so a takeover does not wait.
RowIsAlwaysFree(k) == TRUE

\* A replacement changes the key column worker_id, and a deletion the row: both
\* wait for the transactions that hold it FOR KEY SHARE.
RowIsFree(k) == fence[k] = {}

\* Mutant: the lease expires when the timeout is reached, not when it is past.
MayTakeAtTimeout(i, k) ==
  row[k] = NoId \/ age[k] >= KeepaliveTimeout

\* Mutant: ON CONFLICT DO NOTHING.
MayTakeAbsent(i, k) == row[k] = NoId

\* INSERT ... ON CONFLICT DO UPDATE ... WHERE last_keepalive + timeout < now()
MayTake(i, k) ==
  \/ row[k] = NoId
  \/ row[k] = seen[i] /\ age[k] > KeepaliveTimeout

WriteRow(k, id) ==
  /\ row' = [row EXCEPT ![k] = id]
  /\ age' = [age EXCEPT ![k] = 0]
  /\ UNCHANGED fence

\* Mutant: the manager waits for the lock instead of answering that it is taken.
ServeAcquireWaits(i) ==
  LET k == cur[i].key
  IN /\ Executing(i, "acquire")
     /\ RowIsFree(k)
     /\ MayTake(i, k)
     /\ \E id \in WorkerId :
          /\ Unused(id)
          /\ WriteRow(k, id)
          /\ IF cur[i].open
               THEN /\ cpc' = [cpc EXCEPT ![cur[i].from] = "granted"]
                    /\ cid' = [cid EXCEPT ![cur[i].from] = id]
               ELSE UNCHANGED callerVars
     /\ Finished(i)
     /\ UNCHANGED <<loopVars, faults>>

\* try_acquire_lock in the manager.  The lease exists even when nobody waits
\* for the reply any more.
ServeAcquire(i) ==
  LET k == cur[i].key
  IN /\ Executing(i, "acquire")
     /\ RowIsFree(k)
     /\ \/ /\ MayTake(i, k)
           /\ \E id \in WorkerId :
                /\ Unused(id)
                /\ WriteRow(k, id)
                /\ IF cur[i].open
                     THEN /\ cpc' = [cpc EXCEPT ![cur[i].from] = "granted"]
                          /\ cid' = [cid EXCEPT ![cur[i].from] = id]
                     ELSE UNCHANGED callerVars
        \/ /\ ~MayTake(i, k)
           /\ Answered(i)
           /\ UNCHANGED tableVars
     /\ Finished(i)
     /\ UNCHANGED <<loopVars, faults>>

\* Mutant: DELETE ... WHERE work_key, whoever owns it.
DeleteRowOfAnyone(k, id) ==
  IF row[k] # NoId THEN RowIsFree(k) /\ WriteRow(k, NoId) ELSE UNCHANGED tableVars

\* DELETE ... WHERE work_key AND worker_id
DeleteRow(k, id) ==
  IF row[k] = id THEN RowIsFree(k) /\ WriteRow(k, NoId) ELSE UNCHANGED tableVars

ServeRelease(i) ==
  /\ Executing(i, "release")
  /\ DeleteRow(cur[i].key, cur[i].id)
  /\ Answered(i)
  /\ Finished(i)
  /\ UNCHANGED <<loopVars, faults>>

\* UPDATE ... SET last_keepalive = now() WHERE work_key AND worker_id, which a
\* FOR KEY SHARE lock does not hold up.
RefreshRow(k, id) ==
  /\ age' = IF row[k] = id THEN [age EXCEPT ![k] = 0] ELSE age
  /\ UNCHANGED <<row, fence>>

\* LockLost ends the loop; the owner is not told.
ServeKeepalive(i) ==
  LET id == cur[i].id
  IN /\ Executing(i, "keepalive")
     /\ RefreshRow(cur[i].key, id)
     /\ IF row[cur[i].key] = id
          THEN loop' = [loop EXCEPT ![id] = "idle"] /\ UNCHANGED <<stop, owner, ktime>>
          ELSE LoopsEnd({id})
     /\ Finished(i)
     /\ UNCHANGED <<callerVars, faults>>

\* A database error instead of an answer: the caller gets it, the loop retries.
ErrorReply(i) ==
  /\ Answered(i)
  /\ loop' = IF cur[i].op = "keepalive" THEN [loop EXCEPT ![cur[i].id] = "idle"] ELSE loop
  /\ Finished(i)
  /\ UNCHANGED <<stop, owner, ktime>>

\* The statement had no effect.
StatementFails(i) ==
  /\ cur[i] # NoCommand
  /\ Fault("statement")
  /\ ErrorReply(i)
  /\ UNCHANGED tableVars

\* The statement took effect but its reply was lost with the connection.
ReplyLost(i) ==
  LET k == cur[i].key
  IN /\ cur[i] # NoCommand
     /\ Fault("reply")
     /\ \/ /\ cur[i].op = "acquire"
           /\ RowIsFree(k) /\ MayTake(i, k)
           /\ \E id \in WorkerId : Unused(id) /\ WriteRow(k, id)
        \/ cur[i].op = "release" /\ DeleteRow(k, cur[i].id)
        \/ cur[i].op = "keepalive" /\ RefreshRow(k, cur[i].id)
     /\ ErrorReply(i)

\* The server dies and comes back empty.  Its leases stay in the table, and its
\* transactions stay open until the database notices (EndTransaction).
Crash(i) ==
  LET mine == {id \in WorkerId : owner[id] # NoCaller /\ Home[owner[id]] = i}
  IN /\ Fault("crash")
     /\ queue' = [queue EXCEPT ![i] = <<>>]
     /\ cur' = [cur EXCEPT ![i] = NoCommand]
     /\ seen' = [seen EXCEPT ![i] = NoId]
     /\ cpc' = [c \in Caller |-> IF Home[c] = i THEN "idle" ELSE cpc[c]]
     /\ cid' = [c \in Caller |-> IF Home[c] = i THEN NoId ELSE cid[c]]
     /\ LoopsEnd(mine)
     /\ UNCHANGED tableVars

(***************************************************************************)
(* Time.                                                                   *)
(***************************************************************************)
\* A prompt instance has nothing left to do when time passes: its manager has
\* executed every command, its grants were polled and no timer is late.
Quiet(i) ==
  /\ queue[i] = <<>>
  /\ cur[i] = NoCommand
  /\ \A c \in Caller : Home[c] = i => cpc[c] # "granted"
  /\ \A id \in WorkerId : owner[id] # NoCaller /\ Home[owner[id]] = i =>
       loop[id] = "idle" /\ (ktime[id] < Interval \/ stop[id])

Tick ==
  /\ \A i \in Prompt : Quiet(i)
  /\ age' = [k \in Key |-> IF row[k] # NoId /\ age[k] < Expired THEN age[k] + 1 ELSE age[k]]
  /\ ktime' = [id \in WorkerId |-> IF loop[id] # "none" /\ ktime[id] < Interval
                                   THEN ktime[id] + 1 ELSE ktime[id]]
  /\ UNCHANGED <<row, fence, managerVars, callerVars, loop, stop, owner, faults>>

(***************************************************************************)
(* The specification.                                                      *)
(***************************************************************************)
Init ==
  /\ row = [k \in Key |-> NoId]
  /\ age = [k \in Key |-> 0]
  /\ fence = [k \in Key |-> {}]
  /\ queue = [i \in Instance |-> <<>>]
  /\ cur = [i \in Instance |-> NoCommand]
  /\ seen = [i \in Instance |-> NoId]
  /\ cpc = [c \in Caller |-> "idle"]
  /\ cid = [c \in Caller |-> NoId]
  /\ loop = [id \in WorkerId |-> "none"]
  /\ stop = [id \in WorkerId |-> FALSE]
  /\ owner = [id \in WorkerId |-> NoCaller]
  /\ ktime = [id \in WorkerId |-> 0]
  /\ faults = 0

CallerStep(c) ==
  \/ Ask(c) \/ Poll(c) \/ Cancel(c) \/ FenceTransaction(c)
  \/ Release(c, TRUE) \/ Release(c, FALSE)

LoopStep(id) == KeepaliveTick(id) \/ KeepaliveSend(id) \/ LoopStops(id)

Serve(i) == ServeAcquire(i) \/ ServeRelease(i) \/ ServeKeepalive(i)

ManagerStep(i) ==
  TakeCommand(i) \/ Serve(i) \/ StatementFails(i) \/ ReplyLost(i) \/ Crash(i)

Next ==
  \/ \E c \in Caller : CallerStep(c)
  \/ \E id \in WorkerId : LoopStep(id)
  \/ \E i \in Instance : ManagerStep(i)
  \/ \E k \in Key : EndTransaction(k)
  \/ Tick

Spec == Init /\ [][Next]_vars

\* The runtime polls every task, time passes, and the periodic loops that use
\* work locks finish their work and come back for more.  The database answers
\* once its (finitely many) faults are over, ends transactions, and does not
\* pass over a statement that waits for a row again and again (strong fairness).
Fairness ==
  /\ \A i \in Instance : WF_vars(TakeCommand(i)) /\ SF_vars(Serve(i))
  /\ \A c \in Caller : /\ WF_vars(Ask(c)) /\ WF_vars(Poll(c))
                        /\ WF_vars(Release(c, TRUE) \/ Release(c, FALSE))
  /\ \A id \in WorkerId : WF_vars(LoopStep(id))
  /\ \A k \in Key : WF_vars(EndTransaction(k))
  /\ WF_vars(Tick)

FairSpec == Spec /\ Fairness

(***************************************************************************)
(* Properties.                                                             *)
(***************************************************************************)
\* Type invariant: the columns, the commands, the callers and their loops.
TypeOK ==
  /\ row \in [Key -> WorkerId \cup {NoId}]
  /\ age \in [Key -> 0 .. Expired]
  /\ fence \in [Key -> SUBSET WorkerId]
  /\ queue \in [Instance -> Seq(Command)]
  /\ cur \in [Instance -> Command \cup {NoCommand}]
  /\ seen \in [Instance -> WorkerId \cup {NoId}]
  /\ cpc \in [Caller -> {"idle", "asking", "granted", "holding", "releasing"}]
  /\ cid \in [Caller -> WorkerId \cup {NoId}]
  /\ loop \in [WorkerId -> {"none", "idle", "due", "sent"}]
  /\ stop \in [WorkerId -> BOOLEAN]
  /\ owner \in [WorkerId -> Caller \cup {NoCaller}]
  /\ ktime \in [WorkerId -> 0 .. Interval]
  /\ faults \in 0 .. MaxFaults

\* While a fenced transaction is open its worker's lease is the one in the
\* table, although the lease may have expired, its lock may have been dropped
\* and its server may have died: the writes of two workers never overlap
\* (fence_transaction's FOR KEY SHARE against takeover and deletion).
FencedWorkersKeepTheirRow ==
  \A k \in Key : fence[k] \subseteq {row[k]}

\* A worker that lost its lease cannot disturb its successor: a row changes
\* hands only by its own worker's release or after it expired, and only its own
\* worker's keepalive makes it younger (the worker_id conditions of
\* release_lock and keep_lock_alive, the expiry condition of try_acquire_lock).
StaleWorkersAreHarmless ==
  [][\A k \in Key : row[k] # NoId =>
       LET mine(op) == \E i \in Instance : Executing(i, op) /\ cur[i].id = row[k]
       IN /\ row'[k] # row[k] => age[k] > KeepaliveTimeout \/ mine("release")
          /\ row'[k] = row[k] /\ age'[k] < age[k] => mine("keepalive")]_vars

\* As long as nothing has failed, every lease in the table has a caller that
\* holds it or is about to, or its release is on the way: no sequence of drops,
\* late keepalives and takeovers leaves a lease behind (Drop, run_loop).
NoLeaseLeftBehind ==
  faults = 0 => \A k \in Key : row[k] # NoId =>
    \/ \E c \in Caller : cid[c] = row[k] /\ KeyOf[c] = k
    \/ \E c \in InFlight : c.op = "release" /\ c.id = row[k]

\* When a caller's acquire is executed, the releases of all its earlier locks
\* have been, also those it did not wait for or gave up on ("the next call to
\* try_acquire_lock is guaranteed to be processed after the lock is released").
ReleasesComeFirst ==
  \A i \in Instance : Executing(i, "acquire") /\ cur[i].open =>
    \A c \in Queued(i) : ~(c.op = "release" /\ c.from = cur[i].from)

\* A server that is never late and whose keepalives fail fewer times than the
\* timeout has intervals keeps the leases it holds, whatever the other servers do.
\* A keepalive loop that meets a full command queue waits for its next tick, which
\* is no fault: when callers share the server, its queue must have a free slot.
PromptHoldersKeepTheirLease ==
  (MaxFaults + 1) * Interval <= KeepaliveTimeout =>
    \A c \in Caller : cpc[c] = "holding" /\ Home[c] \in Prompt =>
      row[KeyOf[c]] = cid[c]

\* No lease stays in nobody's hands for ever: what a crash, a lost reply or a
\* vanished caller leaves behind expires and is taken over.
OrphansAreTakenOver ==
  \A k \in Key :
    []<>(row[k] = NoId \/ \E c \in Caller : cid[c] = row[k] /\ KeyOf[c] = k)

\* Every call returns: neither a full queue nor a fence that blocks a manager
\* leaves a caller waiting for ever.
CallsReturn ==
  \A c \in Caller : cpc[c] \in {"asking", "releasing"} ~>
    cpc[c] \notin {"asking", "releasing"}

\* The table and the fences behave as the abstract lease.
Leases == INSTANCE Lease WITH owner <- row, fenced <- fence

\* Managers, queues and keepalives implement Lease: one owner per key, which
\* keeps the key while it has a fenced transaction open.
ImplementsLease == Leases!LeaseSpec
=============================================================================
