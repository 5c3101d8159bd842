--------------------------- MODULE StateController ---------------------------
(***************************************************************************)
(* The state controller of crates/state-controller: several processors     *)
(* share one queue table in PostgreSQL, claim rows of it, run one handler  *)
(* task per claimed object, and persist the outcome under an optimistic    *)
(* version check.                                                          *)
(*                                                                         *)
(* One processor is one API server's StateProcessor for one object type.   *)
(* Every action below is one database transaction, or one step between two *)
(* await points of the processor's loop or of a handler task.              *)
(*                                                                         *)
(* Time is measured in abstract ticks.  The tokio timeout around a task,   *)
(* MaxHandling, is IterationConfig::max_object_handling_time, and a claim  *)
(* may be taken over once it is older than 3 * MaxHandling.                *)
(***************************************************************************)
EXTENDS Naturals, FiniteSets

CONSTANTS
  Processor,      \* the processor ids (host names) sharing the queue table
  Slot,           \* one processor's JoinSet places: max_concurrency of them
  Enqueuer,       \* PeriodicEnqueuer instances that may be active
  Object,         \* object ids of one type (ids are never reused)
  State,          \* controller states
  NoObject,       \* no object in this slot
  NoState,        \* the task reports no next_state
  InitialState,   \* the state every object is created in
  MaxVersion,     \* bound: transitions stop at this version number
  MaxHandling,    \* max_object_handling_time, in ticks
  StartLag,       \* longest delay from the claim's now() to the task's first poll
  Faults,         \* the kinds of fault that may happen, see FaultKind
  MaxFaults,      \* bound: how many of them, over a whole behaviour
  LongOutages     \* TRUE: a database outage may outlast a claim

FaultKind == {"acquire", "acquire_reply", "finalize", "finalize_reply",
              "commit_reply", "cancel", "crash"}

Worker == Processor \X Slot
Version == 1 .. MaxVersion
Event == Version \X State
\* Mutant: claims expire with the task's own timeout.
ClaimLimitOneTimeout == MaxHandling
ClaimLimit == 3 * MaxHandling
Expired == ClaimLimit + 1

ASSUME ConstantsAssumption ==
  /\ MaxVersion \in Nat \ {0}
  /\ MaxHandling \in Nat \ {0}
  /\ StartLag \in Nat
  /\ MaxFaults \in Nat
  /\ Faults \subseteq FaultKind
  /\ LongOutages \in BOOLEAN
  /\ InitialState \in State
  /\ NoState \notin State
  /\ NoObject \notin Object
  /\ "absent" \notin Processor
  /\ "unclaimed" \notin Processor

\* The claim expires only after the owner's task must have timed out: the 3x
\* factor of dequeue_and_dispatch leaves 2x for the task to be polled first.
ASSUME StartLagAssumption == StartLag <= 2 * MaxHandling

ASSUME FinitenessAssumption == IsFiniteSet(Object) /\ IsFiniteSet(Slot)

VARIABLES
  \* the object tables
  exists,     \* the object's row is there
  ver,        \* controller_state_version
  cstate,     \* controller_state
  hist,       \* rows of the state history table: version and state
  \* the queue table
  claim,      \* "absent": no row; "unclaimed": processed_by IS NULL; or processed_by
  age,        \* now() - processing_started_at of a claimed row, up to Expired
  older,      \* strict order of processing_started_at among the rows
  \* handler tasks
  tpc, tobj, tver, tnew, treq, tage,
  \* processors
  pc, completed, requeue,
  outage,     \* the processor's last database call of its loop failed
  \* periodic enqueuers: between listing the objects and queueing them
  listing, listed,
  \* state change events delivered to the hooks
  emitted,
  \* faults so far
  faults

objectVars == <<exists, ver, cstate, hist>>
queueVars == <<claim, age, older>>
taskVars == <<tpc, tobj, tver, tnew, treq, tage>>
procVars == <<pc, completed, requeue, outage>>
enqVars == <<listing, listed>>
vars == <<objectVars, queueVars, taskVars, procVars, enqVars, emitted, faults>>

TaskPC == {"free", "spawned", "started", "loaded", "committed", "done"}
ProcPC == {"dispatch", "wait", "finalize", "drain", "stopped"}

(***************************************************************************)
(* Helpers.                                                                *)
(***************************************************************************)
SlotsOf(p) == {p} \X Slot
Free(p) == {w \in SlotsOf(p) : tpc[w] = "free"}
Done(p) == {w \in SlotsOf(p) : tpc[w] = "done"}
\* The task is inside the timeout: it may still touch the database.
Active(w) == tpc[w] \in {"spawned", "started", "loaded", "committed"}

\* Mutant: a claim is never taken over.
ClaimableUnclaimed(o) == claim[o] = "unclaimed"

\* processed_by IS NULL OR processing_started_at + 3 * timeout < now()
Claimable(o) == \/ claim[o] = "unclaimed"
                \/ claim[o] \in Processor /\ age[o] > ClaimLimit

\* Objects p has finished but whose queue rows it has not deleted yet.
Unfinalized(p) == completed[p] \cup {tobj[w] : w \in Done(p)}

\* The order after the rows of S were stamped with now().
Stamped(S) == {e \in older : e[1] \notin S /\ e[2] \notin S}
                \cup {e \in Object \X Object :
                        e[1] \notin S /\ claim[e[1]] # "absent" /\ e[2] \in S}

Fault(kind) == /\ kind \in Faults
               /\ faults < MaxFaults
               /\ faults' = faults + 1

(***************************************************************************)
(* The queue table's SQL (controller/db.rs).                               *)
(***************************************************************************)
\* INSERT ... ON CONFLICT (object_id) DO NOTHING
QueueObjects(S) ==
  LET new == {o \in S : claim[o] = "absent"}
  IN /\ claim' = [o \in Object |-> IF o \in new THEN "unclaimed" ELSE claim[o]]
     /\ age' = [o \in Object |-> IF o \in new THEN 0 ELSE age[o]]
     /\ older' = Stamped(new)

\* Mutant: no ORDER BY processing_started_at.
AcquireSetsUnordered(p) ==
  LET ready == {o \in Object : Claimable(o)}
  IN {S \in SUBSET ready :
        /\ Cardinality(S) <= Cardinality(Free(p))
        /\ Cardinality(S) < Cardinality(Free(p)) => S = ready}

\* The oldest rows first, LIMIT the remaining capacity.
AcquireSets(p) ==
  LET ready == {o \in Object : Claimable(o)}
  IN {S \in SUBSET ready :
        /\ Cardinality(S) <= Cardinality(Free(p))
        /\ Cardinality(S) < Cardinality(Free(p)) => S = ready
        /\ \A a \in S, b \in ready \ S : <<b, a>> \notin older}

ClaimRows(p, S) ==
  /\ claim' = [o \in Object |-> IF o \in S THEN p ELSE claim[o]]
  /\ age' = [o \in Object |-> IF o \in S THEN 0 ELSE age[o]]
  /\ older' = Stamped(S)

\* Mutant: the delete has no processed_by condition.
OwnRowsOfAnyone(p, S) == {o \in S : claim[o] # "absent"}

\* finalize_completed_objects' transaction: delete this processor's rows of
\* the completed objects, then queue the ones to run again.
OwnRows(p, S) == {o \in S : claim[o] = p}
FinalizeRows(p) ==
  LET gone == OwnRows(p, completed[p])
      new == {o \in requeue[p] : o \in gone \/ claim[o] = "absent"}
  IN /\ claim' = [o \in Object |-> IF o \in new THEN "unclaimed"
                                   ELSE IF o \in gone THEN "absent" ELSE claim[o]]
     /\ age' = [o \in Object |-> IF o \in gone \cup new THEN 0 ELSE age[o]]
     /\ older' = {e \in Object \X Object :
                    \/ e \in older /\ e[1] \notin gone \cup new /\ e[2] \notin gone \cup new
                    \/ /\ e[1] \notin gone \cup new /\ claim[e[1]] # "absent"
                       /\ e[2] \in new}

(***************************************************************************)
(* The processor's loop (controller/processor.rs).                         *)
(***************************************************************************)
\* Spawns a task for every object of S, in free slots of p.
Dispatch(p, S) ==
  \E used \in SUBSET Free(p) : \E obj \in [used -> S] :
    /\ \A w, x \in used : obj[w] = obj[x] => w = x
    /\ \A o \in S : \E w \in used : obj[w] = o
    /\ tpc' = [w \in Worker |-> IF w \in used THEN "spawned" ELSE tpc[w]]
    /\ tobj' = [w \in Worker |-> IF w \in used THEN obj[w] ELSE tobj[w]]
    /\ UNCHANGED <<tver, tnew, treq, tage>>

\* dequeue_and_dispatch_object_handling_tasks, the database answering.
AcquireOk(p) ==
  /\ pc[p] = "dispatch"
  /\ \E S \in AcquireSets(p) : ClaimRows(p, S) /\ Dispatch(p, S)
  /\ pc' = [pc EXCEPT ![p] = "wait"]
  /\ outage' = [outage EXCEPT ![p] = FALSE]
  /\ UNCHANGED <<objectVars, completed, requeue, enqVars, emitted, faults>>

\* The iteration ends with an error before it waits or finalizes; the claim is
\* rolled back, or it is committed and the reply is lost: nothing is dispatched.
AcquireFails(p) ==
  /\ pc[p] = "dispatch"
  /\ Free(p) # {}
  /\ \/ Fault("acquire") /\ UNCHANGED queueVars
     \/ /\ Fault("acquire_reply")
        /\ \E S \in AcquireSets(p) : ClaimRows(p, S)
  /\ outage' = [outage EXCEPT ![p] = TRUE]
  /\ UNCHANGED <<objectVars, taskVars, pc, completed, requeue, enqVars, emitted>>

\* process_object_handling_task_result for every finished task.
JoinDone(p) ==
  LET done == Done(p)
  IN /\ completed' = [completed EXCEPT ![p] = @ \cup {tobj[w] : w \in done}]
     /\ requeue' = [requeue EXCEPT ![p] = @ \cup {tobj[w] : w \in {d \in done : treq[d]}}]
     /\ tpc' = [w \in Worker |-> IF w \in done THEN "free" ELSE tpc[w]]
     /\ tobj' = [w \in Worker |-> IF w \in done THEN NoObject ELSE tobj[w]]
     /\ treq' = [w \in Worker |-> IF w \in done THEN FALSE ELSE treq[w]]
     /\ UNCHANGED <<tver, tnew, tage>>

\* wait_and_process_object_handling_task_completions: all finished tasks, or
\* nothing after max_completion_wait_time, or nothing at once without tasks.
Wait(p) ==
  /\ pc[p] = "wait"
  /\ JoinDone(p)
  /\ pc' = [pc EXCEPT ![p] = "finalize"]
  /\ UNCHANGED <<objectVars, queueVars, outage, enqVars, emitted, faults>>

\* Mutant: the completed objects are not cleared after the commit.
FinalizeOkUncleared(p) ==
  /\ pc[p] \in {"finalize", "drain"}
  /\ pc[p] = "drain" => Free(p) = SlotsOf(p)
  /\ FinalizeRows(p)
  /\ pc' = [pc EXCEPT ![p] = IF @ = "drain" THEN "stopped" ELSE "dispatch"]
  /\ UNCHANGED <<objectVars, taskVars, completed, requeue, outage, enqVars, emitted, faults>>

\* Mutant: the drain does not wait for the tasks still running.
FinalizeOkEarlyDrain(p) ==
  /\ pc[p] \in {"finalize", "drain"}
  /\ FinalizeRows(p)
  /\ completed' = [completed EXCEPT ![p] = {}]
  /\ requeue' = [requeue EXCEPT ![p] = {}]
  /\ pc' = [pc EXCEPT ![p] = IF @ = "drain" THEN "stopped" ELSE "dispatch"]
  /\ UNCHANGED <<objectVars, taskVars, outage, enqVars, emitted, faults>>

\* Cleared only once the commit was acknowledged.
FinalizeOk(p) ==
  /\ pc[p] \in {"finalize", "drain"}
  /\ pc[p] = "drain" => Free(p) = SlotsOf(p)
  /\ FinalizeRows(p)
  /\ completed' = [completed EXCEPT ![p] = {}]
  /\ requeue' = [requeue EXCEPT ![p] = {}]
  /\ pc' = [pc EXCEPT ![p] = IF @ = "drain" THEN "stopped" ELSE "dispatch"]
  /\ UNCHANGED <<objectVars, taskVars, outage, enqVars, emitted, faults>>

\* An error of finalize only ends the iteration (or the drain): the sets are
\* kept, whether the transaction rolled back or its commit's reply was lost.
FinalizeFails(p) ==
  /\ pc[p] \in {"finalize", "drain"}
  /\ pc[p] = "drain" => Free(p) = SlotsOf(p)
  /\ completed[p] # {}
  /\ \/ Fault("finalize") /\ UNCHANGED queueVars
     \/ Fault("finalize_reply") /\ FinalizeRows(p)
  /\ IF pc[p] = "drain"
       THEN /\ pc' = [pc EXCEPT ![p] = "stopped"]
            /\ completed' = [completed EXCEPT ![p] = {}]
            /\ requeue' = [requeue EXCEPT ![p] = {}]
       ELSE /\ pc' = [pc EXCEPT ![p] = "dispatch"]
            /\ UNCHANGED <<completed, requeue>>
  /\ outage' = [outage EXCEPT ![p] = TRUE]
  /\ UNCHANGED <<objectVars, taskVars, enqVars, emitted>>

\* The cancel token is seen between two iterations.
Cancel(p) ==
  /\ pc[p] = "dispatch"
  /\ Fault("cancel")
  /\ pc' = [pc EXCEPT ![p] = "drain"]
  /\ UNCHANGED <<objectVars, queueVars, taskVars, completed, requeue, outage, enqVars,
                 emitted>>

DrainJoin(p) ==
  /\ pc[p] = "drain"
  /\ Done(p) # {}
  /\ JoinDone(p)
  /\ UNCHANGED <<objectVars, queueVars, pc, outage, enqVars, emitted, faults>>

\* The API server dies, or a panicking task takes the processor down with its
\* JoinSet.  What it had in memory is gone; its claims stay in the table.
Crash(p) ==
  /\ pc[p] # "stopped"
  /\ Fault("crash")
  /\ pc' = [pc EXCEPT ![p] = "stopped"]
  /\ completed' = [completed EXCEPT ![p] = {}]
  /\ requeue' = [requeue EXCEPT ![p] = {}]
  /\ tpc' = [w \in Worker |-> IF w[1] = p THEN "free" ELSE tpc[w]]
  /\ tobj' = [w \in Worker |-> IF w[1] = p THEN NoObject ELSE tobj[w]]
  /\ tver' = [w \in Worker |-> IF w[1] = p THEN 0 ELSE tver[w]]
  /\ tnew' = [w \in Worker |-> IF w[1] = p THEN NoState ELSE tnew[w]]
  /\ treq' = [w \in Worker |-> IF w[1] = p THEN FALSE ELSE treq[w]]
  /\ tage' = [w \in Worker |-> IF w[1] = p THEN 0 ELSE tage[w]]
  /\ UNCHANGED <<objectVars, queueVars, outage, enqVars, emitted>>

\* The processor id is the host name: a restarted server uses its old one.
Restart(p) ==
  /\ pc[p] = "stopped"
  /\ pc' = [pc EXCEPT ![p] = "dispatch"]
  /\ outage' = [outage EXCEPT ![p] = FALSE]
  /\ UNCHANGED <<objectVars, queueVars, taskVars, completed, requeue, enqVars,
                 emitted, faults>>

(***************************************************************************)
(* A handler task (process_object).                                        *)
(***************************************************************************)
\* The task ends: its result waits in the JoinSet until it is joined.
Finish(w, again) ==
  /\ tpc' = [tpc EXCEPT ![w] = "done"]
  /\ tver' = [tver EXCEPT ![w] = 0]
  /\ tnew' = [tnew EXCEPT ![w] = NoState]
  /\ treq' = [treq EXCEPT ![w] = again]
  /\ tage' = [tage EXCEPT ![w] = 0]
  /\ UNCHANGED tobj

\* First poll: tokio::time::timeout starts to count.
Start(w) ==
  /\ tpc[w] = "spawned"
  /\ tpc' = [tpc EXCEPT ![w] = "started"]
  /\ tage' = [tage EXCEPT ![w] = 0]
  /\ UNCHANGED <<objectVars, queueVars, tobj, tver, tnew, treq, procVars, enqVars,
                 emitted, faults>>

\* Mutant: an object that is gone is queued again.
LoadRequeuesMissing(w) ==
  /\ tpc[w] = "started"
  /\ \/ /\ exists[tobj[w]]
        /\ tpc' = [tpc EXCEPT ![w] = "loaded"]
        /\ tver' = [tver EXCEPT ![w] = ver[tobj[w]]]
        /\ UNCHANGED <<tobj, tnew, treq, tage>>
     \/ /\ ~exists[tobj[w]]
        /\ Finish(w, TRUE)
  /\ UNCHANGED <<objectVars, queueVars, procVars, enqVars, emitted, faults>>

\* The first transaction loads the object and its controller state and commits.
Load(w) ==
  /\ tpc[w] = "started"
  /\ \/ /\ exists[tobj[w]]
        /\ tpc' = [tpc EXCEPT ![w] = "loaded"]
        /\ tver' = [tver EXCEPT ![w] = ver[tobj[w]]]
        /\ UNCHANGED <<tobj, tnew, treq, tage>>
     \/ /\ ~exists[tobj[w]]                              \* MissingData
        /\ Finish(w, FALSE)
  /\ UNCHANGED <<objectVars, queueVars, procVars, enqVars, emitted, faults>>

\* Mutant: an event is emitted although there is no next state.
HandleNoTransitionEmits(w) ==
  /\ tpc[w] = "loaded"
  /\ emitted' = [emitted EXCEPT ![tobj[w]] = @ \cup {<<tver[w], tnew[w]>>}]
  /\ Finish(w, FALSE)
  /\ UNCHANGED <<objectVars, queueVars, procVars, enqVars, faults>>

\* Wait or DoNothing, or an error: of the handler, of the pending writes or of
\* the database.  Only the outcome column is written, which is not modelled.
HandleNoTransition(w) ==
  /\ tpc[w] = "loaded"
  /\ Finish(w, FALSE)
  /\ UNCHANGED <<objectVars, queueVars, procVars, enqVars, emitted, faults>>

\* Deleted: the handler's transaction removed the row, the processor commits it.
HandleDeleted(w) ==
  /\ tpc[w] = "loaded"
  /\ exists[tobj[w]]
  /\ exists' = [exists EXCEPT ![tobj[w]] = FALSE]
  /\ Finish(w, FALSE)
  /\ UNCHANGED <<ver, cstate, hist, queueVars, procVars, enqVars, emitted, faults>>

\* Mutant: UPDATE ... WHERE id, without the version.
VersionUnchecked(w) == exists[tobj[w]]

\* persist_controller_state: UPDATE ... WHERE id AND controller_state_version
VersionMatches(w) == exists[tobj[w]] /\ ver[tobj[w]] = tver[w]

\* Transition: the version check, the history row and the outcome commit together.
HandleTransition(w, s) ==
  /\ tpc[w] = "loaded"
  /\ tver[w] < MaxVersion
  /\ VersionMatches(w)
  /\ LET o == tobj[w]
         v == tver[w] + 1
     IN /\ ver' = [ver EXCEPT ![o] = v]
        /\ cstate' = [cstate EXCEPT ![o] = s]
        /\ hist' = [hist EXCEPT ![o] = @ \cup {<<v, s>>}]
  /\ tpc' = [tpc EXCEPT ![w] = "committed"]
  /\ tnew' = [tnew EXCEPT ![w] = s]
  /\ UNCHANGED <<exists, queueVars, tobj, tver, treq, tage, procVars, enqVars,
                 emitted, faults>>

\* Mutant: the transition is published although its version check lost.
HandleConflictPublishes(w) ==
  /\ tpc[w] = "loaded"
  /\ ~VersionMatches(w)
  /\ \E s \in State : tnew' = [tnew EXCEPT ![w] = s]
  /\ tpc' = [tpc EXCEPT ![w] = "committed"]
  /\ UNCHANGED <<objectVars, queueVars, tobj, tver, treq, tage, procVars, enqVars,
                 emitted, faults>>

\* The version check lost: nothing is published, but the object runs again.
HandleConflict(w) ==
  /\ tpc[w] = "loaded"
  /\ ~VersionMatches(w)
  /\ Finish(w, TRUE)
  /\ UNCHANGED <<objectVars, queueVars, procVars, enqVars, emitted, faults>>

\* The commit is acknowledged: next_state is set and the event is emitted.
Emit(w) ==
  /\ tpc[w] = "committed"
  /\ emitted' = [emitted EXCEPT ![tobj[w]] = @ \cup {<<tver[w] + 1, tnew[w]>>}]
  /\ Finish(w, TRUE)
  /\ UNCHANGED <<objectVars, queueVars, procVars, enqVars, faults>>

\* The commit happened but its reply is lost, or the timeout fires before it
\* arrives: the task ends with an error, without event and without requeue.
LoseCommitReply(w) ==
  /\ tpc[w] = "committed"
  /\ Fault("commit_reply")
  /\ Finish(w, FALSE)
  /\ UNCHANGED <<objectVars, queueVars, procVars, enqVars, emitted>>

\* Mutant: the timeout covers loading only, not the handler.
TimeoutOfLoadOnly(w) ==
  /\ tpc[w] = "started"
  /\ tage[w] = MaxHandling
  /\ Finish(w, FALSE)
  /\ UNCHANGED <<objectVars, queueVars, procVars, enqVars, emitted, faults>>

\* tokio::time::timeout drops the task's future at MaxHandling.
Timeout(w) ==
  /\ tpc[w] \in {"started", "loaded"}
  /\ tage[w] = MaxHandling
  /\ Finish(w, FALSE)
  /\ UNCHANGED <<objectVars, queueVars, procVars, enqVars, emitted, faults>>

(***************************************************************************)
(* Enqueueing, deletion outside the controller, and time.                  *)
(***************************************************************************)
\* PeriodicEnqueuer::enqueue_objects, first transaction: the live objects.
ListObjects(e) ==
  /\ ~listing[e]
  /\ listing' = [listing EXCEPT ![e] = TRUE]
  /\ listed' = [listed EXCEPT ![e] = {o \in Object : exists[o]}]
  /\ UNCHANGED <<objectVars, queueVars, taskVars, procVars, emitted, faults>>

\* Second transaction: queue what was listed.
QueueListed(e) ==
  /\ listing[e]
  /\ QueueObjects(listed[e])
  /\ listing' = [listing EXCEPT ![e] = FALSE]
  /\ listed' = [listed EXCEPT ![e] = {}]
  /\ UNCHANGED <<objectVars, taskVars, procVars, emitted, faults>>

\* Enqueuer::enqueue_object, called by the API handlers for an object that they
\* have just looked up.  The statement itself checks nothing: that the object is
\* gone by then is the case of QueueListed.
EnqueueObject(o) ==
  /\ exists[o]
  /\ claim[o] = "absent"
  /\ QueueObjects({o})
  /\ UNCHANGED <<objectVars, taskVars, procVars, enqVars, emitted, faults>>

\* An admin force-delete removes the row outside the controller.
ForceDelete(o) ==
  /\ exists[o]
  /\ exists' = [exists EXCEPT ![o] = FALSE]
  /\ UNCHANGED <<ver, cstate, hist, queueVars, taskVars, procVars, enqVars,
                 emitted, faults>>

\* What must happen before time may pass: an unpolled task gets its first poll,
\* a task's timeout fires, and a processor whose database calls succeed runs its
\* loop (seconds per iteration) well before its claims expire (minutes).
OnTime ==
  /\ \A w \in Worker : /\ tpc[w] = "spawned" => tage[w] < StartLag
                       /\ tpc[w] \in {"started", "loaded", "committed"}
                            => tage[w] < MaxHandling
  /\ \A p \in Processor : \A o \in Unfinalized(p) :
       claim[o] = p => age[o] < ClaimLimit \/ (LongOutages /\ outage[p])

Tick ==
  /\ OnTime
  /\ age' = [o \in Object |-> IF claim[o] \in Processor /\ age[o] < Expired
                              THEN age[o] + 1 ELSE age[o]]
  /\ tage' = [w \in Worker |-> IF Active(w) THEN tage[w] + 1 ELSE tage[w]]
  /\ UNCHANGED <<objectVars, claim, older, tpc, tobj, tver, tnew, treq, procVars,
                 enqVars, emitted, faults>>

(***************************************************************************)
(* The specification.                                                      *)
(***************************************************************************)
Init ==
  /\ exists = [o \in Object |-> TRUE]
  /\ ver = [o \in Object |-> 1]
  /\ cstate = [o \in Object |-> InitialState]
  /\ hist = [o \in Object |-> {}]
  /\ claim = [o \in Object |-> "absent"]
  /\ age = [o \in Object |-> 0]
  /\ older = {}
  /\ tpc = [w \in Worker |-> "free"]
  /\ tobj = [w \in Worker |-> NoObject]
  /\ tver = [w \in Worker |-> 0]
  /\ tnew = [w \in Worker |-> NoState]
  /\ treq = [w \in Worker |-> FALSE]
  /\ tage = [w \in Worker |-> 0]
  /\ pc = [p \in Processor |-> "dispatch"]
  /\ completed = [p \in Processor |-> {}]
  /\ requeue = [p \in Processor |-> {}]
  /\ outage = [p \in Processor |-> FALSE]
  /\ listing = [e \in Enqueuer |-> FALSE]
  /\ listed = [e \in Enqueuer |-> {}]
  /\ emitted = [o \in Object |-> {}]
  /\ faults = 0

ProcessorStep(p) ==
  \/ AcquireOk(p) \/ AcquireFails(p) \/ Wait(p) \/ FinalizeOk(p) \/ FinalizeFails(p)
  \/ Cancel(p) \/ DrainJoin(p) \/ Crash(p) \/ Restart(p)

TaskStep(w) ==
  \/ Start(w) \/ Load(w) \/ HandleNoTransition(w) \/ HandleDeleted(w)
  \/ (\E s \in State : HandleTransition(w, s))
  \/ HandleConflict(w) \/ Emit(w) \/ LoseCommitReply(w) \/ Timeout(w)

Next ==
  \/ \E p \in Processor : ProcessorStep(p)
  \/ \E w \in Worker : TaskStep(w)
  \/ \E e \in Enqueuer : ListObjects(e) \/ QueueListed(e)
  \/ \E o \in Object : EnqueueObject(o) \/ ForceDelete(o)
  \/ Tick

Spec == Init /\ [][Next]_vars

\* The tokio runtime polls every task and the loop, timers fire, the database
\* answers once its (finitely many) faults are over, servers are restarted and
\* time passes.  Nothing is assumed of a task's own database calls and handler:
\* they may hang until the timeout.
Fairness ==
  /\ \A p \in Processor :
       /\ WF_vars(AcquireOk(p)) /\ WF_vars(Wait(p)) /\ WF_vars(FinalizeOk(p))
       /\ WF_vars(DrainJoin(p)) /\ WF_vars(Restart(p))
  /\ \A w \in Worker :
       WF_vars(Start(w)) /\ WF_vars(Emit(w)) /\ WF_vars(Timeout(w))
  /\ \A e \in Enqueuer : WF_vars(ListObjects(e)) /\ WF_vars(QueueListed(e))
  /\ SF_vars(Tick)

FairSpec == Spec /\ Fairness

(***************************************************************************)
(* Properties.                                                             *)
(***************************************************************************)
\* Type invariant: the domain of every column, task field and local set.
TypeOK ==
  /\ exists \in [Object -> BOOLEAN]
  /\ ver \in [Object -> Version]
  /\ cstate \in [Object -> State]
  /\ hist \in [Object -> SUBSET Event]
  /\ claim \in [Object -> Processor \cup {"absent", "unclaimed"}]
  /\ age \in [Object -> 0 .. Expired]
  /\ older \subseteq Object \X Object
  /\ tpc \in [Worker -> TaskPC]
  /\ tobj \in [Worker -> Object \cup {NoObject}]
  /\ tver \in [Worker -> 0 .. MaxVersion]
  /\ tnew \in [Worker -> State \cup {NoState}]
  /\ treq \in [Worker -> BOOLEAN]
  /\ tage \in [Worker -> Nat]
  /\ pc \in [Processor -> ProcPC]
  /\ completed \in [Processor -> SUBSET Object]
  /\ requeue \in [Processor -> SUBSET Object]
  /\ outage \in [Processor -> BOOLEAN]
  /\ listing \in [Enqueuer -> BOOLEAN]
  /\ listed \in [Enqueuer -> SUBSET Object]
  /\ emitted \in [Object -> SUBSET Event]
  /\ faults \in 0 .. MaxFaults

\* However many tasks run for one object and whatever is lost, its history has
\* exactly one row for each version after the first up to the current one, and
\* the row of the current version holds the current state (process_object: the
\* version check and the history row are one transaction).
HistoryIsChain ==
  \A o \in Object :
    /\ \A e \in hist[o] : 2 <= e[1] /\ e[1] <= ver[o]
    /\ \A v \in 2 .. ver[o] : \E e \in hist[o] : e[1] = v
    /\ \A e, f \in hist[o] : e[1] = f[1] => e = f
    /\ \A e \in hist[o] : e[1] = ver[o] => e[2] = cstate[o]

\* The event the task will emit, when its commit is acknowledged.
Pending(w) == <<tver[w] + 1, tnew[w]>>

\* Hooks hear only of transitions the database holds, and of each at most once:
\* an event is a history row, and no task is about to emit one that was emitted
\* or that another task is about to emit (process_object: next_state is
\* published only after the commit, and not at all when the version check lost).
EventsAreCommitted ==
  /\ \A o \in Object : emitted[o] \subseteq hist[o]
  /\ \A w \in Worker : tpc[w] = "committed" =>
       Pending(w) \in hist[tobj[w]] \ emitted[tobj[w]]
  /\ \A w, x \in Worker :
       /\ tpc[w] = "committed" /\ tpc[x] = "committed"
       /\ tobj[w] = tobj[x] /\ tver[w] = tver[x]
       => w = x

\* At most one task is inside its timeout for one object, over all processors
\* ("only a single controller will decide the next step for a single object").
SingleDecider ==
  \A w, x \in Worker : Active(w) /\ Active(x) /\ tobj[w] = tobj[x] => w = x

\* The weaker claim, that no two processors do.
SingleController ==
  \A w, x \in Worker : Active(w) /\ Active(x) /\ tobj[w] = tobj[x] => w[1] = x[1]

\* The assertion of finalize_completed_objects: every object it finishes still
\* has a row that this processor owns, so the delete removes all of them.
FinalizeDeletesEveryRow ==
  \A p \in Processor :
    pc[p] = "finalize" => OwnRows(p, completed[p]) = completed[p]

\* A claim ends only because its owner finished the object or because it is
\* older than three task timeouts: no other processor's finalize and no enqueue
\* removes or resets it (delete_queued_objects' processed_by condition and
\* queue_objects' ON CONFLICT DO NOTHING).
ClaimsEndByOwnerOrExpiry ==
  [][\A o \in Object, p \in Processor :
       claim[o] = p /\ claim'[o] # p
         => age[o] > ClaimLimit \/ o \in completed[p]]_vars

\* A processor that was cancelled and drained leaves no claimed row behind
\* (drain: "waits for all work already claimed"), when its cancellation, the one
\* counted fault, was the only one so far.
DrainLeavesNoClaim ==
  [][\A p \in Processor :
       pc[p] = "drain" /\ pc'[p] = "stopped" /\ faults = 1 /\ faults' = 1
         => \A o \in Object : claim'[o] # p]_vars

\* For every object that stays in the table a handler task is started again and
\* again, whatever crashed and whichever reply was lost: a claim left behind
\* expires, a requeue that was forgotten is made up for by the enqueuer, and the
\* oldest row is taken first.
LiveObjectsKeepBeingHandled ==
  \A o \in Object :
    []<>(~exists[o] \/ \E w \in Worker : tpc[w] = "started" /\ tobj[w] = o)

\* Once an object is gone its queue row goes too, and no enqueuer that listed it
\* before brings it back for ever (process_object: MissingData ends the task).
GoneObjectsLeaveTheQueue ==
  \A o \in Object : ~exists[o] ~> [](claim[o] = "absent")

\* Draining ends although handlers may hang: the timeout bounds every task.
DrainEnds ==
  \A p \in Processor : pc[p] = "drain" ~> pc[p] = "stopped"

\* The controller implements the abstract history of its objects.
Current == [o \in Object |-> <<ver[o], cstate[o]>>]
History == INSTANCE ObjectHistory
             WITH live <- exists, current <- Current, log <- hist, published <- emitted

\* Whatever processors, queue and connections go through, the object tables and
\* the events move as ObjectHistory allows: one version at a time, logged in the
\* same transaction, announced at most once and only when logged.
ImplementsObjectHistory == History!HistorySpec
=============================================================================
