------------------------------ MODULE VpcPrefix ------------------------------
(***************************************************************************)
(* VPC prefixes: the allocation of linknets from them by concurrent        *)
(* instance requests (crates/api-core/src/instance/mod.rs), which lock     *)
(* prefix rows in one canonical order, and their deletion by the API and   *)
(* the state handler of crates/vpc-prefix-controller.                      *)
(*                                                                         *)
(* A request is one database transaction.  It plans its work items without *)
(* locks, locks and re-reads one candidate row after the other, inserts    *)
(* the linknets and commits.  Which free linknet it takes is               *)
(* LinknetAllocator's matter; here it is any.  The drain period is not     *)
(* modelled: a deadline may have passed at any time.                       *)
(***************************************************************************)
EXTENDS Naturals, FiniteSets

CONSTANTS
  Prefix,       \* ids of VPC prefixes, numbers in the order of the ids
  GroupOf,      \* [Prefix -> Nat]: the VPC and family, IPv4 before IPv6
  Capacity,     \* [Prefix -> Nat]: how many linknets fit
  Request,      \* allocation requests
  NoRequest,
  Work,         \* their work items, numbers in caller order
  RequestOf,    \* [Work -> Request]
  WorkGroup,    \* [Work -> Nat]: the VPC and family the item asks for
  Wanted,       \* [Work -> Prefix \cup {Automatic}]: an explicit choice, or none
  PrimaryOf,    \* [Work -> Work]: the item that creates the segment
  Automatic,
  Attempts,     \* PREFIX_ALLOCATION_TOTAL_ATTEMPTS
  NoIndex,
  MaxDirect,    \* bound: networks of other writers that are stored at a time
  MaxDeleted    \* bound: prefixes that are deleted

Index == UNION {0 .. Capacity[p] - 1 : p \in Prefix}

ASSUME VpcPrefixAssumption ==
  /\ Prefix \subseteq Nat /\ IsFiniteSet(Prefix)
  /\ Work \subseteq Nat /\ IsFiniteSet(Work)
  /\ GroupOf \in [Prefix -> Nat]
  /\ Capacity \in [Prefix -> Nat]
  /\ RequestOf \in [Work -> Request]
  /\ WorkGroup \in [Work -> Nat]
  /\ Wanted \in [Work -> Prefix \cup {Automatic}]
  /\ PrimaryOf \in [Work -> Work]
  /\ NoRequest \notin Request
  /\ Automatic \notin Prefix
  /\ NoIndex \notin Nat
  /\ Attempts \in Nat \ {0}
  /\ MaxDirect \in Nat
  /\ MaxDeleted \in Nat

\* What planning validates: an explicit item asks for the group of its prefix,
\* and an IPv6 item is attached to the segment of an IPv4 item of its request.
ASSUME PlanAssumption ==
  \A w \in Work :
    /\ Wanted[w] # Automatic => GroupOf[Wanted[w]] = WorkGroup[w]
    /\ RequestOf[PrimaryOf[w]] = RequestOf[w]
    /\ PrimaryOf[w] # w => WorkGroup[PrimaryOf[w]] < WorkGroup[w]

VARIABLES
  ctl,        \* controller state of a prefix, "gone" after the delete
  deleted,    \* its deleted timestamp is set
  next,       \* the transition a handler run decided on
  linknets,   \* committed network_prefixes that refer to the prefix
  direct,     \* stored networks that occupy it without referring to it
  lock,       \* the request that holds the row FOR NO KEY UPDATE
  pc,         \* of a request
  todo,       \* candidates of a work item that it has not passed, frozen at planning
  done,       \* work items that have their linknet
  mine,       \* the uncommitted linknets of a request
  pick,       \* the item and index it is about to insert
  tries       \* attempts on the current candidate

prefixVars == <<ctl, deleted, next>>
requestVars == <<pc, todo, done, mine, pick, tries>>
vars == <<prefixVars, linknets, direct, lock, requestVars>>

Least(S) == CHOOSE x \in S : \A y \in S : x <= y
NoPick == <<NoIndex, NoIndex>>
Usable(p) == ctl[p] # "gone" /\ ~deleted[p]

(***************************************************************************)
(* Planning and the order of execution.                                    *)
(***************************************************************************)
WorkOf(r) == {w \in Work : RequestOf[w] = r}
Open(r) == WorkOf(r) \ done

\* The candidates of an item at discovery.
Candidates(w) ==
  IF Wanted[w] = Automatic THEN {p \in Prefix : GroupOf[p] = WorkGroup[w] /\ Usable(p)}
                           ELSE {Wanted[w]} \cap {p \in Prefix : Usable(p)}

\* load_prefix_allocation_context and plan_prefix_allocations.
Plan(r) ==
  /\ pc[r] = "new"
  /\ IF \A w \in WorkOf(r) : Candidates(w) # {}
     THEN /\ pc' = [pc EXCEPT ![r] = "running"]
          /\ todo' = [w \in Work |-> IF RequestOf[w] = r THEN Candidates(w) ELSE todo[w]]
     ELSE /\ pc' = [pc EXCEPT ![r] = "failed"]
          /\ UNCHANGED todo
  /\ UNCHANGED <<prefixVars, linknets, direct, lock, done, mine, pick, tries>>

\* Mutant: the families in the order IPv6, IPv4.
CurrentGroupIpv6First(r) ==
  LET groups == {WorkGroup[w] : w \in Open(r)} IN CHOOSE g \in groups : \A h \in groups : g >= h

\* Groups are executed in the order of the BTreeMap, ...
CurrentGroup(r) == Least({WorkGroup[w] : w \in Open(r)})

\* Mutant: the items in caller order.
CandidateInCallerOrder(r) ==
  LET w == Least({v \in Open(r) : WorkGroup[v] = CurrentGroup(r)}) IN Least(todo[w])

\* ... and within a group the lowest pending candidate comes next.
Candidate(r) ==
  Least({Least(todo[w]) : w \in {v \in Open(r) : WorkGroup[v] = CurrentGroup(r)}})

\* The items queued on it.
Queued(r) == {w \in Open(r) : WorkGroup[w] = CurrentGroup(r) /\ Least(todo[w]) = Candidate(r)}

(***************************************************************************)
(* Execution.                                                              *)
(***************************************************************************)
Locks(r) == {p \in Prefix : lock[p] = r}
Unlocked(r) == [p \in Prefix |-> IF lock[p] = r THEN NoRequest ELSE lock[p]]

Occupied(r, p) == linknets[p] \cup direct[p] \cup {k \in Index : <<p, k>> \in mine[r]}
FreeFor(r, p) == (0 .. Capacity[p] - 1) \ Occupied(r, p)

\* A request that fails rolls everything back.
RollBack(r) ==
  /\ pc' = [pc EXCEPT ![r] = "failed"]
  /\ lock' = Unlocked(r)
  /\ mine' = [mine EXCEPT ![r] = {}]
  /\ pick' = [pick EXCEPT ![r] = NoPick]
  /\ UNCHANGED <<prefixVars, linknets, direct, todo, done, tries>>

\* The next statement of the request waits for, or takes, the candidate's row.
Ready(r) == pc[r] = "running" /\ pick[r] = NoPick /\ Open(r) # {}
MayLock(r) == Ready(r) /\ lock[Candidate(r)] \in {NoRequest, r}

\* Mutant: the deletion is not looked for again under the lock.
TakeWithoutRecheck(r) ==
  /\ MayLock(r)
  /\ ctl[Candidate(r)] # "gone"
  /\ FreeFor(r, Candidate(r)) # {}
  /\ lock' = [lock EXCEPT ![Candidate(r)] = r]
  /\ \E w \in Queued(r), k \in FreeFor(r, Candidate(r)) :
       pick' = [pick EXCEPT ![r] = <<w, k>>]
  /\ UNCHANGED <<prefixVars, linknets, direct, pc, todo, done, mine, tries>>

\* lock_for_allocation finds the row active, and next_free_prefix a linknet.
Take(r) ==
  /\ MayLock(r)
  /\ Usable(Candidate(r))
  /\ FreeFor(r, Candidate(r)) # {}
  /\ lock' = [lock EXCEPT ![Candidate(r)] = r]
  /\ \E w \in Queued(r), k \in FreeFor(r, Candidate(r)) :
       pick' = [pick EXCEPT ![r] = <<w, k>>]
  /\ UNCHANGED <<prefixVars, linknets, direct, pc, todo, done, mine, tries>>

\* The candidate is deleted or exhausted.  The savepoint is rolled back, so only
\* a lock from an earlier success stays.  All items queued on the candidate go
\* to their next one (advance_prefix_work); the request fails if one of them
\* has none, or wants just this one.
Pass(r) ==
  /\ MayLock(r)
  /\ ~Usable(Candidate(r)) \/ FreeFor(r, Candidate(r)) = {}
  /\ LET c == Candidate(r)
     IN IF \E w \in Queued(r) : todo[w] = {c}
        THEN RollBack(r)
        ELSE /\ todo' = [w \in Work |-> IF w \in Queued(r) THEN todo[w] \ {c} ELSE todo[w]]
             /\ tries' = [tries EXCEPT ![r] = 0]
             /\ UNCHANGED <<prefixVars, linknets, direct, lock, pc, done, mine, pick>>

\* Mutant: the release of the savepoint gives the lock back.
InsertUnlocks(r) ==
  /\ pc[r] = "running"
  /\ pick[r] # NoPick
  /\ pick[r][2] \notin direct[Candidate(r)]
  /\ mine' = [mine EXCEPT ![r] = @ \cup {<<Candidate(r), pick[r][2]>>}]
  /\ done' = done \cup {pick[r][1]}
  /\ lock' = [lock EXCEPT ![Candidate(r)] = NoRequest]
  /\ pick' = [pick EXCEPT ![r] = NoPick]
  /\ tries' = [tries EXCEPT ![r] = 0]
  /\ UNCHANGED <<prefixVars, linknets, direct, pc, todo>>

\* The segment is created, or the linknet attached to it; the lock stays.
Insert(r) ==
  /\ pc[r] = "running"
  /\ pick[r] # NoPick
  /\ pick[r][2] \notin direct[Candidate(r)]
  /\ mine' = [mine EXCEPT ![r] = @ \cup {<<Candidate(r), pick[r][2]>>}]
  /\ done' = done \cup {pick[r][1]}
  /\ pick' = [pick EXCEPT ![r] = NoPick]
  /\ tries' = [tries EXCEPT ![r] = 0]
  /\ UNCHANGED <<prefixVars, linknets, direct, lock, pc, todo>>

\* Mutant: one attempt more than the constant says.
ConflictOneMore(r) ==
  /\ pc[r] = "running"
  /\ pick[r] # NoPick
  /\ pick[r][2] \in direct[Candidate(r)]
  /\ IF tries[r] = Attempts
     THEN RollBack(r)
     ELSE /\ tries' = [tries EXCEPT ![r] = @ + 1]
          /\ pick' = [pick EXCEPT ![r] = NoPick]
          /\ lock' = IF \E k \in Index : <<Candidate(r), k>> \in mine[r] THEN lock
                     ELSE [lock EXCEPT ![Candidate(r)] = NoRequest]
          /\ UNCHANGED <<prefixVars, linknets, direct, pc, todo, done, mine>>

\* Another writer was faster (network_prefixes_prefix_excl): the attempt is
\* rolled back to its savepoint and repeated once.
Conflict(r) ==
  /\ pc[r] = "running"
  /\ pick[r] # NoPick
  /\ pick[r][2] \in direct[Candidate(r)]
  /\ IF tries[r] + 1 = Attempts
     THEN RollBack(r)
     ELSE /\ tries' = [tries EXCEPT ![r] = @ + 1]
          /\ pick' = [pick EXCEPT ![r] = NoPick]
          /\ lock' = IF \E k \in Index : <<Candidate(r), k>> \in mine[r] THEN lock
                     ELSE [lock EXCEPT ![Candidate(r)] = NoRequest]
          /\ UNCHANGED <<prefixVars, linknets, direct, pc, todo, done, mine>>

Commit(r) ==
  /\ pc[r] = "running"
  /\ Open(r) = {}
  /\ pc' = [pc EXCEPT ![r] = "done"]
  /\ linknets' = [p \in Prefix |-> linknets[p] \cup {k \in Index : <<p, k>> \in mine[r]}]
  /\ mine' = [mine EXCEPT ![r] = {}]
  /\ lock' = Unlocked(r)
  /\ UNCHANGED <<prefixVars, direct, todo, done, pick, tries>>

\* The rest of the request fails, its caller goes away, the server crashes.
Abort(r) == pc[r] = "running" /\ RollBack(r)

(***************************************************************************)
(* Other writers, deletion, and the state handler.                         *)
(***************************************************************************)
\* A segment is removed (NetworkSegment), and its network with it.
FreeLinknet(p, k) ==
  /\ k \in linknets[p] \cup direct[p]
  /\ linknets' = [linknets EXCEPT ![p] = @ \ {k}]
  /\ direct' = [direct EXCEPT ![p] = @ \ {k}]
  /\ UNCHANGED <<prefixVars, lock, requestVars>>

\* A segment is created outside the locking protocol.
InsertDirect(p, k) ==
  /\ k \in 0 .. Capacity[p] - 1
  /\ k \notin linknets[p] \cup direct[p]
  /\ \A r \in Request : <<p, k>> \notin mine[r]
  /\ Cardinality({l \in Prefix \X Index : l[2] \in direct[l[1]]}) < MaxDirect
  /\ direct' = [direct EXCEPT ![p] = @ \cup {k}]
  /\ UNCHANGED <<prefixVars, linknets, lock, requestVars>>

\* Mutant: a deletion that does not wait for the row.
DeleteAtOnce(p) ==
  /\ Usable(p)
  /\ Cardinality({q \in Prefix : deleted[q]}) < MaxDeleted
  /\ deleted' = [deleted EXCEPT ![p] = TRUE]
  /\ UNCHANGED <<ctl, next, linknets, direct, lock, requestVars>>

\* DeleteVpcPrefix; the update waits for a request that holds the row.
Delete(p) ==
  /\ Usable(p)
  /\ Cardinality({q \in Prefix : deleted[q]}) < MaxDeleted
  /\ lock[p] = NoRequest
  /\ deleted' = [deleted EXCEPT ![p] = TRUE]
  /\ UNCHANGED <<ctl, next, linknets, direct, lock, requestVars>>

\* handle_object_state, up to the persisted transition.
Decide(p) ==
  /\ next[p] = "none"
  /\ \/ ctl[p] = "provisioning" /\ next' = [next EXCEPT ![p] = IF deleted[p] THEN "drain" ELSE "ready"]
     \/ ctl[p] = "ready" /\ deleted[p] /\ next' = [next EXCEPT ![p] = "drain"]
     \/ ctl[p] = "drain" /\ linknets[p] # {} /\ next' = [next EXCEPT ![p] = "drain"]
     \/ ctl[p] = "drain" /\ linknets[p] = {} /\ next' = [next EXCEPT ![p] = "dbdelete"]
  /\ UNCHANGED <<ctl, deleted, linknets, direct, lock, requestVars>>

\* The update of the row waits for its lock, too.
Transition(p) ==
  /\ next[p] # "none"
  /\ lock[p] = NoRequest
  /\ ctl' = [ctl EXCEPT ![p] = next[p]]
  /\ next' = [next EXCEPT ![p] = "none"]
  /\ UNCHANGED <<deleted, linknets, direct, lock, requestVars>>

\* final_delete; the foreign key of network_prefixes refuses it while a linknet
\* refers to the prefix.
FinalDelete(p) ==
  /\ ctl[p] = "dbdelete"
  /\ lock[p] = NoRequest
  /\ linknets[p] = {}
  /\ ctl' = [ctl EXCEPT ![p] = "gone"]
  /\ UNCHANGED <<deleted, next, linknets, direct, lock, requestVars>>

Init ==
  /\ ctl = [p \in Prefix |-> "provisioning"]
  /\ deleted = [p \in Prefix |-> FALSE]
  /\ next = [p \in Prefix |-> "none"]
  /\ linknets = [p \in Prefix |-> {}]
  /\ direct = [p \in Prefix |-> {}]
  /\ lock = [p \in Prefix |-> NoRequest]
  /\ pc = [r \in Request |-> "new"]
  /\ todo = [w \in Work |-> {}]
  /\ done = {}
  /\ mine = [r \in Request |-> {}]
  /\ pick = [r \in Request |-> NoPick]
  /\ tries = [r \in Request |-> 0]

Next ==
  \/ \E r \in Request : \/ Plan(r) \/ Take(r) \/ Pass(r) \/ Insert(r) \/ Conflict(r)
                        \/ Commit(r) \/ Abort(r)
  \/ \E p \in Prefix : Delete(p) \/ Decide(p) \/ Transition(p) \/ FinalDelete(p)
  \/ \E p \in Prefix, k \in Index : FreeLinknet(p, k) \/ InsertDirect(p, k)

Spec == Init /\ [][Next]_vars

(***************************************************************************)
(* Properties.                                                             *)
(***************************************************************************)
\* Rows, locks and requests hold what they may hold; a request tries one
\* candidate at most PREFIX_ALLOCATION_TOTAL_ATTEMPTS times.
TypeOK ==
  /\ ctl \in [Prefix -> {"provisioning", "ready", "drain", "dbdelete", "gone"}]
  /\ deleted \in [Prefix -> BOOLEAN]
  /\ next \in [Prefix -> {"none", "ready", "drain", "dbdelete"}]
  /\ linknets \in [Prefix -> SUBSET Index]
  /\ direct \in [Prefix -> SUBSET Index]
  /\ lock \in [Prefix -> Request \cup {NoRequest}]
  /\ pc \in [Request -> {"new", "running", "done", "failed"}]
  /\ todo \in [Work -> SUBSET Prefix]
  /\ done \subseteq Work
  /\ mine \in [Request -> SUBSET (Prefix \X Index)]
  /\ pick \in [Request -> (Work \X Index) \cup {NoPick}]
  /\ tries \in [Request -> 0 .. Attempts - 1]

\* r waits for a row that q holds.
WaitsFor(r, q) == Ready(r) /\ q # r /\ lock[Candidate(r)] = q

\* Requests never wait for each other in a circle: "candidate order is part of
\* the locking protocol".
NoWaitCycle ==
  \A S \in (SUBSET Request) \ {{}} : \E r \in S : \A q \in S : ~WaitsFor(r, q)

\* A linknet belongs to one segment: what a request holds uncommitted nobody
\* else holds, and it is not stored yet.
LinknetsAreDisjoint ==
  \A r \in Request : \A l \in mine[r] :
    /\ l[2] \notin linknets[l[1]] \cup direct[l[1]]
    /\ \A q \in Request \ {r} : l \notin mine[q]

\* An IPv6 linknet finds the segment that its IPv4 item created ("IPv6
\* allocation ran before its primary segment was created" is never returned).
AttachFindsSegment ==
  \A r \in Request : pick[r] # NoPick =>
    LET primary == PrimaryOf[pick[r][1]] IN primary = pick[r][1] \/ primary \in done

\* final_delete is never refused and strands no linknet: once the drain is
\* over, nothing refers to the prefix and no open request is about to.
DrainedPrefixIsUnused ==
  \A p \in Prefix : ctl[p] \in {"dbdelete", "gone"} =>
    linknets[p] = {} /\ \A r \in Request, k \in Index : <<p, k>> \notin mine[r]

\* A prefix marked as deleted gives out no linknet any more, although requests
\* plan without locks.
NoLinknetAfterDeletion ==
  [][\A p \in Prefix : deleted[p] => linknets'[p] \subseteq linknets[p]]_vars
=============================================================================
