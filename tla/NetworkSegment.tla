---------------------------- MODULE NetworkSegment ---------------------------
(***************************************************************************)
(* The life of network segments: the API handlers that create and delete   *)
(* them, the resource pools their VNI and VLAN id come from, the instance  *)
(* addresses and machine interfaces that use them, and the state handler   *)
(* of crates/network-segment-controller that drains and removes them.      *)
(*                                                                         *)
(* Every step of a database transaction that other transactions can tell   *)
(* apart is a step here.  Deadlines are kept as the time left.  A handler  *)
(* run is a load, a decision and a commit; two runs may be at work on one  *)
(* segment, as StateController shows.                                      *)
(***************************************************************************)
EXTENDS Naturals, FiniteSets

CONSTANTS
  Segment,      \* ids of segments; an id is not used again
  Instance,     \* instances, each with at most one allocation under way
  Generated,    \* the segments created from a VPC prefix ...
  Owner,        \* ... and [Generated -> Instance]: the instance they are for
  Host,         \* hosts that get a machine interface over DHCP
  Handler,      \* concurrent runs of the state handler
  Pool,         \* resource pools: vni and vlan_id
  Value,        \* the values of each pool
  NoSegment, NoValue,
  DrainPeriod,  \* network_segment_drain_time
  TxnLimit,     \* how long an allocation takes after it has read the segment
  MaxAttach     \* bound: interfaces created over a whole behaviour

ASSUME NetworkSegmentAssumption ==
  /\ Generated \subseteq Segment
  /\ Owner \in [Generated -> Instance]
  /\ NoSegment \notin Segment
  /\ NoValue \notin Value
  /\ DrainPeriod \in Nat
  /\ TxnLimit \in Nat
  /\ MaxAttach \in Nat

\* The drain time is to be "long enough that ensures no pending RPC calls
\* might still use the network segment".
ASSUME DrainAssumption == TxnLimit < DrainPeriod

VARIABLES
  row,       \* controller state; "none" before the insert, "gone" after the delete
  deleted,   \* the deleted timestamp is set
  left,      \* time until delete_at
  used,      \* the pool values of a segment
  free,      \* the free values of a pool
  addr,      \* instance_addresses: the instances with an address, by segment
  iface,     \* machine_interfaces: the hosts with an interface, by segment
  pending,   \* the segment that an allocation validated, if one is under way
  ttl,       \* the time it still has
  run,       \* handler runs
  attached

segmentVars == <<row, deleted, left>>
poolVars == <<used, free>>
claimVars == <<addr, iface, attached>>
allocVars == <<pending, ttl>>
vars == <<segmentVars, poolVars, claimVars, allocVars, run>>

State == {"provisioning", "ready", "drain", "dbdelete"}
Live(s) == row[s] \in State
Time == 0 .. DrainPeriod

\* A handler run: the snapshot it loaded, whether the controller state still
\* has the version of the snapshot (versions never repeat, so the compare and
\* set succeeds exactly then), and the state it decided on, if any.
Run == [seg : Segment \cup {NoSegment}, state : State, deleted : BOOLEAN, left : Time,
        current : BOOLEAN, next : State \cup {"wait", "undecided"}, until : Time]
NoRun == [seg |-> NoSegment, state |-> "ready", deleted |-> FALSE, left |-> 0,
          current |-> FALSE, next |-> "undecided", until |-> 0]

\* segment_has_allocations
HasAllocations(s) == addr[s] # {} \/ iface[s] # {}

(***************************************************************************)
(* API: creation and deletion of segments.                                 *)
(***************************************************************************)
\* CreateNetworkSegment and the initial networks.  An underlay segment gets no
\* values; any other takes one free value of every pool or fails.
Create(s, state, vals) ==
  /\ s \notin Generated
  /\ row[s] = "none"
  /\ \/ \A p \in Pool : vals[p] = NoValue
     \/ \A p \in Pool : vals[p] \in free[p]
  /\ row' = [row EXCEPT ![s] = state]
  /\ used' = [used EXCEPT ![s] = vals]
  /\ free' = [p \in Pool |-> free[p] \ {vals[p]}]
  /\ UNCHANGED <<deleted, left, claimVars, allocVars, run>>

\* Allocation from a VPC prefix: the segment is born Ready, in the transaction
\* that gives the instance its address.
CreateGenerated(s) ==
  /\ s \in Generated
  /\ row[s] = "none"
  /\ row' = [row EXCEPT ![s] = "ready"]
  /\ addr' = [addr EXCEPT ![s] = {Owner[s]}]
  /\ UNCHANGED <<deleted, left, poolVars, iface, attached, allocVars, run>>

\* DeleteNetworkSegment.
Delete(s) ==
  /\ Live(s)
  /\ ~HasAllocations(s)
  /\ deleted' = [deleted EXCEPT ![s] = TRUE]
  /\ UNCHANGED <<row, left, poolVars, claimVars, allocVars, run>>

\* The instance leaves its generated segment: its addresses are deleted and the
\* segment is marked without a look at who else uses it.
ReleaseGenerated(s) ==
  /\ s \in Generated
  /\ Live(s)
  /\ Owner[s] \in addr[s]
  /\ addr' = [addr EXCEPT ![s] = @ \ {Owner[s]}]
  /\ deleted' = [deleted EXCEPT ![s] = TRUE]
  /\ UNCHANGED <<row, left, poolVars, iface, attached, allocVars, run>>

(***************************************************************************)
(* Claims on a segment.                                                    *)
(***************************************************************************)
\* instance_address::allocate reads and validates the segment ...
Validate(i, s) ==
  /\ pending[i] = NoSegment
  /\ i \notin addr[s]
  /\ row[s] = "ready"
  /\ ~deleted[s]
  /\ pending' = [pending EXCEPT ![i] = s]
  /\ ttl' = [ttl EXCEPT ![i] = TxnLimit]
  /\ UNCHANGED <<segmentVars, poolVars, claimVars, run>>

\* ... and inserts the address later, under a table lock but with no lock on
\* the segment and no foreign key to it.
Insert(i) ==
  /\ pending[i] # NoSegment
  /\ addr' = [addr EXCEPT ![pending[i]] = @ \cup {i}]
  /\ pending' = [pending EXCEPT ![i] = NoSegment]
  /\ UNCHANGED <<segmentVars, poolVars, iface, attached, ttl, run>>

\* The transaction is rolled back.
Abort(i) ==
  /\ pending[i] # NoSegment
  /\ pending' = [pending EXCEPT ![i] = NoSegment]
  /\ UNCHANGED <<segmentVars, poolVars, claimVars, ttl, run>>

\* The instance is deleted or gets another network config.
Release(i, s) ==
  /\ i \in addr[s]
  /\ s \in Generated => i # Owner[s]
  /\ addr' = [addr EXCEPT ![s] = @ \ {i}]
  /\ UNCHANGED <<segmentVars, poolVars, iface, attached, allocVars, run>>

\* A DHCP request creates an interface on the segment of its relay.  Nothing
\* looks at the deleted flag; the foreign key needs the row.
Attach(m, s) ==
  /\ Live(s)
  /\ m \notin iface[s]
  /\ attached < MaxAttach
  /\ attached' = attached + 1
  /\ iface' = [iface EXCEPT ![s] = @ \cup {m}]
  /\ UNCHANGED <<segmentVars, poolVars, addr, allocVars, run>>

Detach(m, s) ==
  /\ m \in iface[s]
  /\ iface' = [iface EXCEPT ![s] = @ \ {m}]
  /\ UNCHANGED <<segmentVars, poolVars, addr, attached, allocVars, run>>

(***************************************************************************)
(* The state handler.                                                      *)
(***************************************************************************)
\* process_object loads the segment and ends the transaction.
Load(h, s) ==
  /\ run[h].seg = NoSegment
  /\ Live(s)
  /\ run' = [run EXCEPT ![h] =
               [seg |-> s, state |-> row[s], deleted |-> deleted[s], left |-> left[s],
                current |-> TRUE, next |-> "undecided", until |-> 0]]
  /\ UNCHANGED <<segmentVars, poolVars, claimVars, allocVars>>

\* Mutant: the drain ends at its deadline whoever still uses the segment.
DecisionAtDeadline(r) ==
  CASE r.state = "provisioning" -> "ready"
    [] r.state = "ready" /\ r.deleted -> "drain"
    [] r.state = "drain" /\ r.left = 0 -> "dbdelete"
    [] OTHER -> "wait"

\* Mutant: the deadline moves with every look at the segment.
DecisionRearms(r) ==
  CASE r.state = "provisioning" -> "ready"
    [] r.state = "ready" /\ r.deleted -> "drain"
    [] r.state = "drain" -> "drain"
    [] OTHER -> "wait"

\* handle_object_state, except for DBDelete.
Decision(r) ==
  CASE r.state = "provisioning" -> "ready"
    [] r.state = "ready" /\ r.deleted -> "drain"
    [] r.state = "drain" /\ HasAllocations(r.seg) -> "drain"
    [] r.state = "drain" /\ ~HasAllocations(r.seg) /\ r.left = 0 -> "dbdelete"
    [] OTHER -> "wait"

\* Mutant: the deadline is moved from where it was.
DecideFromDeadline(h) ==
  /\ run[h].seg # NoSegment
  /\ run[h].state # "dbdelete"
  /\ run[h].next = "undecided"
  /\ LET next == Decision(run[h])
     IN run' = [run EXCEPT ![h].next = next,
                           ![h].until = IF next = "drain" THEN run[h].left + DrainPeriod ELSE 0]
  /\ UNCHANGED <<segmentVars, poolVars, claimVars, allocVars>>

\* The handler runs; a new deadline counts from now, not from the commit.
Decide(h) ==
  /\ run[h].seg # NoSegment
  /\ run[h].state # "dbdelete"
  /\ run[h].next = "undecided"
  /\ LET next == Decision(run[h])
     IN run' = [run EXCEPT ![h].next = next,
                           ![h].until = IF next = "drain" THEN DrainPeriod ELSE 0]
  /\ UNCHANGED <<segmentVars, poolVars, claimVars, allocVars>>

\* What a transition of segment s leaves of the runs.
Outdated(s) == [g \in Handler |-> IF run[g].seg = s
                                  THEN [run[g] EXCEPT !.current = FALSE] ELSE run[g]]

\* A transition is persisted if the version did not change.
Commit(h) ==
  /\ run[h].next \in State
  /\ run[h].current
  /\ Live(run[h].seg)
  /\ row' = [row EXCEPT ![run[h].seg] = run[h].next]
  /\ left' = [left EXCEPT ![run[h].seg] = run[h].until]
  /\ run' = [Outdated(run[h].seg) EXCEPT ![h] = NoRun]
  /\ UNCHANGED <<deleted, poolVars, claimVars, allocVars>>

\* The run ends and changes nothing: it waits, it lost the version check, or it
\* failed, was timed out or crashed.
Finish(h) ==
  /\ run[h].seg # NoSegment
  /\ run' = [run EXCEPT ![h] = NoRun]
  /\ UNCHANGED <<segmentVars, poolVars, claimVars, allocVars>>

\* Mutant: final_delete does not mind that the row is gone.
RemoveTwice(h) ==
  LET s == run[h].seg
  IN /\ s # NoSegment
     /\ run[h].state = "dbdelete"
     /\ iface[s] = {}
     /\ row' = [row EXCEPT ![s] = "gone"]
     /\ free' = [p \in Pool |-> free[p] \cup ({used[s][p]} \ {NoValue})]
     /\ run' = [run EXCEPT ![h] = NoRun]
     /\ UNCHANGED <<deleted, left, used, claimVars, allocVars>>

\* DBDelete: the values go back to the pools and final_delete removes the row,
\* in one transaction that fails if the row is gone (fetch_one) or if an
\* interface refers to it (foreign key).  It looks at no version.
Remove(h) ==
  LET s == run[h].seg
  IN /\ s # NoSegment
     /\ run[h].state = "dbdelete"
     /\ Live(s)
     /\ iface[s] = {}
     /\ row' = [row EXCEPT ![s] = "gone"]
     /\ free' = [p \in Pool |-> free[p] \cup ({used[s][p]} \ {NoValue})]
     /\ run' = [run EXCEPT ![h] = NoRun]
     /\ UNCHANGED <<deleted, left, used, claimVars, allocVars>>

(***************************************************************************)
(* Time, and the specification.                                            *)
(***************************************************************************)
Sooner(t) == IF t = 0 THEN 0 ELSE t - 1

Tick ==
  /\ \A i \in Instance : pending[i] # NoSegment => ttl[i] > 0
  /\ left' = [s \in Segment |-> Sooner(left[s])]
  /\ ttl' = [i \in Instance |-> Sooner(ttl[i])]
  /\ run' = [h \in Handler |-> [run[h] EXCEPT !.left = Sooner(@), !.until = Sooner(@)]]
  /\ UNCHANGED <<row, deleted, poolVars, claimVars, pending>>

Init ==
  /\ row = [s \in Segment |-> "none"]
  /\ deleted = [s \in Segment |-> FALSE]
  /\ left = [s \in Segment |-> 0]
  /\ used = [s \in Segment |-> [p \in Pool |-> NoValue]]
  /\ free = [p \in Pool |-> Value]
  /\ addr = [s \in Segment |-> {}]
  /\ iface = [s \in Segment |-> {}]
  /\ attached = 0
  /\ pending = [i \in Instance |-> NoSegment]
  /\ ttl = [i \in Instance |-> 0]
  /\ run = [h \in Handler |-> NoRun]

Step ==
  \/ \E s \in Segment, state \in {"provisioning", "ready"} :
       \E vals \in [Pool -> Value \cup {NoValue}] : Create(s, state, vals)
  \/ \E s \in Segment : Delete(s) \/ CreateGenerated(s) \/ ReleaseGenerated(s)
  \/ \E i \in Instance, s \in Segment : Validate(i, s) \/ Release(i, s)
  \/ \E i \in Instance : Insert(i) \/ Abort(i)
  \/ \E m \in Host, s \in Segment : Attach(m, s) \/ Detach(m, s)
  \/ \E h \in Handler, s \in Segment : Load(h, s)
  \/ \E h \in Handler : Decide(h) \/ Commit(h) \/ Finish(h) \/ Remove(h)

Next == Step \/ Tick

Spec == Init /\ [][Next]_vars

\* Every object is handled again and again (StateController), a run that gets
\* its chance again and again ends once without a fault, time passes, and
\* tenants and hosts give up what they hold.
Fairness ==
  /\ \A s \in Segment : SF_vars(\E h \in Handler : Load(h, s))
  /\ \A h \in Handler, s \in Segment :
       /\ SF_vars(run[h].seg = s /\ Decide(h))
       /\ SF_vars(run[h].seg = s /\ Commit(h))
       /\ SF_vars(run[h].seg = s /\ Remove(h))
  /\ \A h \in Handler : WF_vars(Finish(h))
  /\ \A i \in Instance, s \in Segment : WF_vars(Release(i, s))
  /\ \A i \in Instance : WF_vars(Insert(i) \/ Abort(i))
  /\ \A m \in Host, s \in Segment : WF_vars(Detach(m, s))
  /\ SF_vars(Tick)

LiveSpec == Spec /\ Fairness

(***************************************************************************)
(* Properties.                                                             *)
(***************************************************************************)
\* Rows, pools, claims and runs hold what their columns may hold; a deadline
\* is never further away than the drain time, however often it is set anew.
TypeOK ==
  /\ row \in [Segment -> State \cup {"none", "gone"}]
  /\ deleted \in [Segment -> BOOLEAN]
  /\ left \in [Segment -> Time]
  /\ used \in [Segment -> [Pool -> Value \cup {NoValue}]]
  /\ free \in [Pool -> SUBSET Value]
  /\ addr \in [Segment -> SUBSET Instance]
  /\ iface \in [Segment -> SUBSET Host]
  /\ attached \in 0 .. MaxAttach
  /\ pending \in [Instance -> Segment \cup {NoSegment}]
  /\ ttl \in [Instance -> 0 .. TxnLimit]
  /\ run \in [Handler -> Run]

\* An instance never has an address on a segment that was removed, although
\* the insert checks nothing: whatever was validated before the deletion has
\* ended when the drain ends, and whatever it inserted holds the drain up.
NoAddressOnRemovedSegment ==
  \A s \in Segment : row[s] = "gone" =>
    addr[s] = {} /\ \A i \in Instance : pending[i] # s

\* The pools and the segments agree: a value is taken exactly when a segment
\* that exists has it, and no two of them have the same, even when two runs
\* remove one segment (the release is not guarded by an owner).
PoolsMatchSegments ==
  \A p \in Pool, v \in Value :
    LET holders == {s \in Segment : Live(s) /\ used[s][p] = v}
    IN IF v \in free[p] THEN holders = {} ELSE Cardinality(holders) = 1

\* A segment marked as deleted is removed in the end: no claim, lost version
\* check or failed run holds it up for ever.
DeletedSegmentsGo == \A s \in Segment : deleted[s] ~> (row[s] = "gone")
=============================================================================
