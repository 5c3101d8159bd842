------------------------ MODULE NetworkSegmentProofs -------------------------
(***************************************************************************)
(* Proofs about NetworkSegment, for any number of segments, instances,     *)
(* hosts, handler runs, pools and values.                                  *)
(***************************************************************************)
EXTENDS NetworkSegment, FiniteSetTheorems, TLAPS

(***************************************************************************)
(* Types.                                                                  *)
(***************************************************************************)
LEMMA InitType == Init => TypeOK
  BY NetworkSegmentAssumption
  DEF Init, TypeOK, State, Time, Run, NoRun

LEMMA SoonerType ==
  ASSUME NEW n \in Nat, NEW t \in 0 .. n
  PROVE  Sooner(t) \in 0 .. n
  BY DEF Sooner

\* A run's fields keep their types when the fields of the decision or of time
\* are replaced.
LEMMA RunFields ==
  ASSUME NEW r \in Run
  PROVE  /\ \A c \in BOOLEAN : [r EXCEPT !.current = c] \in Run
         /\ \A n \in State \cup {"wait", "undecided"}, u \in Time :
              [r EXCEPT !.next = n, !.until = u] \in Run
         /\ \A l, u \in Time : [r EXCEPT !.left = l, !.until = u] \in Run
  BY DEF Run

LEMMA NoRunType == NoRun \in Run
  BY NetworkSegmentAssumption DEF NoRun, Run, State, Time

LEMMA DecisionType ==
  ASSUME NEW r
  PROVE  Decision(r) \in State \cup {"wait", "undecided"}
  BY DEF Decision, State

LEMMA OutdatedType ==
  ASSUME run \in [Handler -> Run], NEW s
  PROVE  Outdated(s) \in [Handler -> Run]
  BY RunFields DEF Outdated

LEMMA NextType ==
  ASSUME TypeOK, [Next]_vars
  PROVE  TypeOK'
<1> USE NetworkSegmentAssumption DEF TypeOK, segmentVars, poolVars, claimVars, allocVars
<1>1. ASSUME NEW s \in Segment, NEW state \in {"provisioning", "ready"},
             NEW vals \in [Pool -> Value \cup {NoValue}], Create(s, state, vals)
      PROVE  TypeOK'
  BY <1>1 DEF Create, State
<1>2. ASSUME NEW s \in Segment, Delete(s) \/ CreateGenerated(s) \/ ReleaseGenerated(s)
      PROVE  TypeOK'
  <2>1. CASE Delete(s)
    BY <2>1 DEF Delete
  <2>2. CASE CreateGenerated(s)
    BY <2>2 DEF CreateGenerated, State
  <2>3. CASE ReleaseGenerated(s)
    BY <2>3 DEF ReleaseGenerated
  <2> QED
    BY <1>2, <2>1, <2>2, <2>3
<1>3. ASSUME NEW i \in Instance, NEW s \in Segment, Validate(i, s) \/ Release(i, s)
      PROVE  TypeOK'
  <2>1. CASE Validate(i, s)
    <3>1. ttl' \in [Instance -> 0 .. TxnLimit]
      BY <2>1 DEF Validate
    <3> QED
      BY <2>1, <3>1 DEF Validate
  <2>2. CASE Release(i, s)
    BY <2>2 DEF Release
  <2> QED
    BY <1>3, <2>1, <2>2
<1>4. ASSUME NEW i \in Instance, Insert(i) \/ Abort(i)
      PROVE  TypeOK'
  <2>1. CASE Insert(i)
    BY <2>1 DEF Insert
  <2>2. CASE Abort(i)
    BY <2>2 DEF Abort
  <2> QED
    BY <1>4, <2>1, <2>2
<1>5. ASSUME NEW m \in Host, NEW s \in Segment, Attach(m, s) \/ Detach(m, s)
      PROVE  TypeOK'
  <2>1. CASE Attach(m, s)
    <3>1. attached' \in 0 .. MaxAttach
      BY <2>1 DEF Attach
    <3> QED
      BY <2>1, <3>1 DEF Attach
  <2>2. CASE Detach(m, s)
    BY <2>2 DEF Detach
  <2> QED
    BY <1>5, <2>1, <2>2
<1>6. ASSUME NEW h \in Handler, NEW s \in Segment, Load(h, s)
      PROVE  TypeOK'
  <2>1. [seg |-> s, state |-> row[s], deleted |-> deleted[s], left |-> left[s],
         current |-> TRUE, next |-> "undecided", until |-> 0] \in Run
    BY <1>6 DEF Load, Live, Run, Time
  <2> QED
    BY <1>6, <2>1 DEF Load
<1>7. ASSUME NEW h \in Handler, Decide(h)
      PROVE  TypeOK'
  <2> DEFINE until == IF Decision(run[h]) = "drain" THEN DrainPeriod ELSE 0
  <2>1. until \in Time
    BY DEF Time
  <2>2. [run[h] EXCEPT !.next = Decision(run[h]), !.until = until] \in Run
    <3> HIDE DEF until
    <3> QED
      BY <2>1, DecisionType, RunFields
  <2> QED
    BY <1>7, <2>2 DEF Decide
<1>8. ASSUME NEW h \in Handler, Commit(h)
      PROVE  TypeOK'
  <2>1. run' \in [Handler -> Run]
    BY <1>8, OutdatedType, NoRunType DEF Commit
  <2>2. run[h].until \in Time
    BY DEF Run
  <2> QED
    BY <1>8, <2>1, <2>2 DEF Commit
<1>9. ASSUME NEW h \in Handler, Finish(h) \/ Remove(h)
      PROVE  TypeOK'
  <2>1. CASE Finish(h)
    BY <2>1, NoRunType DEF Finish
  <2>2. CASE Remove(h)
    <3>1. run' \in [Handler -> Run]
      BY <2>2, NoRunType DEF Remove
    <3>2. run[h].seg \in Segment
      BY <2>2 DEF Remove, Run
    <3>3. free' \in [Pool -> SUBSET Value]
      BY <2>2, <3>2 DEF Remove
    <3> QED
      BY <2>2, <3>1, <3>3 DEF Remove
  <2> QED
    BY <1>9, <2>1, <2>2
<1>10. ASSUME Tick
       PROVE  TypeOK'
  <2>1. left' \in [Segment -> Time] /\ ttl' \in [Instance -> 0 .. TxnLimit]
    BY <1>10, SoonerType DEF Tick, Time
  <2>2. \A h \in Handler : run[h].left \in Time /\ run[h].until \in Time
    BY DEF Run
  <2>3. \A h \in Handler : Sooner(run[h].left) \in Time /\ Sooner(run[h].until) \in Time
    BY <2>2, SoonerType DEF Time
  <2>4. \A h \in Handler :
          [run[h] EXCEPT !.left = Sooner(@), !.until = Sooner(@)] \in Run
    BY <2>3, RunFields
  <2> QED
    BY <1>10, <2>1, <2>4 DEF Tick
<1>11. CASE UNCHANGED vars
  BY <1>11 DEF vars
<1> QED
  BY <1>1, <1>2, <1>3, <1>4, <1>5, <1>6, <1>7, <1>8, <1>9, <1>10, <1>11 DEF Next, Step

\* TypeOK holds in every state: rows, pools and runs keep their types, and a
\* deadline that handle_object_state moves is never further away than the drain time.
THEOREM TypeCorrect == Spec => []TypeOK
  BY InitType, NextType, PTL DEF Spec

(***************************************************************************)
(* The drain.  Everything that is pending on a segment ends sooner than    *)
(* the drain of its row, of any snapshot and of any decision; what is      *)
(* decided or stored as removal has nothing left.                          *)
(***************************************************************************)
Clean(s) == deleted[s] /\ addr[s] = {} /\ \A i \in Instance : pending[i] # s
EndsBefore(s, t) == deleted[s] /\ \A i \in Instance : pending[i] = s => ttl[i] < t

SegmentDrains(s) ==
  /\ row[s] = "drain" => EndsBefore(s, left[s])
  /\ row[s] \in {"dbdelete", "gone"} => Clean(s)

RunDrains(h) ==
  /\ run[h].seg = NoSegment => run[h].next = "undecided"
  /\ run[h].seg # NoSegment =>
       /\ row[run[h].seg] # "none"
       /\ run[h].deleted => deleted[run[h].seg]
       /\ run[h].state = "drain" => EndsBefore(run[h].seg, run[h].left)
       /\ run[h].state = "dbdelete" => Clean(run[h].seg)
       /\ run[h].next = "drain" => EndsBefore(run[h].seg, run[h].until)
       /\ run[h].next = "dbdelete" => Clean(run[h].seg)

DrainInv ==
  /\ TypeOK
  /\ \A s \in Segment : SegmentDrains(s)
  /\ \A h \in Handler : RunDrains(h)

LEMMA InitDrain == Init => DrainInv
<1> SUFFICES ASSUME Init PROVE DrainInv
  OBVIOUS
<1>1. \A s \in Segment : SegmentDrains(s)
  BY DEF Init, SegmentDrains
<1>2. \A h \in Handler : RunDrains(h)
  BY DEF Init, RunDrains, NoRun
<1> QED
  BY <1>1, <1>2, InitType DEF DrainInv

\* A step that keeps deletions, deadlines and runs, and adds nothing to a
\* deleted segment, keeps the invariant.
LEMMA QuietStep ==
  ASSUME DrainInv, TypeOK',
         UNCHANGED <<left, run>>,
         \A s \in Segment : deleted[s] => deleted'[s],
         \A s \in Segment : row'[s] = row[s] \/ (row[s] = "none" /\ row'[s] \in {"provisioning", "ready"}),
         \A s \in Segment : row[s] # "none" => addr'[s] \subseteq addr[s]
                            \/ \E i \in Instance : pending[i] = s,
         \A s \in Segment, i \in Instance :
           pending'[i] = s => \/ ~deleted[s]
                              \/ pending[i] = s /\ ttl'[i] = ttl[i]
  PROVE  DrainInv'
<1> USE DEF DrainInv
<1>1. ASSUME NEW s \in Segment, row[s] # "none", Clean(s)
      PROVE  Clean(s)'
  BY <1>1 DEF Clean
<1>2. ASSUME NEW s \in Segment, NEW t, EndsBefore(s, t)
      PROVE  deleted'[s] /\ \A i \in Instance : pending'[i] = s => ttl'[i] < t
  BY <1>2 DEF EndsBefore
<1>3. ASSUME NEW s \in Segment
      PROVE  SegmentDrains(s)'
  <2>1. CASE row'[s] = "drain"
    <3>1. row[s] = "drain" /\ left' = left
      BY <2>1
    <3>2. EndsBefore(s, left[s])
      BY <3>1 DEF SegmentDrains
    <3> QED
      BY <2>1, <3>1, <3>2, <1>2 DEF SegmentDrains, EndsBefore
  <2>2. CASE row'[s] \in {"dbdelete", "gone"}
    BY <2>2, <1>1 DEF SegmentDrains
  <2> QED
    BY <2>1, <2>2 DEF SegmentDrains
<1>4. ASSUME NEW h \in Handler
      PROVE  RunDrains(h)'
  <2>1. run'[h] = run[h] /\ run[h].seg \in Segment \cup {NoSegment}
    BY DEF TypeOK, Run
  <2>2. CASE run[h].seg = NoSegment
    BY <2>1, <2>2 DEF RunDrains
  <2>3. CASE run[h].seg # NoSegment
    <3> DEFINE s == run[h].seg
    <3>1. s \in Segment /\ row[s] # "none" /\ row'[s] # "none"
      BY <2>1, <2>3 DEF RunDrains
    <3>2. run[h].deleted => deleted'[s]
      BY <3>1, <2>3 DEF RunDrains
    <3>3. /\ run[h].state = "dbdelete" => Clean(s)'
          /\ run[h].next = "dbdelete" => Clean(s)'
      BY <3>1, <2>3, <2>1, <1>1 DEF RunDrains
    <3>4. /\ run[h].state = "drain" => EndsBefore(s, run[h].left)'
          /\ run[h].next = "drain" => EndsBefore(s, run[h].until)'
      BY <3>1, <2>3, <2>1, <1>2 DEF RunDrains, EndsBefore
    <3> QED
      BY <2>1, <2>3, <3>1, <3>2, <3>3, <3>4 DEF RunDrains
  <2> QED
    BY <2>2, <2>3
<1> QED
  BY <1>3, <1>4

LEMMA ClaimsDrain ==
  ASSUME DrainInv, TypeOK',
         \/ \E s \in Segment, state \in {"provisioning", "ready"} :
              \E vals \in [Pool -> Value \cup {NoValue}] : Create(s, state, vals)
         \/ \E s \in Segment : Delete(s) \/ CreateGenerated(s) \/ ReleaseGenerated(s)
         \/ \E i \in Instance, s \in Segment : Validate(i, s) \/ Release(i, s)
         \/ \E i \in Instance : Insert(i) \/ Abort(i)
         \/ \E m \in Host, s \in Segment : Attach(m, s) \/ Detach(m, s)
  PROVE  DrainInv'
<1> USE DEF segmentVars, poolVars, claimVars, allocVars
<1>t. TypeOK
  BY DEF DrainInv
<1>1. ASSUME NEW s \in Segment, NEW state \in {"provisioning", "ready"},
             NEW vals \in [Pool -> Value \cup {NoValue}], Create(s, state, vals)
      PROVE  DrainInv'
  <2>1. \A q \in Segment : row'[q] = row[q] \/ (row[q] = "none" /\ row'[q] \in {"provisioning", "ready"})
    BY <1>t, <1>1 DEF Create, TypeOK
  <2> QED
    BY <1>1, <2>1, QuietStep DEF Create
<1>2. ASSUME NEW s \in Segment, Delete(s)
      PROVE  DrainInv'
  <2>1. \A q \in Segment : deleted[q] => deleted'[q]
    BY <1>t, <1>2 DEF Delete, TypeOK
  <2> QED
    BY <1>2, <2>1, QuietStep DEF Delete
<1>3. ASSUME NEW s \in Segment, CreateGenerated(s)
      PROVE  DrainInv'
  <2>1. \A q \in Segment : row'[q] = row[q] \/ (row[q] = "none" /\ row'[q] \in {"provisioning", "ready"})
    BY <1>t, <1>3 DEF CreateGenerated, TypeOK
  <2>2. \A q \in Segment : row[q] # "none" => addr'[q] \subseteq addr[q]
    BY <1>t, <1>3 DEF CreateGenerated, TypeOK
  <2> QED
    BY <1>3, <2>1, <2>2, QuietStep DEF CreateGenerated
<1>4. ASSUME NEW s \in Segment, ReleaseGenerated(s)
      PROVE  DrainInv'
  <2>1. \A q \in Segment : (deleted[q] => deleted'[q]) /\ addr'[q] \subseteq addr[q]
    BY <1>t, <1>4 DEF ReleaseGenerated, TypeOK
  <2> QED
    BY <1>4, <2>1, QuietStep DEF ReleaseGenerated
<1>5. ASSUME NEW i \in Instance, NEW s \in Segment, Validate(i, s)
      PROVE  DrainInv'
  <2>1. \A q \in Segment, j \in Instance :
          pending'[j] = q => ~deleted[q] \/ (pending[j] = q /\ ttl'[j] = ttl[j])
    BY <1>t, <1>5 DEF Validate, TypeOK
  <2> QED
    BY <1>5, <2>1, QuietStep DEF Validate
<1>6. ASSUME NEW i \in Instance, NEW s \in Segment, Release(i, s)
      PROVE  DrainInv'
  <2>1. \A q \in Segment : addr'[q] \subseteq addr[q]
    BY <1>t, <1>6 DEF Release, TypeOK
  <2> QED
    BY <1>6, <2>1, QuietStep DEF Release
<1>7. ASSUME NEW i \in Instance, Insert(i)
      PROVE  DrainInv'
  <2>1. \A q \in Segment : addr'[q] \subseteq addr[q] \/ \E j \in Instance : pending[j] = q
    BY <1>t, <1>7 DEF Insert, TypeOK
  <2>2. \A q \in Segment, j \in Instance : pending'[j] = q => pending[j] = q /\ ttl'[j] = ttl[j]
    BY <1>t, <1>7, NetworkSegmentAssumption DEF Insert, TypeOK
  <2> QED
    BY <1>7, <2>1, <2>2, QuietStep DEF Insert
<1>8. ASSUME NEW i \in Instance, Abort(i)
      PROVE  DrainInv'
  <2>1. \A q \in Segment, j \in Instance : pending'[j] = q => pending[j] = q /\ ttl'[j] = ttl[j]
    BY <1>t, <1>8, NetworkSegmentAssumption DEF Abort, TypeOK
  <2> QED
    BY <1>8, <2>1, QuietStep DEF Abort
<1>9. ASSUME NEW m \in Host, NEW s \in Segment, Attach(m, s) \/ Detach(m, s)
      PROVE  DrainInv'
  BY <1>9, QuietStep DEF Attach, Detach
<1> QED
  BY <1>1, <1>2, <1>3, <1>4, <1>5, <1>6, <1>7, <1>8, <1>9

\* The handler's steps change runs and one row; they leave claims alone.
LEMMA HandlerDrains ==
  ASSUME DrainInv, TypeOK', NEW h \in Handler,
         \/ \E s \in Segment : Load(h, s)
         \/ Decide(h) \/ Commit(h) \/ Finish(h) \/ Remove(h)
  PROVE  DrainInv'
<1> USE DEF segmentVars, poolVars, claimVars, allocVars
<1>t. TypeOK /\ run[h].seg \in Segment \cup {NoSegment}
  BY DEF DrainInv, TypeOK, Run
<1>u. UNCHANGED <<deleted, addr, pending, ttl>>
  BY DEF Load, Decide, Commit, Finish, Remove
<1>c. /\ \A s : Clean(s) <=> Clean(s)'
      /\ \A s, t : EndsBefore(s, t) => deleted'[s] /\ \A i \in Instance : pending'[i] = s => ttl'[i] < t
  BY <1>u DEF Clean, EndsBefore
<1>n. ASSUME NEW g \in Handler, run'[g] = NoRun
      PROVE  RunDrains(g)'
  BY <1>n DEF RunDrains, NoRun
<1>k. ASSUME NEW g \in Handler, RunDrains(g),
             \/ run'[g] = run[g]
             \/ run'[g] = [run[g] EXCEPT !.current = FALSE],
             \A s \in Segment : row[s] # "none" => row'[s] # "none"
      PROVE  RunDrains(g)'
  <2>1. /\ run'[g].seg = run[g].seg /\ run'[g].state = run[g].state
        /\ run'[g].deleted = run[g].deleted /\ run'[g].next = run[g].next
        /\ run'[g].left = run[g].left /\ run'[g].until = run[g].until
        /\ run[g].seg \in Segment \cup {NoSegment}
    BY <1>k, <1>t DEF TypeOK, Run
  <2> QED
    BY <2>1, <1>k, <1>u DEF RunDrains, Clean, EndsBefore
<1>1. ASSUME NEW s \in Segment, Load(h, s)
      PROVE  DrainInv'
  <2>1. /\ run'[h].seg = s /\ run'[h].state = row[s] /\ run'[h].deleted = deleted[s]
        /\ run'[h].left = left[s] /\ run'[h].next = "undecided"
        /\ row' = row /\ row[s] # "none"
    BY <1>1, <1>t DEF Load, TypeOK, Live, State
  <2>2. SegmentDrains(s)
    BY DEF DrainInv
  <2>3. RunDrains(h)'
    BY <2>1, <2>2, <1>u, <1>1, NetworkSegmentAssumption DEF RunDrains, SegmentDrains, Clean, EndsBefore
  <2>4. \A g \in Handler \ {h} : RunDrains(g)'
    BY <1>1, <1>t, <1>k, <2>1 DEF Load, TypeOK, DrainInv
  <2>5. \A q \in Segment : SegmentDrains(q)'
    BY <1>1, <1>u DEF Load, DrainInv, SegmentDrains, Clean, EndsBefore
  <2> QED
    BY <2>3, <2>4, <2>5 DEF DrainInv
<1>2. ASSUME Decide(h)
      PROVE  DrainInv'
  <2> DEFINE s == run[h].seg
             next == Decision(run[h])
  <2>1. /\ s \in Segment /\ UNCHANGED <<row, left, addr, iface>>
        /\ run[h].next = "undecided" /\ RunDrains(h)
    BY <1>2, <1>t DEF Decide, DrainInv
  <2>2. /\ run'[h].seg = s /\ run'[h].state = run[h].state /\ run'[h].deleted = run[h].deleted
        /\ run'[h].left = run[h].left /\ run'[h].next = next
        /\ run'[h].until = IF next = "drain" THEN DrainPeriod ELSE 0
    BY <1>2, <1>t DEF Decide, TypeOK, Run
  <2>3. next = "drain" => deleted[s]
    <3>1. next = "drain" => (run[h].state = "ready" /\ run[h].deleted) \/ run[h].state = "drain"
      BY DEF Decision
    <3> QED
      BY <2>1, <3>1, NetworkSegmentAssumption DEF RunDrains, EndsBefore
  <2>4. next = "drain" => EndsBefore(s, DrainPeriod)
    BY <2>3, <1>t, DrainAssumption, NetworkSegmentAssumption DEF EndsBefore, TypeOK
  <2>5. next = "dbdelete" => Clean(s)
    <3> SUFFICES ASSUME next = "dbdelete" PROVE Clean(s)
      OBVIOUS
    <3>1. run[h].state = "drain" /\ ~HasAllocations(s) /\ run[h].left = 0
      BY DEF Decision
    <3>2. EndsBefore(s, 0)
      BY <3>1, <2>1, NetworkSegmentAssumption DEF RunDrains
    <3> QED
      BY <3>1, <3>2, <1>t DEF Clean, EndsBefore, HasAllocations, TypeOK
  <2>6. RunDrains(h)'
    <3> HIDE DEF s, next
    <3>1. s # NoSegment /\ row'[s] # "none" /\ (run'[h].deleted => deleted'[s])
      BY <2>1, <2>2, <1>u, NetworkSegmentAssumption DEF RunDrains, s
    <3>2. /\ run'[h].state = "drain" => EndsBefore(s, run[h].left)
          /\ run'[h].state = "dbdelete" => Clean(s)
      BY <2>1, <2>2, NetworkSegmentAssumption DEF RunDrains, s
    <3> QED
      BY <3>1, <3>2, <2>2, <2>4, <2>5, <1>u DEF RunDrains, Clean, EndsBefore
  <2>7. \A g \in Handler \ {h} : RunDrains(g)'
    BY <1>2, <1>t, <1>k DEF Decide, TypeOK, DrainInv
  <2>8. \A q \in Segment : SegmentDrains(q)'
    BY <2>1, <1>u DEF DrainInv, SegmentDrains, Clean, EndsBefore
  <2> QED
    BY <2>6, <2>7, <2>8 DEF DrainInv
<1>3. ASSUME Commit(h)
      PROVE  DrainInv'
  <2>1. RunDrains(h) /\ run[h].next \in State /\ run[h].seg \in Segment
    BY <1>3, <1>t DEF Commit, DrainInv, RunDrains, State
  <2>s. PICK s \in Segment : s = run[h].seg
    BY <2>1
  <2>2. row'[s] = run[h].next /\ left'[s] = run[h].until
    BY <1>3, <1>t, <2>s DEF Commit, TypeOK
  <2>3. SegmentDrains(s)'
    <3>1. /\ run[h].next = "drain" => EndsBefore(s, run[h].until)
          /\ run[h].next = "dbdelete" => Clean(s)
          /\ run[h].next # "gone"
      BY <2>1, <2>s, NetworkSegmentAssumption DEF RunDrains, State
    <3> QED
      BY <2>2, <3>1, <1>u DEF SegmentDrains, EndsBefore, Clean
  <2>4. \A q \in Segment \ {s} : SegmentDrains(q)'
    BY <1>3, <1>t, <1>u, <2>s DEF Commit, TypeOK, DrainInv, SegmentDrains, Clean, EndsBefore
  <2>5. \A q \in Segment : row[q] # "none" => row'[q] # "none"
    BY <1>3, <1>t, <2>1 DEF Commit, TypeOK, State
  <2>6. \A g \in Handler \ {h} : RunDrains(g)'
    BY <1>3, <1>t, <1>k, <2>5 DEF Commit, Outdated, TypeOK, DrainInv
  <2>7. RunDrains(h)'
    BY <1>3, <1>n, <1>t, OutdatedType DEF Commit, TypeOK
  <2> QED
    BY <2>3, <2>4, <2>6, <2>7 DEF DrainInv
<1>4. ASSUME Finish(h)
      PROVE  DrainInv'
  <2>1. run'[h] = NoRun /\ \A g \in Handler \ {h} : run'[g] = run[g]
    BY <1>4, <1>t DEF Finish, TypeOK
  <2>2. \A g \in Handler : RunDrains(g)'
    BY <2>1, <1>4, <1>n, <1>k DEF Finish, DrainInv
  <2>3. \A q \in Segment : SegmentDrains(q)'
    BY <1>4, <1>u DEF Finish, DrainInv, SegmentDrains, Clean, EndsBefore
  <2> QED
    BY <2>2, <2>3 DEF DrainInv
<1>5. ASSUME Remove(h)
      PROVE  DrainInv'
  <2> DEFINE s == run[h].seg
  <2>1. s \in Segment /\ Clean(s)
    BY <1>5, <1>t DEF Remove, DrainInv, RunDrains
  <2>2. run'[h] = NoRun /\ \A g \in Handler \ {h} : run'[g] = run[g]
    BY <1>5, <1>t DEF Remove, TypeOK
  <2>3. \A q \in Segment : row'[q] = IF q = s THEN "gone" ELSE row[q]
    BY <1>5, <1>t DEF Remove, TypeOK
  <2>4. \A g \in Handler : RunDrains(g)'
    BY <2>2, <2>3, <1>n, <1>k DEF DrainInv
  <2>5. \A q \in Segment : SegmentDrains(q)'
    BY <1>5, <2>1, <2>3, <1>u DEF Remove, DrainInv, SegmentDrains, Clean, EndsBefore
  <2> QED
    BY <2>4, <2>5 DEF DrainInv
<1> QED
  BY <1>1, <1>2, <1>3, <1>4, <1>5

\* A tick takes as much from every deadline as from what is pending, and never
\* passes the end of an allocation.
LEMMA TickDrains ==
  ASSUME DrainInv, TypeOK', Tick
  PROVE  DrainInv'
<1>t. TypeOK
  BY DEF DrainInv
<1>u. UNCHANGED <<row, deleted, addr, pending>>
  BY DEF Tick, claimVars
<1>v. /\ \A i \in Instance : pending[i] # NoSegment => ttl[i] > 0
      /\ \A i \in Instance : ttl'[i] = Sooner(ttl[i])
      /\ \A s \in Segment : left'[s] = Sooner(left[s])
  BY DEF Tick
<1>w. \A h \in Handler :
        run'[h] = [run[h] EXCEPT !.left = Sooner(run[h].left), !.until = Sooner(run[h].until)]
  BY DEF Tick
<1>1. ASSUME NEW s \in Segment, NEW t \in Nat, EndsBefore(s, t)
      PROVE  deleted'[s] /\ \A i \in Instance : pending'[i] = s => ttl'[i] < Sooner(t)
  <2>1. deleted[s]
    BY <1>1 DEF EndsBefore
  <2>2. ASSUME NEW i \in Instance, pending[i] = s
        PROVE  ttl'[i] < Sooner(t)
    <3>1. ttl[i] \in Nat /\ ttl[i] > 0 /\ ttl[i] < t
      BY <1>1, <1>t, <1>v, <2>2, NetworkSegmentAssumption DEF EndsBefore, TypeOK
    <3>2. ttl'[i] = ttl[i] - 1
      BY <1>v, <3>1 DEF Sooner
    <3> QED
      BY <3>1, <3>2 DEF Sooner
  <2> QED
    BY <2>1, <2>2, <1>u
<1>2. ASSUME NEW s \in Segment
      PROVE  SegmentDrains(s)'
  <2>1. left[s] \in Nat /\ left'[s] = Sooner(left[s])
    BY <1>t, <1>v, NetworkSegmentAssumption DEF TypeOK, Time
  <2> QED
    BY <2>1, <1>1, <1>u DEF DrainInv, SegmentDrains, Clean, EndsBefore
<1>3. ASSUME NEW h \in Handler
      PROVE  RunDrains(h)'
  <2>1. /\ run'[h].seg = run[h].seg /\ run'[h].state = run[h].state
        /\ run'[h].deleted = run[h].deleted /\ run'[h].next = run[h].next
        /\ run'[h].left = Sooner(run[h].left) /\ run'[h].until = Sooner(run[h].until)
        /\ run[h].seg \in Segment \cup {NoSegment}
        /\ run[h].left \in Nat /\ run[h].until \in Nat
    <3>1. run[h] \in Run
      BY <1>t DEF TypeOK
    <3>2. run[h].left \in Time /\ run[h].until \in Time /\ run[h].seg \in Segment \cup {NoSegment}
      BY <3>1 DEF Run
    <3>3. run[h].left \in Nat /\ run[h].until \in Nat
      BY <3>2, NetworkSegmentAssumption DEF Time
    <3>4. /\ run'[h].seg = run[h].seg /\ run'[h].state = run[h].state
          /\ run'[h].deleted = run[h].deleted /\ run'[h].next = run[h].next
          /\ run'[h].left = Sooner(run[h].left) /\ run'[h].until = Sooner(run[h].until)
      BY <3>1, <1>w DEF Run
    <3> QED
      BY <3>2, <3>3, <3>4
  <2>2. RunDrains(h)
    BY DEF DrainInv
  <2> QED
    BY <2>1, <2>2, <1>1, <1>u DEF RunDrains, Clean, EndsBefore
<1> QED
  BY <1>2, <1>3 DEF DrainInv

LEMMA NextDrain ==
  ASSUME DrainInv, [Next]_vars
  PROVE  DrainInv'
<1>1. TypeOK'
  BY NextType DEF DrainInv
<1>2. CASE UNCHANGED vars
  BY <1>1, <1>2 DEF vars, segmentVars, claimVars, allocVars, DrainInv, SegmentDrains, RunDrains,
     Clean, EndsBefore
<1>3. CASE Tick
  BY <1>1, <1>3, TickDrains
<1>4. CASE Step
  BY <1>1, <1>4, ClaimsDrain, HandlerDrains DEF Step
<1> QED
  BY <1>2, <1>3, <1>4 DEF Next

\* NoAddressOnRemovedSegment holds in every state: although the insert of
\* instance_address::allocate checks nothing, no instance has or gets an address on
\* a segment that DBDelete removed, provided that allocations are shorter than the
\* drain time.
THEOREM NoStrandedAddress == Spec => []NoAddressOnRemovedSegment
<1>1. DrainInv => NoAddressOnRemovedSegment
  BY DEF DrainInv, SegmentDrains, Clean, NoAddressOnRemovedSegment
<1> QED
  BY <1>1, InitDrain, NextDrain, PTL DEF Spec

(***************************************************************************)
(* The resource pools.                                                     *)
(***************************************************************************)
Holders(p, v) == {s \in Segment : Live(s) /\ used[s][p] = v}

PoolInv ==
  /\ TypeOK
  /\ \A s \in Segment, p \in Pool : row[s] = "none" => used[s][p] = NoValue
  /\ \A p \in Pool, v \in Value :
       IF v \in free[p] THEN Holders(p, v) = {} ELSE \E s \in Segment : Holders(p, v) = {s}

LEMMA InitPool == Init => PoolInv
  BY InitType, NetworkSegmentAssumption DEF Init, PoolInv, Holders, Live, State

LEMMA PoolKept ==
  ASSUME PoolInv, TypeOK', UNCHANGED poolVars,
         \A s \in Segment : Live(s)' <=> Live(s) \/ (row[s] = "none" /\ row'[s] # "none"),
         \A s \in Segment : row'[s] = "none" => row[s] = "none"
  PROVE  PoolInv'
<1>1. \A p \in Pool, v \in Value : Holders(p, v)' = Holders(p, v)
  BY NetworkSegmentAssumption DEF Holders, PoolInv, poolVars, Live, State
<1> QED
  BY <1>1 DEF PoolInv, poolVars

LEMMA NextPool ==
  ASSUME PoolInv, [Next]_vars
  PROVE  PoolInv'
<1> USE DEF segmentVars, poolVars, claimVars, allocVars
<1>t. TypeOK /\ TypeOK'
  BY NextType DEF PoolInv
<1>1. ASSUME NEW s \in Segment, NEW state \in {"provisioning", "ready"},
             NEW vals \in [Pool -> Value \cup {NoValue}], Create(s, state, vals)
      PROVE  PoolInv'
  <2>1. /\ row[s] = "none" /\ row'[s] \in State /\ used'[s] = vals
        /\ \A q \in Segment \ {s} : row'[q] = row[q] /\ used'[q] = used[q]
    BY <1>1, <1>t DEF Create, TypeOK, State
  <2>2. ASSUME NEW p \in Pool, NEW v \in Value
        PROVE  IF v \in free'[p] THEN Holders(p, v)' = {} ELSE \E q \in Segment : Holders(p, v)' = {q}
    <3>1. free'[p] = free[p] \ {vals[p]}
      BY <1>1, <1>t DEF Create
    <3>2. s \notin Holders(p, v)
      BY <2>1 DEF Holders, Live, State
    <3>3. CASE vals[p] = v
      <4>1. v \in free[p]
        BY <1>1, <3>3, NetworkSegmentAssumption DEF Create
      <4>2. Holders(p, v) = {}
        BY <4>1 DEF PoolInv
      <4>3. Holders(p, v)' = {s}
        BY <2>1, <3>3, <4>2 DEF Holders, Live
      <4> QED
        BY <3>1, <3>3, <4>3
    <3>4. CASE vals[p] # v
      <4>1. Holders(p, v)' = Holders(p, v)
        BY <2>1, <3>2, <3>4 DEF Holders, Live
      <4> QED
        BY <3>1, <3>4, <4>1 DEF PoolInv
    <3> QED
      BY <3>3, <3>4
  <2> QED
    BY <1>t, <2>1, <2>2 DEF PoolInv, State
<1>2. ASSUME NEW s \in Segment, Delete(s) \/ CreateGenerated(s) \/ ReleaseGenerated(s)
      PROVE  PoolInv'
  <2>1. CASE CreateGenerated(s)
    BY <2>1, <1>t, PoolKept DEF CreateGenerated, Live, State, TypeOK
  <2>2. CASE Delete(s) \/ ReleaseGenerated(s)
    <3>1. UNCHANGED <<row, used, free>>
      BY <2>2 DEF Delete, ReleaseGenerated
    <3> QED
      BY <3>1, <1>t, PoolKept DEF Live
  <2> QED
    BY <1>2, <2>1, <2>2
<1>3. ASSUME UNCHANGED <<row, used, free>>
      PROVE  PoolInv'
  BY <1>3, <1>t, PoolKept DEF Live
<1>4. ASSUME NEW h \in Handler, Commit(h)
      PROVE  PoolInv'
  <2>1. \A s \in Segment : row'[s] = row[s] \/ (Live(s) /\ row'[s] \in State)
    BY <1>4, <1>t DEF Commit, TypeOK, Live
  <2> QED
    BY <2>1, <1>4, <1>t, PoolKept DEF Commit, Live, State
<1>5. ASSUME NEW h \in Handler, Remove(h)
      PROVE  PoolInv'
  <2> DEFINE s == run[h].seg
  <2>1. s \in Segment
    BY <1>5, <1>t DEF Remove, TypeOK, Run
  <2>2. /\ Live(s) /\ row'[s] = "gone" /\ used' = used
        /\ \A q \in Segment \ {s} : row'[q] = row[q]
    BY <1>5, <1>t, <2>1 DEF Remove, TypeOK
  <2>3. ASSUME NEW p \in Pool, NEW v \in Value
        PROVE  IF v \in free'[p] THEN Holders(p, v)' = {} ELSE \E q \in Segment : Holders(p, v)' = {q}
    <3>1. free'[p] = free[p] \cup ({used[s][p]} \ {NoValue})
      BY <1>5, <1>t DEF Remove
    <3> HIDE DEF s
    <3>2. Holders(p, v)' = Holders(p, v) \ {s}
      BY <2>2 DEF Holders, Live, State
    <3>3. CASE used[s][p] = v
      <4>1. s \in Holders(p, v)
        BY <2>1, <2>2, <3>3 DEF Holders
      <4>2. PICK q \in Segment : Holders(p, v) = {q}
        BY <4>1 DEF PoolInv
      <4> QED
        BY <3>1, <3>2, <3>3, <4>1, <4>2, NetworkSegmentAssumption
    <3>4. CASE used[s][p] # v
      <4>1. s \notin Holders(p, v)
        BY <3>4 DEF Holders
      <4> QED
        BY <3>1, <3>2, <3>4, <4>1 DEF PoolInv
    <3> QED
      BY <3>3, <3>4
  <2> QED
    BY <1>t, <2>2, <2>3 DEF PoolInv
<1>6. ASSUME UNCHANGED vars PROVE PoolInv'
  BY <1>3, <1>6 DEF vars
<1>7. ASSUME Tick PROVE PoolInv'
  BY <1>3, <1>7 DEF Tick
<1>8. ASSUME NEW i \in Instance, NEW s \in Segment, Validate(i, s) \/ Release(i, s)
      PROVE  PoolInv'
  BY <1>3, <1>8 DEF Validate, Release
<1>9. ASSUME NEW i \in Instance, Insert(i) \/ Abort(i)
      PROVE  PoolInv'
  BY <1>3, <1>9 DEF Insert, Abort
<1>10. ASSUME NEW m \in Host, NEW s \in Segment, Attach(m, s) \/ Detach(m, s)
       PROVE  PoolInv'
  BY <1>3, <1>10 DEF Attach, Detach
<1>11. ASSUME NEW h \in Handler, Decide(h) \/ Finish(h) \/ \E s \in Segment : Load(h, s)
       PROVE  PoolInv'
  BY <1>3, <1>11 DEF Decide, Finish, Load
<1> QED
  BY <1>1, <1>2, <1>4, <1>5, <1>6, <1>7, <1>8, <1>9, <1>10, <1>11 DEF Next, Step

\* PoolsMatchSegments holds in every state: a VNI or VLAN id is taken exactly when
\* one existing segment has it, although resource_pool::release asks for no owner and
\* several runs may be at DBDelete of one segment.
THEOREM PoolsAgree == Spec => []PoolsMatchSegments
<1>1. PoolInv => PoolsMatchSegments
  <2> SUFFICES ASSUME PoolInv, NEW p \in Pool, NEW v \in Value
               PROVE  IF v \in free[p] THEN Holders(p, v) = {} ELSE Cardinality(Holders(p, v)) = 1
    BY DEF PoolsMatchSegments, Holders
  <2>1. CASE v \in free[p]
    BY <2>1 DEF PoolInv
  <2>2. CASE v \notin free[p]
    <3>1. PICK s \in Segment : Holders(p, v) = {s}
      BY <2>2 DEF PoolInv
    <3>2. Cardinality({s}) = 1
      BY FS_Singleton
    <3> QED
      BY <2>2, <3>1, <3>2
  <2> QED
    BY <2>1, <2>2
<1> QED
  BY <1>1, InitPool, NextPool, PTL DEF Spec
=============================================================================
