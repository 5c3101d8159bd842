------------------------ MODULE StateControllerProofs ------------------------
(***************************************************************************)
(* Proofs about StateController, for any number of processors, slots,      *)
(* objects, states and faults.                                             *)
(***************************************************************************)
EXTENDS StateController, TLAPS

(***************************************************************************)
(* Types.                                                                  *)
(***************************************************************************)
\* What a task's fields hold, by how far it has come.
TaskOK ==
  \A w \in Worker :
    /\ tpc[w] # "free" => tobj[w] \in Object
    /\ tpc[w] = "loaded" => tver[w] \in Version
    /\ tpc[w] = "committed" => tver[w] \in Version /\ tver[w] < MaxVersion
                               /\ tnew[w] \in State

TypeInv == TypeOK /\ TaskOK

LEMMA InitType == Init => TypeInv
  BY ConstantsAssumption
  DEF Init, TypeInv, TypeOK, TaskOK, TaskPC, ProcPC, Version, Event, Expired, ClaimLimit

\* Dispatch for given places and the objects put there.
Spawned(S, used, obj) ==
  /\ \A w, x \in used : obj[w] = obj[x] => w = x
  /\ \A o \in S : \E w \in used : obj[w] = o
  /\ tpc' = [w \in Worker |-> IF w \in used THEN "spawned" ELSE tpc[w]]
  /\ tobj' = [w \in Worker |-> IF w \in used THEN obj[w] ELSE tobj[w]]
  /\ UNCHANGED <<tver, tnew, treq, tage>>

LEMMA DispatchShape ==
  ASSUME NEW p \in Processor, NEW S, Dispatch(p, S)
  PROVE  \E used \in SUBSET Free(p) : \E obj \in [used -> S] : Spawned(S, used, obj)
  BY Zenon DEF Dispatch, Spawned

LEMMA ProcessorType ==
  ASSUME TypeInv, NEW p \in Processor, ProcessorStep(p)
  PROVE  TypeInv'
<1> USE ConstantsAssumption DEF TypeInv, TypeOK, TaskOK, TaskPC, ProcPC, objectVars,
          queueVars, taskVars, procVars, enqVars
<1>w. \A w \in SlotsOf(p) : w \in Worker
  BY DEF SlotsOf, Worker
<1>1. CASE AcquireOk(p)
  <2>1. PICK S \in AcquireSets(p) : ClaimRows(p, S) /\ Dispatch(p, S)
    BY <1>1 DEF AcquireOk
  <2>2. S \subseteq Object
    BY DEF AcquireSets
  <2>d. PICK used \in SUBSET Free(p) : \E obj \in [used -> S] : Spawned(S, used, obj)
    BY <2>1, DispatchShape
  <2>3. PICK obj \in [used -> S] : Spawned(S, used, obj)
    BY <2>d
  <2>4. /\ claim' \in [Object -> Processor \cup {"absent", "unclaimed"}]
        /\ age' \in [Object -> 0 .. Expired]
        /\ older' \subseteq Object \X Object
    BY <2>1, <2>2 DEF ClaimRows, Stamped, Expired, ClaimLimit
  <2>5. tpc' \in [Worker -> TaskPC] /\ tobj' \in [Worker -> Object \cup {NoObject}]
    BY <2>2, <2>3 DEF Spawned
  <2>6. TaskOK'
    BY <2>2, <2>3 DEF Spawned
  <2> QED
    BY <1>1, <2>3, <2>4, <2>5, <2>6 DEF AcquireOk, Spawned
<1>2. CASE AcquireFails(p)
  <2>1. /\ claim' \in [Object -> Processor \cup {"absent", "unclaimed"}]
        /\ age' \in [Object -> 0 .. Expired]
        /\ older' \subseteq Object \X Object
        /\ faults' \in 0 .. MaxFaults
    <3>1. CASE Fault("acquire") /\ UNCHANGED queueVars
      BY <3>1 DEF Fault
    <3>2. CASE Fault("acquire_reply") /\ \E S \in AcquireSets(p) : ClaimRows(p, S)
      BY <3>2 DEF Fault, AcquireSets, ClaimRows, Stamped, Expired, ClaimLimit
    <3> QED
      BY <1>2, <3>1, <3>2 DEF AcquireFails
  <2> QED
    BY <1>2, <2>1 DEF AcquireFails
<1>3. ASSUME JoinDone(p)
      PROVE  /\ completed' \in [Processor -> SUBSET Object]
             /\ requeue' \in [Processor -> SUBSET Object]
             /\ tpc' \in [Worker -> TaskPC]
             /\ tobj' \in [Worker -> Object \cup {NoObject}]
             /\ treq' \in [Worker -> BOOLEAN]
             /\ UNCHANGED <<tver, tnew, tage>>
             /\ TaskOK'
  <2>1. \A w \in Done(p) : w \in Worker /\ tobj[w] \in Object
    BY <1>w DEF Done
  <2>2. /\ completed' \in [Processor -> SUBSET Object]
        /\ requeue' \in [Processor -> SUBSET Object]
    BY <1>3, <2>1 DEF JoinDone
  <2> QED
    BY <1>3, <2>2 DEF JoinDone
<1>4. CASE Wait(p)
  BY <1>3, <1>4 DEF Wait
<1>5. CASE DrainJoin(p)
  BY <1>3, <1>5 DEF DrainJoin
<1>6. ASSUME FinalizeRows(p)
      PROVE  /\ claim' \in [Object -> Processor \cup {"absent", "unclaimed"}]
             /\ age' \in [Object -> 0 .. Expired]
             /\ older' \subseteq Object \X Object
  BY <1>6 DEF FinalizeRows, Expired, ClaimLimit
<1>7. CASE FinalizeOk(p)
  BY <1>6, <1>7 DEF FinalizeOk
<1>8. CASE FinalizeFails(p)
  <2>1. /\ claim' \in [Object -> Processor \cup {"absent", "unclaimed"}]
        /\ age' \in [Object -> 0 .. Expired]
        /\ older' \subseteq Object \X Object
        /\ faults' \in 0 .. MaxFaults
    BY <1>6, <1>8 DEF FinalizeFails, Fault
  <2>2. /\ pc' \in [Processor -> ProcPC]
        /\ completed' \in [Processor -> SUBSET Object]
        /\ requeue' \in [Processor -> SUBSET Object]
        /\ outage' \in [Processor -> BOOLEAN]
    BY <1>8 DEF FinalizeFails
  <2> QED
    BY <1>8, <2>1, <2>2 DEF FinalizeFails
<1>9. CASE Cancel(p)
  BY <1>9 DEF Cancel, Fault
<1>10. CASE Crash(p)
  <2>1. faults' \in 0 .. MaxFaults
    BY <1>10 DEF Crash, Fault
  <2>2. /\ pc' \in [Processor -> ProcPC]
        /\ completed' \in [Processor -> SUBSET Object]
        /\ requeue' \in [Processor -> SUBSET Object]
        /\ tpc' \in [Worker -> TaskPC]
        /\ tobj' \in [Worker -> Object \cup {NoObject}]
    BY <1>10 DEF Crash
  <2>3. /\ tver' \in [Worker -> 0 .. MaxVersion]
        /\ tnew' \in [Worker -> State \cup {NoState}]
        /\ tage' \in [Worker -> Nat]
    BY <1>10 DEF Crash
  <2>4. treq' \in [Worker -> BOOLEAN]
    BY <1>10, Zenon DEF Crash
  <2>5. TaskOK'
    BY <1>10 DEF Crash
  <2> QED
    BY <1>10, <2>1, <2>2, <2>3, <2>4, <2>5 DEF Crash
<1>11. CASE Restart(p)
  BY <1>11 DEF Restart
<1> QED
  BY <1>1, <1>2, <1>4, <1>5, <1>7, <1>8, <1>9, <1>10, <1>11 DEF ProcessorStep

LEMMA TaskType ==
  ASSUME TypeInv, NEW w \in Worker, TaskStep(w)
  PROVE  TypeInv'
<1> USE ConstantsAssumption DEF TypeInv, TypeOK, TaskOK, TaskPC, ProcPC, objectVars,
          queueVars, procVars, enqVars
<1>f. ASSUME NEW again \in BOOLEAN, Finish(w, again)
      PROVE  /\ tpc' \in [Worker -> TaskPC]
             /\ tobj' \in [Worker -> Object \cup {NoObject}]
             /\ tver' \in [Worker -> 0 .. MaxVersion]
             /\ tnew' \in [Worker -> State \cup {NoState}]
             /\ treq' \in [Worker -> BOOLEAN]
             /\ tage' \in [Worker -> Nat]
             /\ tpc[w] # "free" => TaskOK'
  BY <1>f DEF Finish
<1>1. CASE Start(w)
  BY <1>1 DEF Start
<1>2. CASE Load(w)
  <2>1. CASE exists[tobj[w]]
    <3>1. tobj[w] \in Object /\ ver[tobj[w]] \in Version /\ ver[tobj[w]] \in 0 .. MaxVersion
      BY <1>2 DEF Load, Version
    <3>2. tpc' \in [Worker -> TaskPC] /\ tver' \in [Worker -> 0 .. MaxVersion]
      BY <1>2, <2>1, <3>1 DEF Load
    <3>3. TaskOK'
      BY <1>2, <2>1, <3>1 DEF Load
    <3>4. TypeOK'
      BY <1>2, <2>1, <3>2 DEF Load
    <3> QED
      BY <3>3, <3>4
  <2>2. CASE ~exists[tobj[w]]
    BY <1>2, <1>f, <2>2 DEF Load
  <2> QED
    BY <2>1, <2>2
<1>3. CASE HandleNoTransition(w)
  BY <1>3, <1>f DEF HandleNoTransition
<1>4. CASE HandleDeleted(w)
  BY <1>4, <1>f DEF HandleDeleted
<1>5. ASSUME NEW s \in State, HandleTransition(w, s)
      PROVE  TypeInv'
  <2>1. tver[w] + 1 \in Version
    BY <1>5 DEF HandleTransition, Version
  <2>2. <<tver[w] + 1, s>> \in Event
    BY <2>1 DEF Event
  <2>3. /\ ver' \in [Object -> Version]
        /\ cstate' \in [Object -> State]
        /\ hist' \in [Object -> SUBSET Event]
    BY <1>5, <2>1, <2>2 DEF HandleTransition
  <2> QED
    BY <1>5, <2>3 DEF HandleTransition, Version
<1>6. CASE HandleConflict(w)
  BY <1>6, <1>f DEF HandleConflict
<1>7. CASE Emit(w)
  <2>1. <<tver[w] + 1, tnew[w]>> \in Event
    BY <1>7 DEF Emit, Event, Version
  <2>2. emitted' \in [Object -> SUBSET Event]
    BY <1>7, <2>1 DEF Emit
  <2> QED
    BY <1>7, <1>f, <2>2 DEF Emit
<1>8. CASE LoseCommitReply(w)
  <2>1. faults' \in 0 .. MaxFaults
    BY <1>8 DEF LoseCommitReply, Fault
  <2> QED
    BY <1>8, <1>f, <2>1 DEF LoseCommitReply
<1>9. CASE Timeout(w)
  BY <1>9, <1>f DEF Timeout
<1> QED
  BY <1>1, <1>2, <1>3, <1>4, <1>5, <1>6, <1>7, <1>8, <1>9 DEF TaskStep

LEMMA QueueType ==
  ASSUME TypeInv, NEW S \in SUBSET Object, QueueObjects(S)
  PROVE  /\ claim' \in [Object -> Processor \cup {"absent", "unclaimed"}]
         /\ age' \in [Object -> 0 .. Expired]
         /\ older' \subseteq Object \X Object
  BY ConstantsAssumption
  DEF TypeInv, TypeOK, QueueObjects, Stamped, Expired, ClaimLimit

LEMMA StepType == TypeInv /\ [Next]_vars => TypeInv'
<1> SUFFICES ASSUME TypeInv, [Next]_vars PROVE TypeInv'
  OBVIOUS
<1> USE ConstantsAssumption DEF TypeInv, TypeOK, TaskOK, objectVars, queueVars,
          taskVars, procVars, enqVars
<1>1. ASSUME NEW p \in Processor, ProcessorStep(p) PROVE TypeInv'
  BY <1>1, ProcessorType
<1>2. ASSUME NEW w \in Worker, TaskStep(w) PROVE TypeInv'
  BY <1>2, TaskType
<1>3. ASSUME NEW e \in Enqueuer, ListObjects(e) PROVE TypeInv'
  BY <1>3 DEF ListObjects
<1>4. ASSUME NEW e \in Enqueuer, QueueListed(e) PROVE TypeInv'
  BY <1>4, QueueType DEF QueueListed
<1>5. ASSUME NEW o \in Object, EnqueueObject(o) PROVE TypeInv'
  BY <1>5, QueueType DEF EnqueueObject
<1>6. ASSUME NEW o \in Object, ForceDelete(o) PROVE TypeInv'
  BY <1>6 DEF ForceDelete
<1>7. CASE Tick
  BY <1>7 DEF Tick, Expired, ClaimLimit
<1>8. CASE UNCHANGED vars
  BY <1>8 DEF vars
<1> QED
  BY <1>1, <1>2, <1>3, <1>4, <1>5, <1>6, <1>7, <1>8 DEF Next

\* Every reachable state of the controller is well typed.
THEOREM TypeCorrect == Spec => []TypeOK
<1>1. Spec => []TypeInv
  BY InitType, StepType, PTL DEF Spec
<1> QED
  BY <1>1, PTL DEF TypeInv

(***************************************************************************)
(* The history is a chain, events are committed.                           *)
(***************************************************************************)
HistoryInv == TypeInv /\ HistoryIsChain /\ EventsAreCommitted

\* Only a won version check writes the columns this invariant is about.
LEMMA HistoryUntouched ==
  ASSUME HistoryInv, TypeInv',
         UNCHANGED <<ver, cstate, hist, emitted>>,
         \A w \in Worker : tpc'[w] = "committed" =>
           tpc[w] = "committed" /\ tobj'[w] = tobj[w] /\ tver'[w] = tver[w]
           /\ tnew'[w] = tnew[w]
  PROVE  HistoryInv'
  BY DEF HistoryInv, HistoryIsChain, EventsAreCommitted, Pending

LEMMA FinishKeepsOthers ==
  ASSUME TypeInv, NEW w \in Worker, NEW again \in BOOLEAN, Finish(w, again)
  PROVE  \A x \in Worker : tpc'[x] = "committed" =>
           x # w /\ tpc[x] = "committed" /\ tobj'[x] = tobj[x] /\ tver'[x] = tver[x]
           /\ tnew'[x] = tnew[x]
  BY DEF TypeInv, TypeOK, Finish

LEMMA TaskHistory ==
  ASSUME HistoryInv, TypeInv', NEW w \in Worker, TaskStep(w)
  PROVE  HistoryInv'
<1> TypeInv
  BY DEF HistoryInv
<1>1. CASE Start(w)
  BY <1>1, HistoryUntouched DEF Start, objectVars, TypeInv, TypeOK
<1>2. CASE Load(w)
  <2>1. CASE exists[tobj[w]]
    BY <1>2, <2>1, HistoryUntouched DEF Load, objectVars, TypeInv, TypeOK
  <2>2. CASE ~exists[tobj[w]]
    BY <1>2, <2>2, HistoryUntouched, FinishKeepsOthers DEF Load, objectVars
  <2> QED
    BY <2>1, <2>2
<1>3. CASE HandleNoTransition(w)
  BY <1>3, HistoryUntouched, FinishKeepsOthers DEF HandleNoTransition, objectVars
<1>4. CASE HandleDeleted(w)
  BY <1>4, HistoryUntouched, FinishKeepsOthers DEF HandleDeleted
<1>5. ASSUME NEW s \in State, HandleTransition(w, s)
      PROVE  HistoryInv'
  <2> DEFINE o == tobj[w]
             v == tver[w] + 1
  <2>1. o \in Object /\ ver[o] = tver[w] /\ ver[o] \in Version /\ v = ver[o] + 1
    BY <1>5 DEF HandleTransition, VersionMatches, TypeInv, TypeOK, TaskOK
  <2>2. /\ ver' = [ver EXCEPT ![o] = v]
        /\ cstate' = [cstate EXCEPT ![o] = s]
        /\ hist' = [hist EXCEPT ![o] = hist[o] \cup {<<v, s>>}]
        /\ emitted' = emitted
    BY <1>5 DEF HandleTransition
  <2>3. /\ tpc' = [tpc EXCEPT ![w] = "committed"]
        /\ tnew' = [tnew EXCEPT ![w] = s]
        /\ tobj' = tobj /\ tver' = tver
    BY <1>5 DEF HandleTransition
  <2>4. \A e \in hist[o] : e[1] < v
    BY <2>1 DEF HistoryInv, HistoryIsChain, TypeInv, TypeOK, Event, Version
  <2>5. HistoryIsChain'
    <3> SUFFICES ASSUME NEW x \in Object
                 PROVE  /\ \A e \in hist'[x] : 2 <= e[1] /\ e[1] <= ver'[x]
                        /\ \A u \in 2 .. ver'[x] : \E e \in hist'[x] : e[1] = u
                        /\ \A e, f \in hist'[x] : e[1] = f[1] => e = f
                        /\ \A e \in hist'[x] : e[1] = ver'[x] => e[2] = cstate'[x]
      BY DEF HistoryIsChain
    <3>1. CASE x # o
      BY <2>1, <2>2, <3>1 DEF HistoryInv, HistoryIsChain, TypeInv, TypeOK
    <3>2. CASE x = o
      <4>1. ver'[x] = v /\ cstate'[x] = s /\ hist'[x] = hist[o] \cup {<<v, s>>}
        BY <2>1, <2>2, <3>2 DEF TypeInv, TypeOK
      <4>2. \A e \in hist[o] : 2 <= e[1] /\ e[1] <= ver[o] /\ e[1] \in Nat
        BY <2>1 DEF HistoryInv, HistoryIsChain, TypeInv, TypeOK, Event, Version
      <4>3. \A e \in hist'[x] : 2 <= e[1] /\ e[1] <= ver'[x]
        BY <2>1, <4>1, <4>2 DEF Version
      <4>4. \A u \in 2 .. ver'[x] : \E e \in hist'[x] : e[1] = u
        <5> SUFFICES ASSUME NEW u \in 2 .. v PROVE \E e \in hist'[x] : e[1] = u
          BY <4>1
        <5>1. CASE u = v
          <6>1. <<v, s>> \in hist'[x] /\ <<v, s>>[1] = u
            BY <4>1, <5>1
          <6> QED
            BY <6>1
        <5>2. CASE u # v
          <6>1. u \in 2 .. ver[o]
            BY <2>1, <5>2 DEF Version
          <6> QED
            BY <2>1, <4>1, <6>1 DEF HistoryInv, HistoryIsChain
        <5> QED
          BY <5>1, <5>2
      <4>5. \A e, f \in hist'[x] : e[1] = f[1] => e = f
        BY <2>1, <2>4, <4>1, <4>2 DEF HistoryInv, HistoryIsChain, Version
      <4>6. \A e \in hist'[x] : e[1] = ver'[x] => e[2] = cstate'[x]
        BY <2>1, <2>4, <4>1, <4>2 DEF Version
      <4> QED
        BY <4>3, <4>4, <4>5, <4>6
    <3> QED
      BY <3>1, <3>2
  <2>6. EventsAreCommitted'
    <3>1. \A x \in Object : hist[x] \subseteq hist'[x]
      BY <2>1, <2>2 DEF TypeInv, TypeOK
    <3>2. \A x \in Object : emitted'[x] \subseteq hist'[x]
      BY <2>2, <3>1 DEF HistoryInv, EventsAreCommitted
    <3>3. \A x \in Worker : x # w /\ tpc'[x] = "committed" =>
            /\ tpc[x] = "committed" /\ tnew'[x] = tnew[x]
            /\ Pending(x)' = Pending(x) /\ tobj[x] \in Object
      BY <2>3 DEF Pending, TypeInv, TypeOK, TaskOK
    <3>4. Pending(w)' = <<v, s>>
      BY <2>3 DEF Pending, TypeInv, TypeOK
    <3>5. <<v, s>> \in hist'[o] /\ <<v, s>> \notin hist[o]
      <4>1. <<v, s>> \in hist'[o]
        BY <2>1, <2>2 DEF TypeInv, TypeOK
      <4>2. <<v, s>>[1] = v /\ ~(v < v)
        BY <2>1 DEF Version
      <4> QED
        BY <2>4, <4>1, <4>2
    <3>6. \A x \in Worker : tpc'[x] = "committed" =>
            Pending(x)' \in hist'[tobj'[x]] \ emitted'[tobj'[x]]
      <4> SUFFICES ASSUME NEW x \in Worker, tpc'[x] = "committed"
                   PROVE  Pending(x)' \in hist'[tobj'[x]] \ emitted'[tobj'[x]]
        OBVIOUS
      <4>1. CASE x = w
        BY <2>1, <2>2, <2>3, <3>4, <3>5, <4>1 DEF HistoryInv, EventsAreCommitted
      <4>2. CASE x # w
        BY <2>2, <2>3, <3>1, <3>3, <4>2 DEF HistoryInv, EventsAreCommitted
      <4> QED
        BY <4>1, <4>2
    <3>7. \A x \in Worker : x # w /\ tpc'[x] = "committed" /\ tobj[x] = o => tver[x] < tver[w]
      <4> SUFFICES ASSUME NEW x \in Worker, x # w, tpc'[x] = "committed", tobj[x] = o
                   PROVE  tver[x] < tver[w]
        OBVIOUS
      <4>1. Pending(x) \in hist[o]
        BY <3>3 DEF HistoryInv, EventsAreCommitted
      <4>2. Pending(x)[1] < v
        BY <2>4, <4>1
      <4>3. Pending(x)[1] = tver[x] + 1 /\ tver[x] \in Nat /\ tver[w] \in Nat
        BY DEF Pending, TypeInv, TypeOK
      <4> QED
        BY <4>2, <4>3
    <3>8. \A x, y \in Worker :
            tpc'[x] = "committed" /\ tpc'[y] = "committed"
            /\ tobj'[x] = tobj'[y] /\ tver'[x] = tver'[y] => x = y
      BY <2>1, <2>3, <3>3, <3>7 DEF HistoryInv, EventsAreCommitted, TypeInv, TypeOK, Version
    <3> QED
      BY <3>2, <3>6, <3>8 DEF EventsAreCommitted
  <2> QED
    BY <2>5, <2>6 DEF HistoryInv
<1>6. CASE HandleConflict(w)
  BY <1>6, HistoryUntouched, FinishKeepsOthers DEF HandleConflict, objectVars
<1>7. CASE Emit(w)
  <2>1. /\ UNCHANGED <<ver, cstate, hist>>
        /\ emitted' = [emitted EXCEPT ![tobj[w]] = emitted[tobj[w]] \cup {Pending(w)}]
        /\ tpc[w] = "committed" /\ tobj[w] \in Object
    BY <1>7 DEF Emit, Pending, objectVars, TypeInv, TaskOK
  <2>2. \A x \in Worker : tpc'[x] = "committed" =>
          /\ x # w /\ tpc[x] = "committed" /\ tobj'[x] = tobj[x] /\ tver'[x] = tver[x]
          /\ tnew'[x] = tnew[x]
    BY <1>7, FinishKeepsOthers DEF Emit
  <2>3. HistoryIsChain'
    BY <2>1 DEF HistoryInv, HistoryIsChain
  <2>4. \A o \in Object : emitted'[o] \subseteq hist'[o]
    BY <2>1 DEF HistoryInv, EventsAreCommitted, TypeInv, TypeOK
  <2>5. \A x \in Worker : tpc'[x] = "committed" =>
          Pending(x)' \in hist'[tobj'[x]] \ emitted'[tobj'[x]]
    <3> SUFFICES ASSUME NEW x \in Worker, tpc'[x] = "committed"
                 PROVE  Pending(x)' \in hist'[tobj'[x]] \ emitted'[tobj'[x]]
      OBVIOUS
    <3>1. Pending(x)' = Pending(x) /\ tobj'[x] = tobj[x] /\ tobj[x] \in Object
      BY <2>2 DEF Pending, TypeInv, TaskOK
    <3>2. Pending(x) \in hist[tobj[x]] \ emitted[tobj[x]]
      BY <2>2 DEF HistoryInv, EventsAreCommitted
    <3>3. tobj[x] = tobj[w] => Pending(x) # Pending(w)
      <4>1. tobj[x] = tobj[w] => tver[x] # tver[w]
        BY <2>1, <2>2 DEF HistoryInv, EventsAreCommitted
      <4>2. tver[x] \in Nat /\ tver[w] \in Nat
        BY DEF TypeInv, TypeOK
      <4> QED
        BY <4>1, <4>2 DEF Pending
    <3> QED
      BY <2>1, <3>1, <3>2, <3>3 DEF TypeInv, TypeOK
  <2>6. \A x, y \in Worker :
          tpc'[x] = "committed" /\ tpc'[y] = "committed"
          /\ tobj'[x] = tobj'[y] /\ tver'[x] = tver'[y] => x = y
    BY <2>2 DEF HistoryInv, EventsAreCommitted
  <2> QED
    BY <2>3, <2>4, <2>5, <2>6 DEF HistoryInv, EventsAreCommitted
<1>8. CASE LoseCommitReply(w)
  BY <1>8, HistoryUntouched, FinishKeepsOthers DEF LoseCommitReply, objectVars
<1>9. CASE Timeout(w)
  BY <1>9, HistoryUntouched, FinishKeepsOthers DEF Timeout, objectVars
<1> QED
  BY <1>1, <1>2, <1>3, <1>4, <1>5, <1>6, <1>7, <1>8, <1>9 DEF TaskStep

LEMMA StepHistory == HistoryInv /\ [Next]_vars => HistoryInv'
<1> SUFFICES ASSUME HistoryInv, [Next]_vars PROVE HistoryInv'
  OBVIOUS
<1> TypeInv /\ TypeInv'
  BY StepType DEF HistoryInv
<1>1. ASSUME NEW w \in Worker, TaskStep(w) PROVE HistoryInv'
  BY <1>1, TaskHistory
<1>2. ASSUME NEW p \in Processor, ProcessorStep(p)
      PROVE  HistoryInv'
  <2>1. UNCHANGED <<ver, cstate, hist, emitted>>
    BY <1>2 DEF ProcessorStep, AcquireOk, AcquireFails, Wait, FinalizeOk, FinalizeFails,
              Cancel, DrainJoin, Crash, Restart, objectVars
  <2> SUFFICES \A w \in Worker : tpc'[w] = "committed" =>
                 tpc[w] = "committed" /\ tobj'[w] = tobj[w] /\ tver'[w] = tver[w]
                 /\ tnew'[w] = tnew[w]
    BY <2>1, HistoryUntouched
  <2>2. CASE AcquireOk(p)
    <3>1. PICK S \in AcquireSets(p) : Dispatch(p, S)
      BY <2>2 DEF AcquireOk
    <3>2. PICK used \in SUBSET Free(p) : \E obj \in [used -> S] : Spawned(S, used, obj)
      BY <3>1, DispatchShape
    <3> QED
      BY <3>2 DEF Spawned, TypeInv, TypeOK
  <2>3. CASE JoinDone(p)
    BY <2>3 DEF JoinDone, TypeInv, TypeOK
  <2>4. CASE Crash(p)
    BY <2>4 DEF Crash, TypeInv, TypeOK
  <2>5. CASE UNCHANGED taskVars
    BY <2>5 DEF taskVars
  <2> QED
    BY <1>2, <2>2, <2>3, <2>4, <2>5
    DEF ProcessorStep, AcquireFails, Wait, FinalizeOk, FinalizeFails, Cancel, DrainJoin,
        Restart, procVars
<1>3. CASE /\ UNCHANGED <<ver, cstate, hist, emitted>>
           /\ UNCHANGED <<tpc, tobj, tver, tnew>>
  BY <1>3, HistoryUntouched
<1>4. ASSUME NEW e \in Enqueuer, ListObjects(e) \/ QueueListed(e) PROVE HistoryInv'
  BY <1>3, <1>4 DEF ListObjects, QueueListed, objectVars, taskVars
<1>5. ASSUME NEW o \in Object, EnqueueObject(o) \/ ForceDelete(o) PROVE HistoryInv'
  BY <1>3, <1>5 DEF EnqueueObject, ForceDelete, objectVars, taskVars
<1>6. CASE Tick
  BY <1>3, <1>6 DEF Tick, objectVars
<1>7. CASE UNCHANGED vars
  BY <1>3, <1>7 DEF vars, objectVars, taskVars
<1> QED
  BY <1>1, <1>2, <1>4, <1>5, <1>6, <1>7 DEF Next

LEMMA InitHistory == Init => HistoryInv
<1> SUFFICES ASSUME Init PROVE HistoryInv
  OBVIOUS
<1>1. TypeInv
  BY InitType
<1>2. HistoryIsChain
  BY DEF Init, HistoryIsChain
<1>3. EventsAreCommitted
  BY DEF Init, EventsAreCommitted
<1> QED
  BY <1>1, <1>2, <1>3 DEF HistoryInv

LEMMA HistoryInvariant == Spec => []HistoryInv
  BY InitHistory, StepHistory, PTL DEF Spec

\* However many tasks handle one object at once, the version check keeps its
\* history one gap-free chain that ends in the current state.
THEOREM HistoryChain == Spec => []HistoryIsChain
  BY HistoryInvariant, PTL DEF HistoryInv

\* Listeners hear only of transitions that were committed, each at most once.
THEOREM EventsCommitted == Spec => []EventsAreCommitted
  BY HistoryInvariant, PTL DEF HistoryInv

(***************************************************************************)
(* The controller implements ObjectHistory.                                *)
(***************************************************************************)
LEMMA InitImplements == Init => History!HistoryInit
  BY DEF Init, History!HistoryInit, Current

LEMMA StepImplements ==
  HistoryInv /\ [Next]_vars => [History!HistoryNext]_(History!historyVars)
<1> SUFFICES ASSUME HistoryInv, [Next]_vars
             PROVE  History!HistoryNext \/ UNCHANGED History!historyVars
  OBVIOUS
<1> USE DEF History!historyVars
<1> TypeInv
  BY DEF HistoryInv
<1>s. CASE UNCHANGED <<exists, ver, cstate, hist, emitted>>
  BY <1>s DEF Current
<1>1. ASSUME NEW w \in Worker, TaskStep(w)
      PROVE  History!HistoryNext \/ UNCHANGED History!historyVars
  <2>1. ASSUME NEW s \in State, HandleTransition(w, s)
        PROVE  History!HistoryNext
    <3> DEFINE o == tobj[w]
               v == tver[w] + 1
    <3>1. /\ o \in Object /\ exists[o] /\ ver[o] = tver[w] /\ tver[w] < MaxVersion
          /\ UNCHANGED <<exists, emitted>>
      BY <2>1 DEF HandleTransition, VersionMatches, TypeInv, TaskOK
    <3>2. /\ ver' = [ver EXCEPT ![o] = v]
          /\ cstate' = [cstate EXCEPT ![o] = s]
          /\ hist' = [hist EXCEPT ![o] = hist[o] \cup {<<v, s>>}]
      BY <2>1 DEF HandleTransition
    <3>3. Current' = [Current EXCEPT ![o] = <<v, s>>]
      BY <3>1, <3>2 DEF Current, TypeInv, TypeOK
    <3>4. Current[o][1] = ver[o]
      BY <3>1 DEF Current
    <3>5. History!Advance(o, s)
      BY <3>1, <3>2, <3>3, <3>4 DEF History!Advance
    <3> QED
      BY <3>1, <3>5 DEF History!HistoryNext
  <2>2. ASSUME Emit(w)
        PROVE  History!HistoryNext
    <3>1. /\ tobj[w] \in Object
          /\ Pending(w) \in hist[tobj[w]] \ emitted[tobj[w]]
      BY <2>2 DEF Emit, HistoryInv, EventsAreCommitted, TypeInv, TaskOK
    <3>2. /\ emitted' = [emitted EXCEPT ![tobj[w]] = emitted[tobj[w]] \cup {Pending(w)}]
          /\ UNCHANGED <<exists, ver, cstate, hist>>
      BY <2>2 DEF Emit, Pending, objectVars
    <3>3. History!Publish(tobj[w], Pending(w))
      BY <3>1, <3>2 DEF History!Publish, Current
    <3>4. Pending(w) \in (1 .. MaxVersion) \X State
      BY <3>1 DEF TypeInv, TypeOK, Event, Version
    <3> QED
      BY <3>1, <3>3, <3>4 DEF History!HistoryNext
  <2>3. ASSUME HandleDeleted(w)
        PROVE  History!HistoryNext
    <3>1. tobj[w] \in Object /\ History!Remove(tobj[w])
      BY <2>3 DEF HandleDeleted, History!Remove, TypeInv, TaskOK, Current
    <3> QED
      BY <3>1 DEF History!HistoryNext
  <2> QED
    BY <1>1, <1>s, <2>1, <2>2, <2>3
    DEF TaskStep, Start, Load, HandleNoTransition, HandleConflict, LoseCommitReply, Timeout,
        objectVars
<1>2. ASSUME NEW p \in Processor, ProcessorStep(p)
      PROVE  History!HistoryNext \/ UNCHANGED History!historyVars
  BY <1>2, <1>s DEF ProcessorStep, AcquireOk, AcquireFails, Wait, FinalizeOk, FinalizeFails,
            Cancel, DrainJoin, Crash, Restart, objectVars
<1>3. ASSUME NEW o \in Object, ForceDelete(o)
      PROVE  History!HistoryNext
  BY <1>3 DEF ForceDelete, History!HistoryNext, History!Remove, Current
<1>4. ASSUME NEW o \in Object, EnqueueObject(o)
      PROVE  History!HistoryNext \/ UNCHANGED History!historyVars
  BY <1>4, <1>s DEF EnqueueObject, objectVars
<1>5. ASSUME NEW e \in Enqueuer, ListObjects(e) \/ QueueListed(e)
      PROVE  History!HistoryNext \/ UNCHANGED History!historyVars
  BY <1>5, <1>s DEF ListObjects, QueueListed, objectVars
<1>6. CASE Tick \/ UNCHANGED vars
  BY <1>6, <1>s DEF Tick, vars, objectVars
<1> QED
  BY <1>1, <1>2, <1>3, <1>4, <1>5, <1>6 DEF Next

\* The state controller implements the abstract history of its objects.
THEOREM Implements == Spec => ImplementsObjectHistory
  BY InitImplements, StepImplements, HistoryInvariant, PTL
  DEF Spec, ImplementsObjectHistory, History!HistorySpec

(***************************************************************************)
(* One decider per object, as long as no outage outlasts a claim and no    *)
(* reply to a finalize commit is lost.  The claim row is what makes a task *)
(* unique, so the invariant ties every task and every completed object to  *)
(* its row, and bounds the row's age by the task's.                        *)
(***************************************************************************)
\* Timers: nothing counts without a task, and no task outlives its deadline.
TimersOK ==
  \A w \in Worker :
    /\ tpc[w] \in {"free", "done"} => tage[w] = 0
    /\ tpc[w] = "spawned" => tage[w] <= StartLag
    /\ tpc[w] \in {"started", "loaded", "committed"} => tage[w] <= MaxHandling

\* The row of a task's object is claimed by the task's processor, and is not old
\* enough to be taken over.
TaskOwnsRow ==
  \A w \in Worker :
    /\ tpc[w] # "free" => claim[tobj[w]] = w[1] /\ age[tobj[w]] <= ClaimLimit
    /\ tpc[w] = "spawned" => age[tobj[w]] <= tage[w]
    /\ tpc[w] \in {"started", "loaded", "committed"} =>
         age[tobj[w]] <= StartLag + tage[w]

OneTaskPerObject ==
  \A w, x \in Worker :
    tpc[w] # "free" /\ tpc[x] # "free" /\ tobj[w] = tobj[x] => w = x

\* The same for the objects a processor has completed: no task runs for them.
CompletedOwnsRow ==
  \A p \in Processor : \A o \in completed[p] :
    /\ claim[o] = p /\ age[o] <= ClaimLimit
    /\ \A w \in Worker : tpc[w] # "free" => tobj[w] # o

RequeueIsCompleted == \A p \in Processor : requeue[p] \subseteq completed[p]

ExclusiveInv ==
  /\ TypeInv /\ TimersOK /\ TaskOwnsRow /\ OneTaskPerObject
  /\ CompletedOwnsRow /\ RequeueIsCompleted

\* No outage outlasts a claim, and a finalize that reports an error did nothing.
NoLateSurprise == LongOutages = FALSE /\ "finalize_reply" \notin Faults

\* A row that can be taken over belongs to no task and to no completed object.
LEMMA ClaimableIsUnused ==
  ASSUME ExclusiveInv, NEW o \in Object, Claimable(o)
  PROVE  /\ \A w \in Worker : tpc[w] # "free" => tobj[w] # o
         /\ \A p \in Processor : o \notin completed[p]
<1>1. \A w \in Worker : w[1] \in Processor
  BY DEF Worker
<1>2. age[o] \in Nat /\ ClaimLimit \in Nat
  BY ConstantsAssumption DEF ExclusiveInv, TypeInv, TypeOK, ClaimLimit, Expired
<1>3. ASSUME NEW p \in Processor, claim[o] = p, age[o] <= ClaimLimit
      PROVE  FALSE
  BY <1>2, <1>3, ConstantsAssumption DEF Claimable
<1> QED
  BY <1>1, <1>3 DEF ExclusiveInv, TaskOwnsRow, CompletedOwnsRow

\* Steps that leave every task and completed object, and their rows, alone.
LEMMA RowsOfTasksKept ==
  ASSUME ExclusiveInv, TypeInv',
         UNCHANGED <<tpc, tobj, tage, completed, requeue>>,
         \A o \in Object :
           \/ claim'[o] = claim[o] /\ age'[o] = age[o]
           \/ /\ \A w \in Worker : tpc[w] # "free" => tobj[w] # o
              /\ \A p \in Processor : o \notin completed[p]
  PROVE  ExclusiveInv'
<1>t. \A w \in Worker : tpc[w] # "free" => tobj[w] \in Object
  BY DEF ExclusiveInv, TypeInv, TaskOK
<1>c. \A p \in Processor : completed[p] \subseteq Object
  BY DEF ExclusiveInv, TypeInv, TypeOK
<1>1. TimersOK' /\ OneTaskPerObject' /\ RequeueIsCompleted'
  BY DEF ExclusiveInv, TimersOK, OneTaskPerObject, RequeueIsCompleted
<1>2. TaskOwnsRow'
  BY <1>t DEF ExclusiveInv, TaskOwnsRow, TypeInv, TypeOK
<1>3. CompletedOwnsRow'
  BY <1>c DEF ExclusiveInv, CompletedOwnsRow
<1> QED
  BY <1>1, <1>2, <1>3 DEF ExclusiveInv

LEMMA ClaimRowsKeeps ==
  ASSUME ExclusiveInv, NEW p \in Processor, NEW S \in AcquireSets(p), ClaimRows(p, S)
  PROVE  \A o \in Object :
           \/ claim'[o] = claim[o] /\ age'[o] = age[o]
           \/ /\ \A w \in Worker : tpc[w] # "free" => tobj[w] # o
              /\ \A q \in Processor : o \notin completed[q]
<1>1. \A o \in S : o \in Object /\ Claimable(o)
  BY DEF AcquireSets
<1>2. \A o \in Object \ S : claim'[o] = claim[o] /\ age'[o] = age[o]
  BY DEF ClaimRows
<1> QED
  BY <1>1, <1>2, ClaimableIsUnused

LEMMA AcquireExclusive ==
  ASSUME ExclusiveInv, TypeInv', NEW p \in Processor, AcquireOk(p)
  PROVE  ExclusiveInv'
<1>1. PICK S \in AcquireSets(p) : ClaimRows(p, S) /\ Dispatch(p, S)
  BY DEF AcquireOk
<1>2. PICK used \in SUBSET Free(p) : \E obj \in [used -> S] : Spawned(S, used, obj)
  BY <1>1, DispatchShape
<1>3. PICK obj \in [used -> S] : Spawned(S, used, obj)
  BY <1>2
<1>4. \A o \in S : o \in Object /\ Claimable(o)
  BY DEF AcquireSets
<1>5. \A o \in S : /\ \A w \in Worker : tpc[w] # "free" => tobj[w] # o
                   /\ \A q \in Processor : o \notin completed[q]
  BY <1>4, ClaimableIsUnused
<1>6. \A w \in used : w \in Worker /\ tpc[w] = "free" /\ w[1] = p /\ obj[w] \in S
  BY DEF Free, SlotsOf, Worker
<1>7. \A o \in Object : /\ o \in S => claim'[o] = p /\ age'[o] = 0
                        /\ o \notin S => claim'[o] = claim[o] /\ age'[o] = age[o]
  BY <1>1 DEF ClaimRows
<1>8. /\ \A w \in used : tpc'[w] = "spawned" /\ tobj'[w] = obj[w]
      /\ \A w \in Worker \ used : tpc'[w] = tpc[w] /\ tobj'[w] = tobj[w]
      /\ UNCHANGED <<tage, completed, requeue>>
  BY <1>3, <1>6 DEF Spawned, AcquireOk
<1>9. \A w \in used : tage'[w] = 0
  BY <1>6, <1>8 DEF ExclusiveInv, TimersOK
<1>10. \A w \in Worker : tpc[w] # "free" => tobj[w] \in Object
  BY DEF ExclusiveInv, TypeInv, TaskOK
<1>11. TimersOK'
  <2> SUFFICES ASSUME NEW w \in Worker
               PROVE  /\ tpc'[w] \in {"free", "done"} => tage'[w] = 0
                      /\ tpc'[w] = "spawned" => tage'[w] <= StartLag
                      /\ tpc'[w] \in {"started", "loaded", "committed"}
                           => tage'[w] <= MaxHandling
    BY DEF TimersOK
  <2>1. CASE w \in used
    BY <1>8, <1>9, <2>1, ConstantsAssumption
  <2>2. CASE w \notin used
    BY <1>8, <2>2 DEF ExclusiveInv, TimersOK
  <2> QED
    BY <2>1, <2>2
<1>12. TaskOwnsRow'
  <2> SUFFICES ASSUME NEW w \in Worker
               PROVE  /\ tpc'[w] # "free" =>
                           claim'[tobj'[w]] = w[1] /\ age'[tobj'[w]] <= ClaimLimit
                      /\ tpc'[w] = "spawned" => age'[tobj'[w]] <= tage'[w]
                      /\ tpc'[w] \in {"started", "loaded", "committed"} =>
                           age'[tobj'[w]] <= StartLag + tage'[w]
    BY DEF TaskOwnsRow
  <2>1. CASE w \in used
    BY <1>4, <1>6, <1>7, <1>8, <1>9, <2>1, ConstantsAssumption DEF ClaimLimit
  <2>2. CASE w \notin used
    BY <1>5, <1>7, <1>8, <1>10, <2>2 DEF ExclusiveInv, TaskOwnsRow
  <2> QED
    BY <2>1, <2>2
<1>13. OneTaskPerObject'
  BY <1>3, <1>5, <1>6, <1>8 DEF ExclusiveInv, OneTaskPerObject, Spawned
<1>14. CompletedOwnsRow'
  <2>1. \A q \in Processor : completed[q] \subseteq Object
    BY DEF ExclusiveInv, TypeInv, TypeOK
  <2> QED
    BY <1>5, <1>6, <1>7, <1>8, <2>1 DEF ExclusiveInv, CompletedOwnsRow
<1>15. RequeueIsCompleted'
  BY <1>8 DEF ExclusiveInv, RequeueIsCompleted
<1> QED
  BY <1>11, <1>12, <1>13, <1>14, <1>15 DEF ExclusiveInv

LEMMA JoinExclusive ==
  ASSUME ExclusiveInv, TypeInv', NEW p \in Processor, JoinDone(p),
         UNCHANGED queueVars
  PROVE  ExclusiveInv'
<1>1. \A w \in Done(p) : /\ w \in Worker /\ tpc[w] = "done" /\ w[1] = p
                         /\ tobj[w] \in Object
  BY DEF Done, SlotsOf, Worker, ExclusiveInv, TypeInv, TaskOK
<1>2. /\ \A w \in Done(p) : tpc'[w] = "free"
      /\ \A w \in Worker \ Done(p) : tpc'[w] = tpc[w] /\ tobj'[w] = tobj[w]
      /\ tage' = tage /\ claim' = claim /\ age' = age
  BY <1>1 DEF JoinDone, queueVars
<1>3. /\ completed'[p] = completed[p] \cup {tobj[w] : w \in Done(p)}
      /\ requeue'[p] \subseteq requeue[p] \cup {tobj[w] : w \in Done(p)}
      /\ \A q \in Processor : q # p => /\ completed'[q] = completed[q]
                                       /\ requeue'[q] = requeue[q]
  BY DEF JoinDone, ExclusiveInv, TypeInv, TypeOK
<1>4. TimersOK'
  BY <1>1, <1>2 DEF ExclusiveInv, TimersOK
<1>5. TaskOwnsRow'
  BY <1>2 DEF ExclusiveInv, TaskOwnsRow
<1>6. OneTaskPerObject'
  BY <1>2 DEF ExclusiveInv, OneTaskPerObject
<1>7. CompletedOwnsRow'
  <2> SUFFICES ASSUME NEW q \in Processor, NEW o \in completed'[q]
               PROVE  /\ claim'[o] = q /\ age'[o] <= ClaimLimit
                      /\ \A w \in Worker : tpc'[w] # "free" => tobj'[w] # o
    BY DEF CompletedOwnsRow
  <2>1. CASE o \in completed[q]
    BY <1>2, <2>1 DEF ExclusiveInv, CompletedOwnsRow
  <2>2. CASE o \notin completed[q]
    <3>1. q = p
      BY <1>3, <2>2
    <3>2. PICK x \in Done(p) : o = tobj[x]
      BY <1>3, <2>2, <3>1
    <3>3. claim'[o] = q /\ age'[o] <= ClaimLimit
      BY <1>1, <1>2, <3>1, <3>2 DEF ExclusiveInv, TaskOwnsRow
    <3>4. \A w \in Worker : tpc'[w] # "free" => tobj'[w] # o
      BY <1>1, <1>2, <3>2 DEF ExclusiveInv, OneTaskPerObject
    <3> QED
      BY <3>3, <3>4
  <2> QED
    BY <2>1, <2>2
<1>8. RequeueIsCompleted'
  BY <1>3 DEF ExclusiveInv, RequeueIsCompleted
<1> QED
  BY <1>4, <1>5, <1>6, <1>7, <1>8 DEF ExclusiveInv

\* A processor forgets its completed objects, its rows of them deleted or not.
LEMMA ForgetExclusive ==
  ASSUME ExclusiveInv, TypeInv', NEW p \in Processor, UNCHANGED taskVars,
         completed' = [completed EXCEPT ![p] = {}],
         requeue' = [requeue EXCEPT ![p] = {}],
         \A o \in Object \ completed[p] : claim'[o] = claim[o] /\ age'[o] = age[o]
  PROVE  ExclusiveInv'
<1>1. \A w \in Worker : tpc[w] # "free" => tobj[w] \in Object \ completed[p]
  BY DEF ExclusiveInv, CompletedOwnsRow, TypeInv, TaskOK
<1>2. /\ completed'[p] = {} /\ requeue'[p] = {}
      /\ \A q \in Processor : q # p => /\ completed'[q] = completed[q]
                                       /\ requeue'[q] = requeue[q]
  BY DEF ExclusiveInv, TypeInv, TypeOK
<1>3. \A q \in Processor : q # p => completed[q] \subseteq Object \ completed[p]
  BY DEF ExclusiveInv, CompletedOwnsRow, TypeInv, TypeOK
<1>4. TimersOK' /\ OneTaskPerObject'
  BY DEF ExclusiveInv, TimersOK, OneTaskPerObject, taskVars
<1>5. TaskOwnsRow'
  BY <1>1 DEF ExclusiveInv, TaskOwnsRow, taskVars
<1>6. CompletedOwnsRow'
  BY <1>2, <1>3 DEF ExclusiveInv, CompletedOwnsRow, taskVars
<1>7. RequeueIsCompleted'
  BY <1>2 DEF ExclusiveInv, RequeueIsCompleted
<1> QED
  BY <1>4, <1>5, <1>6, <1>7 DEF ExclusiveInv

LEMMA CrashExclusive ==
  ASSUME ExclusiveInv, TypeInv', NEW p \in Processor, Crash(p)
  PROVE  ExclusiveInv'
<1>1. /\ \A w \in Worker : w[1] = p => tpc'[w] = "free" /\ tage'[w] = 0
      /\ \A w \in Worker : w[1] # p => /\ tpc'[w] = tpc[w] /\ tobj'[w] = tobj[w]
                                       /\ tage'[w] = tage[w]
      /\ claim' = claim /\ age' = age
  BY DEF Crash, queueVars
<1>2. /\ completed'[p] = {} /\ requeue'[p] = {}
      /\ \A q \in Processor : q # p => /\ completed'[q] = completed[q]
                                       /\ requeue'[q] = requeue[q]
  BY DEF Crash, ExclusiveInv, TypeInv, TypeOK
<1>3. TimersOK'
  BY <1>1 DEF ExclusiveInv, TimersOK
<1>4. TaskOwnsRow' /\ OneTaskPerObject'
  BY <1>1 DEF ExclusiveInv, TaskOwnsRow, OneTaskPerObject
<1>5. CompletedOwnsRow' /\ RequeueIsCompleted'
  BY <1>1, <1>2 DEF ExclusiveInv, CompletedOwnsRow, RequeueIsCompleted
<1> QED
  BY <1>3, <1>4, <1>5 DEF ExclusiveInv

LEMMA ProcessorExclusive ==
  ASSUME NoLateSurprise, ExclusiveInv, TypeInv', NEW p \in Processor, ProcessorStep(p)
  PROVE  ExclusiveInv'
<1>1. CASE AcquireOk(p)
  BY <1>1, AcquireExclusive
<1>2. CASE AcquireFails(p)
  <2>1. UNCHANGED <<tpc, tobj, tage, completed, requeue>>
    BY <1>2 DEF AcquireFails, taskVars
  <2>2. CASE UNCHANGED queueVars
    BY <2>1, <2>2, RowsOfTasksKept DEF queueVars
  <2>3. CASE \E S \in AcquireSets(p) : ClaimRows(p, S)
    BY <2>1, <2>3, RowsOfTasksKept, ClaimRowsKeeps
  <2> QED
    BY <1>2, <2>2, <2>3 DEF AcquireFails
<1>3. CASE Wait(p)
  BY <1>3, JoinExclusive DEF Wait, queueVars
<1>4. CASE DrainJoin(p)
  BY <1>4, JoinExclusive DEF DrainJoin, queueVars
<1>5. CASE FinalizeOk(p)
  <2>1. requeue[p] \subseteq completed[p]
    BY DEF ExclusiveInv, RequeueIsCompleted
  <2>2. \A o \in Object \ completed[p] : claim'[o] = claim[o] /\ age'[o] = age[o]
    BY <1>5, <2>1 DEF FinalizeOk, FinalizeRows, OwnRows
  <2> QED
    BY <1>5, <2>2, ForgetExclusive DEF FinalizeOk
<1>6. CASE FinalizeFails(p)
  <2>1. UNCHANGED queueVars /\ UNCHANGED taskVars
    BY <1>6 DEF FinalizeFails, Fault, NoLateSurprise
  <2>2. CASE pc[p] = "drain"
    BY <1>6, <2>1, <2>2, ForgetExclusive DEF FinalizeFails, queueVars
  <2>3. CASE pc[p] # "drain"
    BY <1>6, <2>1, <2>3, RowsOfTasksKept DEF FinalizeFails, queueVars, taskVars
  <2> QED
    BY <2>2, <2>3
<1>7. CASE Cancel(p)
  BY <1>7, RowsOfTasksKept DEF Cancel, queueVars, taskVars
<1>8. CASE Crash(p)
  BY <1>8, CrashExclusive
<1>9. CASE Restart(p)
  BY <1>9, RowsOfTasksKept DEF Restart, queueVars, taskVars
<1> QED
  BY <1>1, <1>2, <1>3, <1>4, <1>5, <1>6, <1>7, <1>8, <1>9 DEF ProcessorStep

\* A task step moves the task on, keeps its object, and touches no row.
LEMMA TaskExclusive ==
  ASSUME ExclusiveInv, TypeInv', NEW w \in Worker, TaskStep(w)
  PROVE  ExclusiveInv'
<1> DEFINE Running == {"started", "loaded", "committed"}
<1>1. /\ UNCHANGED <<claim, age, tobj, completed, requeue>>
      /\ \A x \in Worker : x # w => tpc'[x] = tpc[x] /\ tage'[x] = tage[x]
      /\ tpc[w] # "free" /\ tpc'[w] # "free"
  BY DEF TaskStep, Start, Load, HandleNoTransition, HandleDeleted, HandleTransition,
         HandleConflict, Emit, LoseCommitReply, Timeout, Finish, queueVars, procVars,
         ExclusiveInv, TypeInv, TypeOK
<1>2. \/ tpc[w] = "spawned" /\ tpc'[w] = "started" /\ tage'[w] = 0
      \/ tpc[w] \in Running /\ tpc'[w] \in Running /\ tage'[w] = tage[w]
      \/ tpc[w] \in Running /\ tpc'[w] = "done" /\ tage'[w] = 0
  BY DEF TaskStep, Start, Load, HandleNoTransition, HandleDeleted, HandleTransition,
         HandleConflict, Emit, LoseCommitReply, Timeout, Finish,
         ExclusiveInv, TypeInv, TypeOK
<1>3. tobj[w] \in Object /\ age[tobj[w]] \in Nat /\ tage[w] \in Nat
  BY <1>1 DEF ExclusiveInv, TypeInv, TypeOK, TaskOK
<1>4. TimersOK'
  BY <1>1, <1>2, <1>3, ConstantsAssumption DEF ExclusiveInv, TimersOK
<1>5. TaskOwnsRow'
  <2> SUFFICES ASSUME NEW x \in Worker
               PROVE  /\ tpc'[x] # "free" =>
                           claim'[tobj'[x]] = x[1] /\ age'[tobj'[x]] <= ClaimLimit
                      /\ tpc'[x] = "spawned" => age'[tobj'[x]] <= tage'[x]
                      /\ tpc'[x] \in Running => age'[tobj'[x]] <= StartLag + tage'[x]
    BY DEF TaskOwnsRow
  <2>1. CASE x # w
    BY <1>1, <2>1 DEF ExclusiveInv, TaskOwnsRow
  <2>2. CASE x = w
    <3>1. claim'[tobj'[w]] = w[1] /\ age'[tobj'[w]] <= ClaimLimit
      BY <1>1 DEF ExclusiveInv, TaskOwnsRow
    <3>2. tpc'[w] \in Running => age'[tobj'[w]] <= StartLag + tage'[w]
      BY <1>1, <1>2, <1>3, ConstantsAssumption DEF ExclusiveInv, TaskOwnsRow, TimersOK
    <3> QED
      BY <1>2, <2>2, <3>1, <3>2
  <2> QED
    BY <2>1, <2>2
<1>6. OneTaskPerObject'
  BY <1>1 DEF ExclusiveInv, OneTaskPerObject
<1>7. CompletedOwnsRow' /\ RequeueIsCompleted'
  BY <1>1 DEF ExclusiveInv, CompletedOwnsRow, RequeueIsCompleted
<1> QED
  BY <1>4, <1>5, <1>6, <1>7 DEF ExclusiveInv

LEMMA TickExclusive ==
  ASSUME NoLateSurprise, ExclusiveInv, TypeInv', Tick
  PROVE  ExclusiveInv'
<1>1. /\ UNCHANGED <<claim, tpc, tobj, completed, requeue>>
      /\ \A o \in Object : age'[o] \in {age[o], age[o] + 1}
      /\ \A w \in Worker : tage'[w] = IF Active(w) THEN tage[w] + 1 ELSE tage[w]
  BY DEF Tick, procVars
<1>2. /\ \A o \in Object : age[o] \in Nat
      /\ \A w \in Worker : tage[w] \in Nat
      /\ \A w \in Worker : tpc[w] # "free" => tobj[w] \in Object
      /\ \A w \in Worker : w[1] \in Processor /\ (tpc[w] = "done" => w \in Done(w[1]))
      /\ ClaimLimit \in Nat /\ ClaimLimit = 3 * MaxHandling
      /\ \A p \in Processor : completed[p] \subseteq Object
  BY ConstantsAssumption
  DEF ExclusiveInv, TypeInv, TypeOK, TaskOK, Worker, Done, SlotsOf, ClaimLimit, Expired
<1>3. /\ \A w \in Worker : tpc[w] = "spawned" => tage[w] < StartLag
      /\ \A w \in Worker : tpc[w] \in {"started", "loaded", "committed"}
                             => tage[w] < MaxHandling
  BY DEF Tick, OnTime
<1>4. \A p \in Processor : \A o \in Unfinalized(p) : claim[o] = p => age[o] < ClaimLimit
  BY DEF Tick, OnTime, NoLateSurprise
<1>5. TimersOK'
  <2>1. \A w \in Worker : tpc[w] \in {"free", "done"} => ~Active(w)
    BY DEF Active
  <2> QED
    BY <1>1, <1>2, <1>3, <2>1, ConstantsAssumption DEF ExclusiveInv, TimersOK
<1>6. TaskOwnsRow'
  <2> SUFFICES ASSUME NEW w \in Worker, tpc[w] # "free"
               PROVE  /\ claim[tobj[w]] = w[1] /\ age'[tobj[w]] <= ClaimLimit
                      /\ tpc[w] = "spawned" => age'[tobj[w]] <= tage'[w]
                      /\ tpc[w] \in {"started", "loaded", "committed"} =>
                           age'[tobj[w]] <= StartLag + tage'[w]
    BY <1>1 DEF TaskOwnsRow
  <2>1. claim[tobj[w]] = w[1]
    BY DEF ExclusiveInv, TaskOwnsRow
  <2>2. CASE tpc[w] = "spawned"
    <3>1. age[tobj[w]] <= tage[w] /\ tage'[w] = tage[w] + 1
      BY <1>1, <2>2 DEF ExclusiveInv, TaskOwnsRow, Active
    <3> QED
      BY <1>1, <1>2, <1>3, <2>1, <2>2, <3>1, ConstantsAssumption, StartLagAssumption
  <2>3. CASE tpc[w] \in {"started", "loaded", "committed"}
    <3>1. age[tobj[w]] <= StartLag + tage[w] /\ tage'[w] = tage[w] + 1
      BY <1>1, <2>3 DEF ExclusiveInv, TaskOwnsRow, Active
    <3> QED
      BY <1>1, <1>2, <1>3, <2>1, <2>3, <3>1, ConstantsAssumption, StartLagAssumption
  <2>4. CASE tpc[w] = "done"
    <3>1. tobj[w] \in Unfinalized(w[1])
      BY <1>2, <2>4 DEF Unfinalized
    <3>2. age[tobj[w]] < ClaimLimit
      BY <1>2, <1>4, <2>1, <3>1
    <3> QED
      BY <1>1, <1>2, <2>1, <2>4, <3>2
  <2> QED
    BY <2>2, <2>3, <2>4 DEF ExclusiveInv, TypeInv, TypeOK, TaskPC
<1>7. OneTaskPerObject' /\ RequeueIsCompleted'
  BY <1>1 DEF ExclusiveInv, OneTaskPerObject, RequeueIsCompleted
<1>8. CompletedOwnsRow'
  <2> SUFFICES ASSUME NEW p \in Processor, NEW o \in completed[p]
               PROVE  /\ claim[o] = p /\ age'[o] <= ClaimLimit
                      /\ \A w \in Worker : tpc[w] # "free" => tobj[w] # o
    BY <1>1 DEF CompletedOwnsRow
  <2>1. claim[o] = p /\ \A w \in Worker : tpc[w] # "free" => tobj[w] # o
    BY DEF ExclusiveInv, CompletedOwnsRow
  <2>2. age[o] < ClaimLimit /\ o \in Object
    BY <1>2, <1>4, <2>1 DEF Unfinalized
  <2> QED
    BY <1>1, <1>2, <2>1, <2>2
<1> QED
  BY <1>5, <1>6, <1>7, <1>8 DEF ExclusiveInv

LEMMA QueueExclusive ==
  ASSUME ExclusiveInv, TypeInv', NEW S, QueueObjects(S),
         UNCHANGED taskVars, UNCHANGED procVars
  PROVE  ExclusiveInv'
<1>1. \A o \in Object : claim[o] # "absent" => claim'[o] = claim[o] /\ age'[o] = age[o]
  BY DEF QueueObjects
<1>2. \A w \in Worker : w[1] \in Processor
  BY DEF Worker
<1>3. \A o \in Object : claim[o] = "absent" =>
        /\ \A w \in Worker : tpc[w] # "free" => tobj[w] # o
        /\ \A p \in Processor : o \notin completed[p]
  BY <1>2, ConstantsAssumption DEF ExclusiveInv, TaskOwnsRow, CompletedOwnsRow
<1> QED
  BY <1>1, <1>3, RowsOfTasksKept DEF taskVars, procVars

LEMMA StepExclusive ==
  ASSUME NoLateSurprise
  PROVE  ExclusiveInv /\ [Next]_vars => ExclusiveInv'
<1> SUFFICES ASSUME ExclusiveInv, [Next]_vars PROVE ExclusiveInv'
  OBVIOUS
<1> TypeInv'
  BY StepType DEF ExclusiveInv
<1>1. ASSUME NEW p \in Processor, ProcessorStep(p) PROVE ExclusiveInv'
  BY <1>1, ProcessorExclusive
<1>2. ASSUME NEW w \in Worker, TaskStep(w) PROVE ExclusiveInv'
  BY <1>2, TaskExclusive
<1>3. ASSUME NEW e \in Enqueuer, ListObjects(e) PROVE ExclusiveInv'
  BY <1>3, RowsOfTasksKept DEF ListObjects, queueVars, taskVars, procVars
<1>4. ASSUME NEW e \in Enqueuer, QueueListed(e) PROVE ExclusiveInv'
  BY <1>4, QueueExclusive DEF QueueListed
<1>5. ASSUME NEW o \in Object, EnqueueObject(o) PROVE ExclusiveInv'
  BY <1>5, QueueExclusive DEF EnqueueObject
<1>6. ASSUME NEW o \in Object, ForceDelete(o) PROVE ExclusiveInv'
  BY <1>6, RowsOfTasksKept DEF ForceDelete, queueVars, taskVars, procVars
<1>7. CASE Tick
  BY <1>7, TickExclusive
<1>8. CASE UNCHANGED vars
  BY <1>8, RowsOfTasksKept DEF vars, queueVars, taskVars, procVars
<1> QED
  BY <1>1, <1>2, <1>3, <1>4, <1>5, <1>6, <1>7, <1>8 DEF Next

LEMMA InitExclusive == Init => ExclusiveInv
  BY InitType, ConstantsAssumption
  DEF Init, ExclusiveInv, TimersOK, TaskOwnsRow, OneTaskPerObject, CompletedOwnsRow,
      RequeueIsCompleted

\* If no database outage outlasts a claim and no finalize's reply is lost, at
\* most one task in the whole site decides the next step of an object, however
\* the processors, crashes, restarts and other faults interleave.
THEOREM OneDecider ==
  ASSUME NoLateSurprise
  PROVE  Spec => []SingleDecider
<1>1. ExclusiveInv => SingleDecider
  BY DEF ExclusiveInv, OneTaskPerObject, SingleDecider, Active
<1> QED
  BY <1>1, InitExclusive, StepExclusive, PTL DEF Spec

\* Under the same assumption the assertion in finalize_completed_objects holds.
THEOREM FinalizeAssertion ==
  ASSUME NoLateSurprise
  PROVE  Spec => []FinalizeDeletesEveryRow
<1>1. ExclusiveInv => FinalizeDeletesEveryRow
  BY DEF ExclusiveInv, CompletedOwnsRow, FinalizeDeletesEveryRow, OwnRows
<1> QED
  BY <1>1, InitExclusive, StepExclusive, PTL DEF Spec

\* No step of anyone ends a claim that is neither expired nor finished by its
\* owner, however long the outages and whatever replies are lost
\* (acquire_queued_objects, delete_queued_objects, queue_objects).
THEOREM ClaimsEnd == Spec => ClaimsEndByOwnerOrExpiry
<1> DEFINE Ends == \A o \in Object, p \in Processor :
              claim[o] = p /\ claim'[o] # p => age[o] > ClaimLimit \/ o \in completed[p]
<1>n. "absent" \notin Processor /\ "unclaimed" \notin Processor
  BY ConstantsAssumption
<1>1. ASSUME [Next]_vars PROVE Ends
  <2>u. ASSUME claim' = claim PROVE Ends
    BY <2>u
  <2>q. ASSUME NEW S, QueueObjects(S) PROVE Ends
    BY <2>q, <1>n DEF QueueObjects
  <2>c. ASSUME NEW p \in Processor, NEW S \in AcquireSets(p), ClaimRows(p, S) PROVE Ends
    BY <2>c, <1>n DEF ClaimRows, AcquireSets, Claimable
  <2>f. ASSUME NEW p \in Processor, FinalizeRows(p) PROVE Ends
    BY <2>f, <1>n DEF FinalizeRows, OwnRows
  <2>1. ASSUME NEW p \in Processor, ProcessorStep(p) PROVE Ends
    <3>1. CASE AcquireOk(p)
      BY <3>1, <2>c DEF AcquireOk
    <3>2. CASE AcquireFails(p)
      BY <3>2, <2>c, <2>u DEF AcquireFails, queueVars
    <3>3. CASE FinalizeOk(p)
      BY <3>3, <2>f DEF FinalizeOk
    <3>4. CASE FinalizeFails(p)
      BY <3>4, <2>f, <2>u DEF FinalizeFails, queueVars
    <3>5. CASE Wait(p) \/ Cancel(p) \/ DrainJoin(p) \/ Crash(p) \/ Restart(p)
      BY <3>5, <2>u DEF Wait, Cancel, DrainJoin, Crash, Restart, queueVars
    <3> QED
      BY <2>1, <3>1, <3>2, <3>3, <3>4, <3>5 DEF ProcessorStep
  <2>2. ASSUME NEW w \in Worker, TaskStep(w) PROVE Ends
    <3>1. claim' = claim
      BY <2>2 DEF TaskStep, Start, Load, HandleNoTransition, HandleDeleted, HandleTransition,
                  HandleConflict, Emit, LoseCommitReply, Timeout, queueVars
    <3> QED
      BY <3>1, <2>u
  <2>3. ASSUME NEW e \in Enqueuer, ListObjects(e) \/ QueueListed(e) PROVE Ends
    BY <2>3, <2>q, <2>u DEF ListObjects, QueueListed, queueVars
  <2>4. ASSUME NEW o \in Object, EnqueueObject(o) \/ ForceDelete(o) PROVE Ends
    BY <2>4, <2>q, <2>u DEF EnqueueObject, ForceDelete, queueVars
  <2>5. CASE Tick \/ UNCHANGED vars
    BY <2>5, <2>u DEF Tick, vars, queueVars
  <2> HIDE DEF Ends
  <2> QED
    BY <1>1, <2>1, <2>2, <2>3, <2>4, <2>5 DEF Next
<1>2. [Next]_vars => [\A o \in Object, p \in Processor :
        claim[o] = p /\ claim'[o] # p => age[o] > ClaimLimit \/ o \in completed[p]]_vars
  BY <1>1
<1> QED
  BY <1>2, PTL DEF Spec, ClaimsEndByOwnerOrExpiry

(***************************************************************************)
(* Draining.                                                               *)
(***************************************************************************)
\* p has a task for o in its JoinSet, or o is among its completed objects.
InHand(p, o) ==
  \/ \E w \in Worker : w[1] = p /\ tpc[w] # "free" /\ tobj[w] = o
  \/ o \in completed[p]

ClaimsInHand == \A o \in Object, p \in Processor : claim[o] = p => InHand(p, o)

Draining == \E q \in Processor : pc[q] = "drain"

\* Nothing has failed: at most one processor was cancelled, and is draining.
Untroubled == faults = 0 \/ (faults = 1 /\ Draining)

\* A drain begins with a counted cancellation.  Until something else fails every
\* claimed row is one that its processor remembers.
DrainInv ==
  /\ TypeInv
  /\ Draining => faults # 0
  /\ Untroubled => ClaimsInHand

LEMMA InitDrain == Init => DrainInv
<1> SUFFICES ASSUME Init PROVE DrainInv
  OBVIOUS
<1>1. ~Draining
  BY DEF Init, Draining
<1>2. ClaimsInHand
  BY ConstantsAssumption DEF Init, ClaimsInHand
<1> QED
  BY <1>1, <1>2, InitType DEF DrainInv

\* Only a cancellation starts a drain.
LEMMA DrainStarts ==
  ASSUME TypeInv, [Next]_vars, Draining'
  PROVE  Draining \/ \E p \in Processor : Cancel(p)
<1>1. PICK q \in Processor : pc'[q] = "drain"
  BY DEF Draining
<1> SUFFICES ASSUME \A p \in Processor : ~Cancel(p) PROVE pc[q] = "drain"
  BY DEF Draining
<1>t. pc \in [Processor -> ProcPC]
  BY DEF TypeInv, TypeOK
<1>2. CASE pc' = pc
  BY <1>1, <1>2
<1>3. ASSUME NEW p \in Processor, ProcessorStep(p) PROVE pc[q] = "drain"
  <2>1. CASE pc'[q] = pc[q]
    BY <1>1, <2>1
  <2>2. CASE \E x \in {"wait", "finalize", "dispatch", "stopped"} : pc' = [pc EXCEPT ![p] = x]
    BY <1>1, <1>t, <2>2
  <2>3. CASE FinalizeOk(p)
    BY <1>t, <2>1, <2>2, <2>3 DEF FinalizeOk
  <2>4. CASE FinalizeFails(p)
    BY <1>t, <2>1, <2>2, <2>4 DEF FinalizeFails
  <2> QED
    BY <1>3, <2>1, <2>2, <2>3, <2>4
    DEF ProcessorStep, AcquireOk, AcquireFails, Wait, DrainJoin, Crash, Restart
<1>4. ASSUME NEW w \in Worker, TaskStep(w) PROVE pc' = pc
  BY <1>4 DEF TaskStep, Start, Load, HandleNoTransition, HandleDeleted, HandleTransition,
              HandleConflict, Emit, LoseCommitReply, Timeout, procVars
<1> QED
  BY <1>2, <1>3, <1>4
  DEF Next, ListObjects, QueueListed, EnqueueObject, ForceDelete, Tick, vars, procVars

LEMMA FaultsGrow ==
  ASSUME [Next]_vars
  PROVE  faults' = faults \/ faults' = faults + 1
<1>1. ASSUME NEW p \in Processor, ProcessorStep(p) PROVE faults' = faults \/ faults' = faults + 1
  BY <1>1 DEF ProcessorStep, AcquireOk, AcquireFails, Wait, FinalizeOk, FinalizeFails,
              Cancel, DrainJoin, Crash, Restart, Fault
<1>2. ASSUME NEW w \in Worker, TaskStep(w) PROVE faults' = faults \/ faults' = faults + 1
  BY <1>2 DEF TaskStep, Start, Load, HandleNoTransition, HandleDeleted, HandleTransition,
              HandleConflict, Emit, LoseCommitReply, Timeout, Fault
<1> QED
  BY <1>1, <1>2 DEF Next, ListObjects, QueueListed, EnqueueObject, ForceDelete, Tick, vars

\* A step into an untroubled state is no fault but a cancellation.
LEMMA StaysUntroubled ==
  ASSUME DrainInv, [Next]_vars, Untroubled'
  PROVE  /\ Untroubled
         /\ \A kind \in FaultKind : Fault(kind) => \E p \in Processor : Cancel(p)
<1>t. TypeInv /\ faults \in Nat /\ faults' \in Nat
  <2>1. TypeInv /\ TypeInv'
    BY StepType DEF DrainInv
  <2> QED
    BY <2>1, ConstantsAssumption DEF TypeInv, TypeOK
<1>1. faults' = faults \/ faults' = faults + 1
  BY FaultsGrow
<1>2. CASE faults' = 0
  BY <1>t, <1>1, <1>2 DEF Untroubled, Fault
<1>3. CASE faults' = 1 /\ Draining'
  <2>1. CASE faults' = faults + 1
    <3>1. faults = 0
      BY <1>t, <1>3, <2>1
    <3>2. ~Draining
      BY <3>1 DEF DrainInv
    <3> QED
      BY <1>t, <1>3, <3>1, <3>2, DrainStarts DEF Untroubled
  <2>2. CASE faults' = faults
    <3>1. \A kind \in FaultKind : ~Fault(kind)
      BY <1>t, <2>2 DEF Fault
    <3>2. \A p \in Processor : ~Cancel(p)
      BY <3>1 DEF Cancel, FaultKind
    <3> QED
      BY <1>t, <1>3, <2>2, <3>1, <3>2, DrainStarts DEF Untroubled
  <2> QED
    BY <1>1, <2>1, <2>2
<1> QED
  BY <1>2, <1>3 DEF Untroubled

\* Rows are claimed by nobody new, and what was in hand stays so.
LEMMA InHandFrame ==
  ASSUME ClaimsInHand,
         \A o \in Object : claim'[o] = claim[o] \/ claim'[o] \notin Processor,
         \A w \in Worker : tpc[w] # "free" => tpc'[w] # "free" /\ tobj'[w] = tobj[w],
         completed' = completed
  PROVE  ClaimsInHand'
  BY DEF ClaimsInHand, InHand

LEMMA FinalizeInHand ==
  ASSUME TypeInv, ClaimsInHand, NEW p \in Processor, FinalizeOk(p)
  PROVE  /\ ClaimsInHand'
         /\ pc[p] = "drain" => \A o \in Object : claim'[o] # p
<1>n. "absent" \notin Processor /\ "unclaimed" \notin Processor
  BY ConstantsAssumption
<1>1. /\ UNCHANGED <<tpc, tobj>>
      /\ \A q \in Processor : q # p => completed'[q] = completed[q]
      /\ pc[p] = "drain" => Free(p) = SlotsOf(p)
      /\ FinalizeRows(p)
  BY DEF FinalizeOk, taskVars, TypeInv, TypeOK
<1>2. ASSUME NEW o \in Object, NEW q \in Processor, claim'[o] = q
      PROVE  claim[o] = q /\ (q = p => o \notin completed[p])
  BY <1>1, <1>2, <1>n DEF FinalizeRows, OwnRows
<1>3. ClaimsInHand'
  <2> SUFFICES ASSUME NEW o \in Object, NEW q \in Processor, claim'[o] = q PROVE InHand(q, o)'
    BY DEF ClaimsInHand
  <2>1. InHand(q, o) /\ (q = p => o \notin completed[p])
    BY <1>2 DEF ClaimsInHand
  <2> QED
    BY <1>1, <2>1 DEF InHand
<1>4. ASSUME pc[p] = "drain", NEW o \in Object PROVE claim'[o] # p
  <2> SUFFICES ASSUME claim'[o] = p PROVE FALSE
    OBVIOUS
  <2>1. InHand(p, o) /\ o \notin completed[p]
    BY <1>2 DEF ClaimsInHand
  <2>2. PICK w \in Worker : w[1] = p /\ tpc[w] # "free"
    BY <2>1 DEF InHand
  <2>3. w \in SlotsOf(p)
    BY <2>2 DEF Worker, SlotsOf
  <2> QED
    BY <1>1, <1>4, <2>2, <2>3 DEF Free
<1> QED
  BY <1>3, <1>4

LEMMA ProcessorInHand ==
  ASSUME TypeInv, ClaimsInHand, NEW p \in Processor,
         \/ AcquireOk(p) \/ Wait(p) \/ DrainJoin(p) \/ FinalizeOk(p) \/ Cancel(p) \/ Restart(p)
  PROVE  ClaimsInHand'
<1>1. CASE AcquireOk(p)
  <2>1. PICK S \in AcquireSets(p) : ClaimRows(p, S) /\ Dispatch(p, S)
    BY <1>1 DEF AcquireOk
  <2>2. PICK used \in SUBSET Free(p) : \E obj \in [used -> S] : Spawned(S, used, obj)
    BY <2>1, DispatchShape
  <2>3. PICK obj \in [used -> S] : Spawned(S, used, obj)
    BY <2>2
  <2>4. \A w \in used : w \in Worker /\ tpc[w] = "free" /\ w[1] = p
    BY DEF Free, SlotsOf, Worker
  <2>5. /\ \A w \in used : tpc'[w] = "spawned" /\ tobj'[w] = obj[w]
        /\ \A w \in Worker \ used : tpc'[w] = tpc[w] /\ tobj'[w] = tobj[w]
        /\ completed' = completed
    BY <1>1, <2>3, <2>4 DEF Spawned, AcquireOk
  <2> SUFFICES ASSUME NEW o \in Object, NEW q \in Processor, claim'[o] = q PROVE InHand(q, o)'
    BY DEF ClaimsInHand
  <2>6. CASE o \in S
    <3>1. q = p
      BY <2>1, <2>6 DEF ClaimRows
    <3>2. PICK w \in used : obj[w] = o
      BY <2>3, <2>6 DEF Spawned
    <3>3. w \in Worker /\ w[1] = q /\ tpc'[w] # "free" /\ tobj'[w] = o
      BY <2>4, <2>5, <3>1, <3>2
    <3> QED
      BY <3>3 DEF InHand
  <2>7. CASE o \notin S
    <3>1. InHand(q, o)
      BY <2>1, <2>7 DEF ClaimRows, ClaimsInHand
    <3> QED
      BY <2>4, <2>5, <3>1 DEF InHand
  <2> QED
    BY <2>6, <2>7
<1>2. CASE Wait(p) \/ DrainJoin(p)
  <2>1. JoinDone(p) /\ claim' = claim
    BY <1>2 DEF Wait, DrainJoin, queueVars
  <2>2. /\ \A w \in Done(p) : w \in Worker /\ w[1] = p
        /\ \A w \in Worker \ Done(p) : tpc'[w] = tpc[w] /\ tobj'[w] = tobj[w]
        /\ completed'[p] = completed[p] \cup {tobj[w] : w \in Done(p)}
        /\ \A q \in Processor : completed[q] \subseteq completed'[q]
    BY <2>1 DEF JoinDone, Done, SlotsOf, Worker, TypeInv, TypeOK
  <2> SUFFICES ASSUME NEW o \in Object, NEW q \in Processor, claim'[o] = q PROVE InHand(q, o)'
    BY DEF ClaimsInHand
  <2>3. InHand(q, o)
    BY <2>1 DEF ClaimsInHand
  <2>4. ASSUME NEW w \in Worker, w[1] = q, tpc[w] # "free", tobj[w] = o PROVE InHand(q, o)'
    <3>1. CASE w \in Done(p)
      BY <2>2, <2>4, <3>1 DEF InHand
    <3>2. CASE w \notin Done(p)
      BY <2>2, <2>4, <3>2 DEF InHand
    <3> QED
      BY <3>1, <3>2
  <2> QED
    BY <2>2, <2>3, <2>4 DEF InHand
<1>3. CASE Cancel(p) \/ Restart(p)
  BY <1>3, InHandFrame DEF Cancel, Restart, queueVars, taskVars
<1> QED
  BY <1>1, <1>2, <1>3, FinalizeInHand

LEMMA StepDrain == DrainInv /\ [Next]_vars => DrainInv'
<1> SUFFICES ASSUME DrainInv, [Next]_vars PROVE DrainInv'
  OBVIOUS
<1>t. TypeInv /\ TypeInv'
  BY StepType DEF DrainInv
<1>1. Draining' => faults' # 0
  <2> SUFFICES ASSUME Draining', faults' = 0 PROVE FALSE
    OBVIOUS
  <2>1. Untroubled'
    BY DEF Untroubled
  <2>2. faults \in Nat
    BY <1>t, ConstantsAssumption DEF TypeInv, TypeOK
  <2>3. \A p \in Processor : ~Cancel(p)
    BY <2>2 DEF Cancel, Fault
  <2>4. Draining /\ Untroubled
    BY <1>t, <2>1, <2>3, DrainStarts, StaysUntroubled
  <2>5. faults = 1
    BY <2>4 DEF DrainInv, Untroubled
  <2>6. faults' = faults \/ faults' = faults + 1
    BY FaultsGrow
  <2> QED
    BY <2>5, <2>6
<1>2. ASSUME Untroubled' PROVE ClaimsInHand'
  <2>1. ClaimsInHand /\ \A kind \in FaultKind : Fault(kind) => \E p \in Processor : Cancel(p)
    BY <1>2, StaysUntroubled DEF DrainInv
  <2>2. CASE \E p \in Processor : Cancel(p)
    BY <1>t, <2>1, <2>2, ProcessorInHand
  <2>3. CASE \A p \in Processor : ~Cancel(p)
    <3>n. "absent" \notin Processor /\ "unclaimed" \notin Processor
      BY ConstantsAssumption
    <3>f. \A kind \in FaultKind : ~Fault(kind)
      BY <2>1, <2>3
    <3>q. ASSUME NEW S, QueueObjects(S), UNCHANGED <<taskVars, completed>> PROVE ClaimsInHand'
      BY <2>1, <3>n, <3>q, InHandFrame DEF QueueObjects, taskVars
    <3>u. ASSUME UNCHANGED <<claim, tpc, tobj, completed>> PROVE ClaimsInHand'
      BY <2>1, <3>u, InHandFrame
    <3>1. ASSUME NEW p \in Processor, ProcessorStep(p) PROVE ClaimsInHand'
      <4>1. ~AcquireFails(p) /\ ~FinalizeFails(p) /\ ~Crash(p)
        BY <3>f DEF AcquireFails, FinalizeFails, Crash, FaultKind
      <4> QED
        BY <1>t, <2>1, <3>1, <4>1, ProcessorInHand DEF ProcessorStep
    <3>2. ASSUME NEW w \in Worker, TaskStep(w) PROVE ClaimsInHand'
      <4>1. /\ claim' = claim /\ completed' = completed /\ tobj' = tobj
            /\ tpc[w] # "free"
            /\ \E x \in TaskPC \ {"free"} : tpc' = [tpc EXCEPT ![w] = x]
        BY <3>2 DEF TaskStep, Start, Load, HandleNoTransition, HandleDeleted, HandleTransition,
                    HandleConflict, Emit, LoseCommitReply, Timeout, Finish, queueVars, procVars,
                    TaskPC
      <4>2. \A x \in Worker : tpc[x] # "free" => tpc'[x] # "free" /\ tobj'[x] = tobj[x]
        BY <1>t, <4>1 DEF TypeInv, TypeOK
      <4> QED
        BY <2>1, <4>1, <4>2, InHandFrame
    <3>3. ASSUME NEW e \in Enqueuer, ListObjects(e) \/ QueueListed(e) PROVE ClaimsInHand'
      BY <3>3, <3>q, <3>u DEF ListObjects, QueueListed, queueVars, taskVars, procVars
    <3>4. ASSUME NEW o \in Object, EnqueueObject(o) \/ ForceDelete(o) PROVE ClaimsInHand'
      BY <3>4, <3>q, <3>u DEF EnqueueObject, ForceDelete, queueVars, taskVars, procVars
    <3>5. CASE Tick \/ UNCHANGED vars
      BY <3>5, <3>u DEF Tick, vars, queueVars, taskVars, procVars
    <3> QED
      BY <3>1, <3>2, <3>3, <3>4, <3>5 DEF Next
  <2> QED
    BY <2>2, <2>3
<1> QED
  BY <1>t, <1>1, <1>2 DEF DrainInv

\* A processor that was cancelled drains completely: when it stops no row of the
\* queue table names it, whatever the other processors, the enqueuers and the
\* handlers did meanwhile, also to rows it lost by expiry (StateProcessor::drain).
THEOREM DrainIsComplete == Spec => DrainLeavesNoClaim
<1>1. ASSUME DrainInv, [Next]_vars, NEW p \in Processor,
             pc[p] = "drain", pc'[p] = "stopped", faults = 1, faults' = 1
      PROVE  \A o \in Object : claim'[o] # p
  <2>t. TypeInv /\ pc \in [Processor -> ProcPC]
    BY <1>1 DEF DrainInv, TypeInv, TypeOK
  <2>1. ClaimsInHand
    BY <1>1 DEF DrainInv, Untroubled, Draining
  <2>f. \A kind \in FaultKind : ~Fault(kind)
    BY <1>1 DEF Fault
  <2>2. pc' # pc
    BY <1>1
  <2>3. ASSUME NEW q \in Processor, ProcessorStep(q) PROVE q = p /\ FinalizeOk(p)
    <3>1. ~AcquireFails(q) /\ ~FinalizeFails(q) /\ ~Crash(q) /\ ~Cancel(q)
      BY <2>f DEF AcquireFails, FinalizeFails, Crash, Cancel, FaultKind
    <3>2. AcquireOk(q) \/ Wait(q) \/ FinalizeOk(q) \/ DrainJoin(q) \/ Restart(q)
      BY <2>3, <3>1 DEF ProcessorStep
    <3>3. q = p
      BY <1>1, <2>t, <3>2 DEF AcquireOk, Wait, FinalizeOk, DrainJoin, Restart
    <3> QED
      BY <1>1, <2>t, <3>2, <3>3 DEF AcquireOk, Wait, DrainJoin, Restart
  <2>4. ASSUME NEW w \in Worker, TaskStep(w) PROVE pc' = pc
    BY <2>4 DEF TaskStep, Start, Load, HandleNoTransition, HandleDeleted, HandleTransition,
                HandleConflict, Emit, LoseCommitReply, Timeout, procVars
  <2>5. FinalizeOk(p)
    BY <1>1, <2>2, <2>3, <2>4
    DEF Next, ListObjects, QueueListed, EnqueueObject, ForceDelete, Tick, vars, procVars
  <2> QED
    BY <1>1, <2>t, <2>1, <2>5, FinalizeInHand
<1>2. DrainInv /\ [Next]_vars =>
        [\A p \in Processor :
           pc[p] = "drain" /\ pc'[p] = "stopped" /\ faults = 1 /\ faults' = 1
             => \A o \in Object : claim'[o] # p]_vars
  BY <1>1
<1> QED
  BY <1>2, InitDrain, StepDrain, PTL DEF Spec, DrainLeavesNoClaim
=============================================================================
