------------------------- MODULE WorkLockTimeProofs --------------------------
(***************************************************************************)
(* Proofs about the time a lease of WorkLock lasts: a prompt server keeps  *)
(* the leases it holds.  They build on the inductive invariant that        *)
(* WorkLockProofs establishes.                                             *)
(***************************************************************************)
EXTENDS WorkLockProofs, FiniteSetTheorems

(***************************************************************************)
(* Commands in flight.                                                     *)
(***************************************************************************)
At(m, i) ==
  \/ cur[i] # NoCommand /\ m = cur[i]
  \/ \E n \in 1 .. Len(queue[i]) : m = queue[i][n]

Same(m, o) == m.op = o.op /\ m.id = o.id /\ m.key = o.key /\ m.from = o.from

LEMMA AtGood ==
  ASSUME TypeInv, NEW i \in Instance, NEW m, At(m, i)
  PROVE  m \in GoodCommand
  BY Current, Element DEF At, TypeInv

LEMMA AtKept ==
  ASSUME KeepInv, NEW i \in Instance, NEW m, At(m, i), m.op = "keepalive"
  PROVE  loop[m.id] = "sent" /\ owner[m.id] \in Caller /\ Home[owner[m.id]] = i
<1>1. KeptBy(m, i, loop, owner)
  BY DEF At, KeepInv
<1> QED
  BY <1>1 DEF KeptBy

LEMMA AtUnused ==
  ASSUME TypeInv, NEW id \in WorkerId, Unused(id), NEW i \in Instance, NEW m, At(m, i)
  PROVE  m.id # id
<1>1. DOMAIN queue[i] = 1 .. Len(queue[i])
  BY DEF TypeInv
<1>2. m \in InFlight
  BY <1>1 DEF At, InFlight, Queued
<1> QED
  BY <1>2 DEF Unused

\* Commands leave when nothing is sent.
LEMMA AtLeft ==
  ASSUME \A j \in Instance : cur'[j] = cur[j] \/ cur'[j] = NoCommand,
         \A j \in Instance : queue'[j] = queue[j] \/ queue'[j] = <<>>,
         NEW i \in Instance, NEW m, At(m, i)'
  PROVE  At(m, i)
<1>1. CASE queue'[i] = queue[i]
  BY <1>1 DEF At
<1>2. CASE queue'[i] = <<>>
  <2>1. Len(queue'[i]) = 0
    BY <1>2
  <2> QED
    BY <2>1 DEF At
<1> QED
  BY <1>1, <1>2

LEMMA AtSent ==
  ASSUME TypeInv, NEW j \in Instance, NEW o \in GoodCommand, Send(j, o), cur' = cur,
         NEW i \in Instance, NEW m, At(m, i)'
  PROVE  At(m, i) \/ (i = j /\ m = o)
<1>1. CASE i # j
  <2>1. queue'[i] = queue[i]
    BY <1>1, SendType
  <2> QED
    BY <2>1 DEF At
<1>2. CASE i = j
  <2>1. /\ Len(queue'[i]) = Len(queue[i]) + 1
        /\ Len(queue[i]) \in Nat
        /\ queue'[i][Len(queue[i]) + 1] = o
        /\ \A n \in 1 .. Len(queue[i]) : queue'[i][n] = queue[i][n]
    BY <1>2, SendType
  <2> QED
    BY <1>2, <2>1 DEF At
<1> QED
  BY <1>1, <1>2

LEMMA AtTaken ==
  ASSUME TypeInv, NEW j \in Instance, TakeCommand(j), NEW i \in Instance, NEW m, At(m, i)'
  PROVE  At(m, i)
<1>1. /\ queue[j] \in Seq(GoodCommand)
      /\ queue[j] # <<>>
      /\ queue'[j] = Tail(queue[j])
      /\ cur'[j] = NoCommand \/ cur'[j] = Head(queue[j])
      /\ \A k \in Instance : k # j => cur'[k] = cur[k] /\ queue'[k] = queue[k]
  BY DEF TakeCommand, TypeInv
<1>2. /\ Len(queue[j]) \in Nat \ {0}
      /\ Len(queue'[j]) = Len(queue[j]) - 1
      /\ cur'[j] = NoCommand \/ cur'[j] = queue[j][1]
      /\ \A n \in 1 .. Len(queue'[j]) : n + 1 \in 1 .. Len(queue[j]) /\ queue'[j][n] = queue[j][n + 1]
  BY <1>1, Shifted
<1>3. CASE i # j
  BY <1>1, <1>3 DEF At
<1>4. CASE i = j
  <2>1. CASE cur'[i] # NoCommand /\ m = cur'[i]
    <3>1. 1 \in 1 .. Len(queue[i]) /\ m = queue[i][1]
      BY <1>2, <1>4, <2>1
    <3> QED
      BY <3>1 DEF At
  <2>2. ASSUME NEW n \in 1 .. Len(queue'[i]), m = queue'[i][n] PROVE At(m, i)
    <3>1. n + 1 \in 1 .. Len(queue[i]) /\ m = queue[i][n + 1]
      BY <1>2, <1>4, <2>2
    <3> QED
      BY <3>1 DEF At
  <2> QED
    BY <2>1, <2>2 DEF At
<1> QED
  BY <1>3, <1>4

LEMMA AtCancelled ==
  ASSUME TypeInv, NEW c \in Caller, Cancel(c), NEW i \in Instance, NEW m, At(m, i)'
  PROVE  \E o \in GoodCommand : At(o, i) /\ Same(o, m)
<1>1. /\ cur'[i] = Closed(cur[i], c)
      /\ Len(queue'[i]) = Len(queue[i])
      /\ \A n \in 1 .. Len(queue[i]) : queue'[i][n] = Closed(queue[i][n], c)
  BY CancelShape
<1>2. ASSUME NEW o \in GoodCommand, m = Closed(o, c) PROVE Same(o, m)
  <2>1. /\ Closed(o, c).op = o.op
        /\ Closed(o, c).id = o.id
        /\ Closed(o, c).key = o.key
        /\ Closed(o, c).from = o.from
    BY ClosedGood
  <2> QED
    BY <1>2, <2>1 DEF Same
<1>3. CASE cur'[i] # NoCommand /\ m = cur'[i]
  <2>1. cur[i] # NoCommand /\ cur[i] \in GoodCommand
    BY <1>1, <1>3, ClosedNothing DEF TypeInv
  <2> QED
    BY <1>1, <1>2, <1>3, <2>1 DEF At
<1>4. ASSUME NEW n \in 1 .. Len(queue'[i]), m = queue'[i][n]
      PROVE  \E o \in GoodCommand : At(o, i) /\ Same(o, m)
  <2>1. queue[i][n] \in GoodCommand /\ n \in 1 .. Len(queue[i])
    BY <1>1, Element DEF TypeInv
  <2> QED
    BY <1>1, <1>2, <1>4, <2>1 DEF At
<1> QED
  BY <1>3, <1>4 DEF At

\* The keepalive that an instance executes is the only one of its loop.
LEMMA AtAlone ==
  ASSUME TypeInv, KeepInv, NEW j \in Instance, cur[j] # NoCommand, cur[j].op = "keepalive",
         Finished(j), NEW i \in Instance, NEW m, At(m, i)', m.op = "keepalive"
  PROVE  m.id # cur[j].id
<1>1. /\ queue' = queue
      /\ cur'[j] = NoCommand
      /\ \A k \in Instance : k # j => cur'[k] = cur[k]
  BY TypedBefore DEF Finished, Typed
<1>2. At(m, i)
  BY <1>1, AtLeft
<1>3. At(cur[j], j)
  BY DEF At
<1>4. CASE i # j
  BY <1>2, <1>3, <1>4, AtKept
<1>5. CASE i = j
  <2>1. PICK n \in 1 .. Len(queue[j]) : m = queue[j][n]
    BY <1>1, <1>5 DEF At
  <2>2. cur[j].id \in WorkerId
    BY Current
  <2> QED
    BY <2>1, <2>2 DEF KeepInv, IsKeepalive
<1> QED
  BY <1>4, <1>5

(***************************************************************************)
(* What a command in flight may do: a release never names a lease that a   *)
(* caller has, and a keepalive names the key of its loop's caller.         *)
(***************************************************************************)
Fit(m, ids, own) ==
  /\ m.op = "release" => \A c \in Caller : ids[c] # m.id
  /\ m.op = "keepalive" => m.key = KeyOf[own[m.id]]

FitInv == \A i \in Instance : \A m \in GoodCommand : At(m, i) => Fit(m, cid, owner)

LEMMA InitFit == Init => FitInv
<1> SUFFICES ASSUME Init, NEW i \in Instance, NEW m \in GoodCommand, At(m, i) PROVE FALSE
  BY DEF FitInv
<1>1. cur[i] = NoCommand /\ Len(queue[i]) = 0
  BY DEF Init
<1> QED
  BY <1>1 DEF At

\* No caller gets the id of a command in flight, and a loop with a keepalive in
\* flight keeps its owner.
LEMMA FitStays ==
  ASSUME TypeInv, KeepInv, FitInv, NEW i \in Instance, NEW m \in GoodCommand, At(m, i),
         \A c \in Caller : cid'[c] \in {cid[c], NoId} \/ cid'[c] # m.id,
         m.op = "keepalive" => owner'[m.id] = owner[m.id]
  PROVE  Fit(m, cid', owner')
<1>1. Fit(m, cid, owner)
  BY DEF FitInv
<1>2. m.op = "release" => m.id \in WorkerId /\ m.id # NoId
  BY WorkLockAssumption DEF GoodCommand
<1> QED
  BY <1>1, <1>2 DEF Fit

LEMMA FitFrame ==
  ASSUME TypeInv, KeepInv, FitInv,
         \A i \in Instance : \A m \in GoodCommand : At(m, i)' => At(m, i),
         \A c \in Caller : cid'[c] \in {cid[c], NoId},
         \A i \in Instance : \A m \in GoodCommand :
           At(m, i)' /\ m.op = "keepalive" => owner'[m.id] = owner[m.id]
  PROVE  FitInv'
<1> SUFFICES ASSUME NEW i \in Instance, NEW m \in GoodCommand, At(m, i)'
             PROVE  Fit(m, cid', owner')
  BY DEF FitInv, Fit
<1> QED
  BY FitStays

LEMMA CallerFit ==
  ASSUME IInv, FitInv, NEW c \in Caller, CallerStep(c)
  PROVE  FitInv'
<1>t. TypeInv /\ Typed /\ IdInv /\ KeepInv
  BY TypedBefore DEF IInv
<1>h. Home[c] \in Instance
  BY WorkLockAssumption
<1>1. CASE Ask(c)
  <2>1. AcquireBy(c) \in GoodCommand /\ Send(Home[c], AcquireBy(c)) /\ cur' = cur
    BY <1>1, <1>t, SentAreGood DEF Ask, AcquireBy
  <2>2. cid' = cid /\ owner' = owner
    BY <1>1 DEF Ask, loopVars
  <2> SUFFICES ASSUME NEW i \in Instance, NEW m \in GoodCommand, At(m, i)'
               PROVE  Fit(m, cid', owner')
    BY DEF FitInv, Fit
  <2>3. CASE At(m, i)
    BY <1>t, <2>2, <2>3, FitStays
  <2>4. CASE m = AcquireBy(c)
    BY <2>4 DEF Fit, AcquireBy
  <2> QED
    BY <1>t, <1>h, <2>1, <2>3, <2>4, AtSent
<1>2. CASE Poll(c)
  <2>1. /\ cur' = cur /\ queue' = queue /\ cid' = cid
        /\ owner' = [owner EXCEPT ![cid[c]] = c]
        /\ cpc[c] = "granted"
    BY <1>2 DEF Poll, managerVars
  <2>2. \A i \in Instance : \A m \in GoodCommand : At(m, i)' => At(m, i)
    BY <2>1, AtLeft
  <2>3. cid[c] \in WorkerId /\ loop[cid[c]] = "none"
    BY <1>t, <2>1 DEF IdInv
  <2>4. ASSUME NEW i \in Instance, NEW m \in GoodCommand, At(m, i)', m.op = "keepalive"
        PROVE  owner'[m.id] = owner[m.id]
    <3>1. loop[m.id] = "sent" /\ m.id \in WorkerId
      BY <1>t, <2>2, <2>4, AtKept DEF GoodCommand
    <3> QED
      BY <1>t, <2>1, <2>3, <3>1 DEF Typed
  <2> QED
    BY <1>t, <2>1, <2>2, <2>4, FitFrame
<1>3. CASE Cancel(c)
  <2>1. owner' = owner /\ cid' = [cid EXCEPT ![c] = NoId]
    BY <1>3 DEF Cancel, loopVars
  <2>2. \A d \in Caller : cid'[d] \in {cid[d], NoId}
    BY <1>t, <2>1 DEF Typed
  <2> SUFFICES ASSUME NEW i \in Instance, NEW m \in GoodCommand, At(m, i)'
               PROVE  Fit(m, cid', owner')
    BY DEF FitInv, Fit
  <2>3. PICK o \in GoodCommand : At(o, i) /\ Same(o, m)
    BY <1>3, <1>t, AtCancelled
  <2>4. Fit(o, cid', owner')
    BY <1>t, <2>1, <2>2, <2>3, FitStays
  <2> QED
    BY <2>3, <2>4 DEF Fit, Same
<1>4. CASE FenceTransaction(c)
  <2>1. cur' = cur /\ queue' = queue /\ cid' = cid /\ owner' = owner
    BY <1>4 DEF FenceTransaction, managerVars, callerVars, loopVars
  <2> QED
    BY <1>t, <2>1, AtLeft, FitFrame
<1>5. ASSUME NEW wait \in BOOLEAN, Release(c, wait) PROVE FitInv'
  <2>1. ReleaseBy(c, wait) \in GoodCommand /\ Send(Home[c], ReleaseBy(c, wait)) /\ cur' = cur
    BY <1>5, <1>t, SentAreGood DEF Release, ReleaseBy
  <2>2. cid' = [cid EXCEPT ![c] = NoId] /\ owner' = owner /\ cpc[c] = "holding"
    BY <1>5 DEF Release
  <2>3. \A d \in Caller : cid'[d] \in {cid[d], NoId}
    BY <1>t, <2>2 DEF Typed
  <2> SUFFICES ASSUME NEW i \in Instance, NEW m \in GoodCommand, At(m, i)'
               PROVE  Fit(m, cid', owner')
    BY DEF FitInv, Fit
  <2>4. CASE At(m, i)
    BY <1>t, <2>2, <2>3, <2>4, FitStays
  <2>5. CASE m = ReleaseBy(c, wait)
    <3>1. cid[c] \in WorkerId /\ \A d \in Caller : d # c => cid[d] # cid[c]
      BY <1>t, <2>2 DEF IdInv
    <3>2. \A d \in Caller : cid'[d] # cid[c]
      BY <1>t, <2>2, <3>1, WorkLockAssumption DEF Typed
    <3> QED
      BY <2>5, <3>2 DEF Fit, ReleaseBy
  <2> QED
    BY <1>t, <1>h, <2>1, <2>4, <2>5, AtSent
<1> QED
  BY <1>1, <1>2, <1>3, <1>4, <1>5 DEF CallerStep

LEMMA LoopFit ==
  ASSUME IInv, FitInv, NEW id \in WorkerId, LoopStep(id)
  PROVE  FitInv'
<1>t. TypeInv /\ Typed /\ IdInv /\ KeepInv
  BY TypedBefore DEF IInv
<1>1. CASE KeepaliveTick(id)
  <2>1. cur' = cur /\ queue' = queue /\ cid' = cid /\ owner' = owner
    BY <1>1 DEF KeepaliveTick, managerVars, callerVars
  <2> QED
    BY <1>t, <2>1, AtLeft, FitFrame
<1>2. CASE KeepaliveSend(id) /\ queue' = queue
  <2>1. cur' = cur /\ queue' = queue /\ cid' = cid /\ owner' = owner
    BY <1>2 DEF KeepaliveSend, callerVars
  <2> QED
    BY <1>t, <2>1, AtLeft, FitFrame
<1>3. CASE KeepaliveSend(id) /\ queue' # queue
  <2>1. /\ Send(Home[owner[id]], KeepaliveBy(id))
        /\ cur' = cur /\ cid' = cid /\ owner' = owner
        /\ loop[id] = "due"
    BY <1>3 DEF KeepaliveSend, KeepaliveBy, callerVars
  <2>2. Home[owner[id]] \in Instance /\ KeepaliveBy(id) \in GoodCommand
    BY <1>t, <2>1, SentAreGood, WorkLockAssumption DEF KeepInv
  <2> SUFFICES ASSUME NEW i \in Instance, NEW m \in GoodCommand, At(m, i)'
               PROVE  Fit(m, cid', owner')
    BY DEF FitInv, Fit
  <2>3. CASE At(m, i)
    BY <1>t, <2>1, <2>3, FitStays
  <2>4. CASE m = KeepaliveBy(id)
    BY <2>1, <2>4 DEF Fit, KeepaliveBy
  <2> QED
    BY <1>t, <2>1, <2>2, <2>3, <2>4, AtSent
<1>4. CASE LoopStops(id)
  <2>1. cur' = cur /\ queue' = queue /\ cid' = cid /\ loop[id] = "idle"
    BY <1>4 DEF LoopStops, managerVars, callerVars
  <2>2. \A o \in WorkerId : o # id => owner'[o] = owner[o]
    BY <1>4 DEF LoopStops, LoopsEnd
  <2>3. \A i \in Instance : \A m \in GoodCommand : At(m, i)' => At(m, i)
    BY <2>1, AtLeft
  <2>4. ASSUME NEW i \in Instance, NEW m \in GoodCommand, At(m, i)', m.op = "keepalive"
        PROVE  owner'[m.id] = owner[m.id]
    <3>1. loop[m.id] = "sent" /\ m.id \in WorkerId
      BY <1>t, <2>3, <2>4, AtKept DEF GoodCommand
    <3> QED
      BY <2>1, <2>2, <3>1
  <2> QED
    BY <1>t, <2>1, <2>3, <2>4, FitFrame
<1> QED
  BY <1>1, <1>2, <1>3, <1>4 DEF LoopStep

LEMMA ManagerFit ==
  ASSUME IInv, FitInv, NEW j \in Instance, ManagerStep(j)
  PROVE  FitInv'
<1>t. TypeInv /\ Typed /\ IdInv /\ KeepInv /\ ReplyInv
  BY TypedBefore DEF IInv
<1>f. ASSUME Finished(j)
      PROVE  \A i \in Instance : \A m \in GoodCommand : At(m, i)' => At(m, i)
  <2>1. queue' = queue /\ \A k \in Instance : cur'[k] = cur[k] \/ cur'[k] = NoCommand
    BY <1>f, <1>t DEF Finished, Typed
  <2> QED
    BY <2>1, AtLeft
<1>e. ASSUME Finished(j), cid' = cid, owner' = owner PROVE FitInv'
  BY <1>e, <1>f, <1>t, FitFrame
<1>1. CASE TakeCommand(j)
  <2>1. \A i \in Instance : \A m \in GoodCommand : At(m, i)' => At(m, i)
    BY <1>1, <1>t, AtTaken
  <2>2. cid' = cid /\ owner' = owner
    BY <1>1 DEF TakeCommand, callerVars, loopVars
  <2> QED
    BY <1>t, <2>1, <2>2, FitFrame
<1>2. CASE ServeAcquire(j)
  <2>1. Finished(j) /\ owner' = owner
    BY <1>2 DEF ServeAcquire, loopVars
  <2>2. CASE cid' = cid
    BY <1>e, <2>1, <2>2
  <2>3. ASSUME NEW id \in WorkerId, Unused(id), cid' = [cid EXCEPT ![cur[j].from] = id]
        PROVE  FitInv'
    <3> SUFFICES ASSUME NEW i \in Instance, NEW m \in GoodCommand, At(m, i)'
                 PROVE  Fit(m, cid', owner')
      BY DEF FitInv, Fit
    <3>1. At(m, i) /\ m.id # id
      BY <1>t, <1>f, <2>1, <2>3, AtUnused
    <3>2. \A c \in Caller : cid'[c] \in {cid[c], NoId} \/ cid'[c] # m.id
      BY <1>t, <2>3, <3>1 DEF Typed
    <3> QED
      BY <1>t, <2>1, <3>1, <3>2, FitStays
  <2> QED
    BY <1>2, <2>2, <2>3 DEF ServeAcquire, Answered, callerVars
<1>3. CASE ServeRelease(j)
  BY <1>3, <1>e DEF ServeRelease, Answered, loopVars
<1>4. CASE ServeKeepalive(j)
  <2>1. Finished(j) /\ cid' = cid /\ cur[j] # NoCommand /\ cur[j].op = "keepalive"
    BY <1>4 DEF ServeKeepalive, callerVars, Executing
  <2>2. \A o \in WorkerId : o # cur[j].id => owner'[o] = owner[o]
    BY <1>4 DEF ServeKeepalive, LoopsEnd
  <2>3. ASSUME NEW i \in Instance, NEW m \in GoodCommand, At(m, i)', m.op = "keepalive"
        PROVE  owner'[m.id] = owner[m.id]
    <3>1. m.id # cur[j].id /\ m.id \in WorkerId
      BY <1>t, <2>1, <2>3, AtAlone DEF GoodCommand
    <3> QED
      BY <2>2, <3>1
  <2> QED
    BY <1>t, <1>f, <2>1, <2>3, FitFrame
<1>5. CASE StatementFails(j)
  BY <1>5, <1>e DEF StatementFails, ErrorReply, Answered
<1>6. CASE ReplyLost(j)
  BY <1>6, <1>e DEF ReplyLost, ErrorReply, Answered
<1>7. CASE Crash(j)
  <2>1. /\ queue'[j] = <<>> /\ \A i \in Instance : i # j => queue'[i] = queue[i]
        /\ cur'[j] = NoCommand /\ \A i \in Instance : i # j => cur'[i] = cur[i]
        /\ \A c \in Caller : cid'[c] \in {cid[c], NoId}
    BY <1>7, <1>t DEF Crash, Typed
  <2>2. \A i \in Instance : \A m \in GoodCommand : At(m, i)' => At(m, i)
    BY <2>1, AtLeft
  <2>3. \A o \in WorkerId : owner[o] \in Caller /\ Home[owner[o]] # j => owner'[o] = owner[o]
    BY <1>7 DEF Crash, LoopsEnd
  <2>4. ASSUME NEW i \in Instance, NEW m \in GoodCommand, At(m, i)', m.op = "keepalive"
        PROVE  owner'[m.id] = owner[m.id]
    <3>1. i # j
      <4>1. Len(queue'[j]) = 0
        BY <2>1
      <4> QED
        BY <2>1, <2>4, <4>1 DEF At
    <3>2. owner[m.id] \in Caller /\ Home[owner[m.id]] = i /\ m.id \in WorkerId
      BY <1>t, <2>2, <2>4, AtKept DEF GoodCommand
    <3> QED
      BY <2>3, <3>1, <3>2
  <2> QED
    BY <1>t, <2>1, <2>2, <2>4, FitFrame
<1> QED
  BY <1>1, <1>2, <1>3, <1>4, <1>5, <1>6, <1>7 DEF ManagerStep, Serve

LEMMA StepFit == IInv /\ FitInv /\ [Next]_vars => FitInv'
<1> SUFFICES ASSUME IInv, FitInv, [Next]_vars PROVE FitInv'
  OBVIOUS
<1>t. TypeInv /\ KeepInv
  BY DEF IInv
<1>u. ASSUME cur' = cur, queue' = queue, cid' = cid, owner' = owner PROVE FitInv'
  BY <1>t, <1>u, AtLeft, FitFrame
<1>1. ASSUME NEW k \in Key, EndTransaction(k) PROVE FitInv'
  BY <1>1, <1>u DEF EndTransaction, managerVars, callerVars, loopVars
<1>2. CASE Tick
  BY <1>2, <1>u DEF Tick, managerVars, callerVars
<1>3. CASE UNCHANGED vars
  BY <1>3, <1>u DEF vars, managerVars, callerVars, loopVars
<1> QED
  BY <1>1, <1>2, <1>3, CallerFit, LoopFit, ManagerFit DEF Next

(***************************************************************************)
(* The age of the lease of a caller at a prompt server.                    *)
(***************************************************************************)
\* The failures so far, in ticks: each may cost a keepalive an interval.
Lost(n) == n * Interval

\* The lease of c is its own.  Between keepalives its age is the time since the
\* timer ticked, and one interval more for every fault so far.
Lasting(c) ==
  /\ cpc[c] = "granted" => row[KeyOf[c]] = cid[c] /\ age[KeyOf[c]] = 0
  /\ cpc[c] = "holding" =>
       /\ row[KeyOf[c]] = cid[c]
       /\ loop[cid[c]] # "none"
       /\ owner[cid[c]] = c
       /\ ~stop[cid[c]]
       /\ loop[cid[c]] = "idle" => age[KeyOf[c]] <= ktime[cid[c]] + Lost(faults)
       /\ loop[cid[c]] # "idle" => /\ ktime[cid[c]] = 0
                                   /\ age[KeyOf[c]] <= Interval + Lost(faults)

TimelyInv == \A c \in Caller : Home[c] \in Prompt => Lasting(c)

\* Fewer faults than the timeout has intervals.
Enough == (MaxFaults + 1) * Interval <= KeepaliveTimeout

\* Whenever a keepalive of a prompt server's lease is due that the lease needs,
\* the manager's queue has a slot for it.
SlotsFree ==
  \A c \in Caller :
    cpc[c] = "holding" /\ Home[c] \in Prompt /\ loop[cid[c]] = "due" /\ age[KeyOf[c]] > 0 =>
      HasSlot(Home[c])

LEMMA LostTime ==
  /\ \A n \in Nat : Lost(n) \in Nat /\ Lost(n + 1) = Lost(n) + Interval
  /\ Enough => \A n \in 0 .. MaxFaults : Interval + Lost(n) <= KeepaliveTimeout
<1>1. ASSUME NEW n \in Nat PROVE Lost(n) \in Nat /\ Lost(n + 1) = Lost(n) + Interval
  BY WorkLockAssumption DEF Lost
<1>2. ASSUME Enough, NEW n \in 0 .. MaxFaults PROVE Interval + Lost(n) <= KeepaliveTimeout
  <2>1. PICK d \in Nat : MaxFaults = n + d
    <3>1. MaxFaults - n \in Nat /\ MaxFaults = n + (MaxFaults - n)
      BY WorkLockAssumption
    <3> QED
      BY <3>1
  <2>2. (MaxFaults + 1) * Interval = Interval + n * Interval + d * Interval
    BY <2>1, WorkLockAssumption
  <2>3. n * Interval \in Nat /\ d * Interval \in Nat /\ Interval \in Nat
    BY <2>1, WorkLockAssumption
  <2> QED
    BY <1>2, <2>2, <2>3, WorkLockAssumption DEF Enough, Lost
<1> QED
  BY <1>1, <1>2

\* A lease at a prompt server never expires.
LEMMA NeverExpired ==
  ASSUME IInv, TimelyInv, Enough, NEW c \in Caller, Home[c] \in Prompt,
         cpc[c] \in {"granted", "holding"}
  PROVE  /\ row[KeyOf[c]] = cid[c] /\ cid[c] \in WorkerId
         /\ KeyOf[c] \in Key
         /\ ~(age[KeyOf[c]] > KeepaliveTimeout)
         /\ \A i \in Instance : ~MayTake(i, KeyOf[c])
<1>t. Typed /\ IdInv
  BY TypedBefore DEF IInv
<1>1. Lasting(c)
  BY DEF TimelyInv
<1>2. KeyOf[c] \in Key /\ cid[c] \in WorkerId
  BY <1>t, WorkLockAssumption DEF IdInv
<1>3. /\ age[KeyOf[c]] \in Nat /\ ktime[cid[c]] \in 0 .. Interval
      /\ faults \in 0 .. MaxFaults /\ faults \in Nat
  BY <1>t, <1>2, WorkLockAssumption DEF Typed, Expired
<1>4. Lost(faults) \in Nat /\ Interval + Lost(faults) <= KeepaliveTimeout
  BY <1>3, LostTime
<1>5. ~(age[KeyOf[c]] > KeepaliveTimeout)
  BY <1>1, <1>3, <1>4, WorkLockAssumption DEF Lasting
<1>6. row[KeyOf[c]] = cid[c]
  BY <1>1 DEF Lasting
<1> QED
  BY <1>2, <1>5, <1>6, WorkLockAssumption DEF MayTake

\* A step that leaves c, its row and its loop alone.
LEMMA LastingFrame ==
  ASSUME IInv, NEW c \in Caller, Lasting(c),
         cpc'[c] = cpc[c], cid'[c] = cid[c],
         faults' \in Nat, faults' = faults \/ faults' = faults + 1,
         cpc[c] \in {"granted", "holding"} =>
           /\ row'[KeyOf[c]] = row[KeyOf[c]]
           /\ age'[KeyOf[c]] = age[KeyOf[c]] \/ age'[KeyOf[c]] = 0,
         cpc[c] = "holding" =>
           /\ loop'[cid[c]] = loop[cid[c]] /\ stop'[cid[c]] = stop[cid[c]]
           /\ owner'[cid[c]] = owner[cid[c]] /\ ktime'[cid[c]] = ktime[cid[c]]
  PROVE  Lasting(c)'
<1>t. Typed /\ IdInv
  BY TypedBefore DEF IInv
<1>1. CASE cpc[c] = "holding"
  <2>1. KeyOf[c] \in Key /\ cid[c] \in WorkerId
    BY <1>1, <1>t, WorkLockAssumption DEF IdInv
  <2>2. age[KeyOf[c]] \in Nat /\ ktime[cid[c]] \in Nat /\ faults \in Nat /\ Interval \in Nat
    BY <1>t, <2>1, WorkLockAssumption DEF Typed, Expired
  <2>3. Lost(faults) \in Nat /\ Lost(faults') \in Nat /\ Lost(faults) <= Lost(faults')
    BY <2>2, LostTime
  <2>4. age'[KeyOf[c]] \in Nat /\ age'[KeyOf[c]] <= age[KeyOf[c]]
    BY <1>1, <2>2
  <2>5. /\ loop[cid[c]] = "idle" => age'[KeyOf[c]] <= ktime[cid[c]] + Lost(faults')
        /\ loop[cid[c]] # "idle" => age'[KeyOf[c]] <= Interval + Lost(faults')
    BY <1>1, <2>2, <2>3, <2>4 DEF Lasting
  <2> QED
    BY <1>1, <2>5 DEF Lasting
<1>2. CASE cpc[c] # "holding"
  BY <1>2 DEF Lasting
<1> QED
  BY <1>1, <1>2

LEMMA CallerTimely ==
  ASSUME IInv, TimelyInv, NEW d \in Caller, CallerStep(d), NEW c \in Caller, Home[c] \in Prompt
  PROVE  Lasting(c)'
<1>t. Typed /\ IdInv
  BY TypedBefore DEF IInv
<1>l. Lasting(c)
  BY DEF TimelyInv
<1>n. faults \in Nat /\ faults + 1 \in Nat
  BY <1>t, WorkLockAssumption DEF Typed
<1>i. cpc[c] \in {"granted", "holding"} => cid[c] \in WorkerId /\ (d # c => cid[d] # cid[c])
  BY <1>t DEF IdInv
<1>1. CASE Ask(d)
  <2>1. /\ UNCHANGED <<row, age, cid, loop, stop, owner, ktime, faults>>
        /\ cpc[d] = "idle" /\ cpc' = [cpc EXCEPT ![d] = "asking"]
    BY <1>1 DEF Ask, tableVars, loopVars
  <2>2. CASE d = c
    BY <1>t, <2>1, <2>2 DEF Lasting, Typed
  <2>3. CASE d # c
    <3>1. cpc'[c] = cpc[c]
      BY <1>t, <2>1, <2>3 DEF Typed
    <3> QED
      BY <1>l, <1>n, <2>1, <3>1, LastingFrame
  <2> QED
    BY <2>2, <2>3
<1>2. CASE Poll(d)
  <2>1. /\ UNCHANGED <<row, age, cid, faults>>
        /\ cpc[d] = "granted" /\ cpc' = [cpc EXCEPT ![d] = "holding"]
        /\ loop' = [loop EXCEPT ![cid[d]] = "idle"]
        /\ stop' = [stop EXCEPT ![cid[d]] = FALSE]
        /\ owner' = [owner EXCEPT ![cid[d]] = d]
        /\ ktime' = [ktime EXCEPT ![cid[d]] = Interval]
    BY <1>2 DEF Poll, tableVars
  <2>2. CASE d = c
    <3>1. cid[c] \in WorkerId
      BY <1>i, <2>1, <2>2
    <3>2. /\ cpc'[c] = "holding" /\ cid'[c] = cid[c] /\ loop'[cid[c]] = "idle"
          /\ owner'[cid[c]] = c /\ ktime'[cid[c]] = Interval
          /\ row'[KeyOf[c]] = cid[c] /\ age'[KeyOf[c]] = 0 /\ faults' = faults
      BY <1>t, <1>l, <2>1, <2>2, <3>1 DEF Typed, Lasting
    <3>3. ~stop'[cid[c]]
      BY <1>t, <2>1, <2>2, <3>1 DEF Typed
    <3>4. Lost(faults) \in Nat /\ Interval \in Nat
      BY <1>n, LostTime, WorkLockAssumption
    <3>5. age'[KeyOf[c]] <= ktime'[cid[c]] + Lost(faults')
      BY <3>2, <3>4
    <3> QED
      BY <3>2, <3>3, <3>5 DEF Lasting
  <2>3. CASE d # c
    <3>1. cpc'[c] = cpc[c]
      BY <1>t, <2>1, <2>3 DEF Typed
    <3>2. cpc[c] = "holding" =>
            /\ loop'[cid[c]] = loop[cid[c]] /\ stop'[cid[c]] = stop[cid[c]]
            /\ owner'[cid[c]] = owner[cid[c]] /\ ktime'[cid[c]] = ktime[cid[c]]
      BY <1>t, <1>i, <2>1, <2>3 DEF Typed
    <3> QED
      BY <1>l, <1>n, <2>1, <3>1, <3>2, LastingFrame
  <2> QED
    BY <2>2, <2>3
<1>3. CASE Cancel(d)
  <2>1. /\ UNCHANGED <<row, age, loop, stop, owner, ktime>>
        /\ cpc' = [cpc EXCEPT ![d] = "idle"] /\ cid' = [cid EXCEPT ![d] = NoId]
        /\ faults' = faults + 1
    BY <1>3 DEF Cancel, Fault, tableVars, loopVars
  <2>2. CASE d = c
    BY <1>t, <2>1, <2>2 DEF Lasting, Typed
  <2>3. CASE d # c
    <3>1. cpc'[c] = cpc[c] /\ cid'[c] = cid[c]
      BY <1>t, <2>1, <2>3 DEF Typed
    <3> QED
      BY <1>l, <1>n, <2>1, <3>1, LastingFrame
  <2> QED
    BY <2>2, <2>3
<1>4. CASE FenceTransaction(d)
  <2>1. UNCHANGED <<row, age, cpc, cid, loop, stop, owner, ktime, faults>>
    BY <1>4 DEF FenceTransaction, callerVars, loopVars
  <2> QED
    BY <1>l, <1>n, <2>1, LastingFrame
<1>5. ASSUME NEW wait \in BOOLEAN, Release(d, wait) PROVE Lasting(c)'
  <2>1. /\ UNCHANGED <<row, age, loop, owner, ktime, faults>>
        /\ cpc' = [cpc EXCEPT ![d] = IF wait THEN "releasing" ELSE "idle"]
        /\ cid' = [cid EXCEPT ![d] = NoId]
        /\ stop' = [stop EXCEPT ![cid[d]] = loop[cid[d]] # "none"]
    BY <1>5 DEF Release, tableVars
  <2>2. CASE d = c
    <3>1. cpc'[c] \in {"releasing", "idle"}
      BY <1>t, <2>1, <2>2 DEF Typed
    <3> QED
      BY <3>1 DEF Lasting
  <2>3. CASE d # c
    <3>1. cpc'[c] = cpc[c] /\ cid'[c] = cid[c]
      BY <1>t, <2>1, <2>3 DEF Typed
    <3>2. cpc[c] = "holding" => stop'[cid[c]] = stop[cid[c]]
      BY <1>t, <1>i, <2>1, <2>3 DEF Typed
    <3> QED
      BY <1>l, <1>n, <2>1, <3>1, <3>2, LastingFrame
  <2> QED
    BY <2>2, <2>3
<1> QED
  BY <1>1, <1>2, <1>3, <1>4, <1>5 DEF CallerStep

LEMMA LoopTimely ==
  ASSUME IInv, TimelyInv, SlotsFree, NEW id \in WorkerId, LoopStep(id),
         NEW c \in Caller, Home[c] \in Prompt
  PROVE  Lasting(c)'
<1>t. Typed /\ IdInv
  BY TypedBefore DEF IInv
<1>l. Lasting(c)
  BY DEF TimelyInv
<1>n. faults \in Nat /\ Lost(faults) \in Nat /\ Interval \in Nat
  <2>1. faults \in Nat
    BY <1>t, WorkLockAssumption DEF Typed
  <2> QED
    BY <2>1, LostTime, WorkLockAssumption
<1>u. UNCHANGED <<row, age, cpc, cid, faults>>
  BY DEF LoopStep, KeepaliveTick, KeepaliveSend, LoopStops, tableVars, callerVars
<1>1. CASE ~(cpc[c] = "holding" /\ cid[c] = id)
  <2>1. cpc[c] = "holding" => cid[c] \in WorkerId /\ cid[c] # id
    BY <1>t, <1>1 DEF IdInv
  <2>2. \A o \in WorkerId : o # id => /\ loop'[o] = loop[o] /\ stop'[o] = stop[o]
                                      /\ owner'[o] = owner[o] /\ ktime'[o] = ktime[o]
    <3>1. CASE KeepaliveTick(id)
      BY <1>t, <3>1 DEF KeepaliveTick, Typed
    <3>2. CASE KeepaliveSend(id)
      BY <1>t, <3>2 DEF KeepaliveSend, Typed
    <3>3. CASE LoopStops(id)
      BY <3>3 DEF LoopStops, LoopsEnd
    <3> QED
      BY <3>1, <3>2, <3>3 DEF LoopStep
  <2> QED
    BY <1>l, <1>n, <1>u, <2>1, <2>2, LastingFrame
<1>2. CASE cpc[c] = "holding" /\ cid[c] = id
  <2>1. /\ row[KeyOf[c]] = id /\ owner[id] = c /\ ~stop[id]
        /\ loop[id] = "idle" => age[KeyOf[c]] <= ktime[id] + Lost(faults)
        /\ loop[id] # "idle" => ktime[id] = 0 /\ age[KeyOf[c]] <= Interval + Lost(faults)
    BY <1>l, <1>2 DEF Lasting
  <2>2. CASE KeepaliveTick(id)
    <3>1. /\ loop[id] = "idle" /\ ktime[id] = Interval
          /\ loop'[id] = "due" /\ ktime'[id] = 0 /\ UNCHANGED <<stop, owner>>
      BY <1>t, <2>2 DEF KeepaliveTick, Typed
    <3> QED
      BY <1>u, <1>2, <2>1, <3>1 DEF Lasting
  <2>3. CASE KeepaliveSend(id)
    <3>1. loop[id] = "due" /\ UNCHANGED <<stop, owner, ktime>>
      BY <2>3 DEF KeepaliveSend
    <3>2. CASE HasSlot(Home[c])
      <4>1. loop'[id] = "sent"
        BY <1>t, <2>1, <2>3, <3>2 DEF KeepaliveSend, Typed
      <4> QED
        BY <1>u, <1>2, <2>1, <3>1, <4>1 DEF Lasting
    <3>3. CASE ~HasSlot(Home[c])
      <4>1. loop'[id] = "idle"
        BY <1>t, <2>1, <2>3, <3>3 DEF KeepaliveSend, Typed
      <4>2. age[KeyOf[c]] \in Nat
        BY <1>t, WorkLockAssumption DEF Typed, Expired
      <4>3. ~(age[KeyOf[c]] > 0)
        BY <1>2, <3>1, <3>3 DEF SlotsFree
      <4>4. age[KeyOf[c]] <= ktime[id] + Lost(faults)
        BY <1>n, <2>1, <3>1, <4>2, <4>3
      <4> QED
        BY <1>u, <1>2, <2>1, <3>1, <4>1, <4>4 DEF Lasting
    <3> QED
      BY <3>2, <3>3
  <2>4. CASE LoopStops(id)
    BY <2>1, <2>4 DEF LoopStops
  <2> QED
    BY <2>2, <2>3, <2>4 DEF LoopStep
<1> QED
  BY <1>1, <1>2

\* A statement takes a lease only when it has expired, deletes one that nobody
\* has, and otherwise refreshes it.
LEMMA RowTimely ==
  ASSUME IInv, FitInv, TimelyInv, Enough, NEW i \in Instance, cur[i] # NoCommand,
         \/ UNCHANGED <<row, age>>
         \/ MayTake(i, cur[i].key) /\ \E id \in WorkerId : WriteRow(cur[i].key, id)
         \/ cur[i].op = "release" /\ DeleteRow(cur[i].key, cur[i].id)
         \/ RefreshRow(cur[i].key, cur[i].id),
         NEW c \in Caller, Home[c] \in Prompt, cpc[c] \in {"granted", "holding"}
  PROVE  /\ row'[KeyOf[c]] = row[KeyOf[c]]
         /\ age'[KeyOf[c]] = age[KeyOf[c]] \/ age'[KeyOf[c]] = 0
<1>t. Typed /\ TypeInv
  BY TypedBefore DEF IInv
<1>1. /\ row[KeyOf[c]] = cid[c] /\ KeyOf[c] \in Key
      /\ ~MayTake(i, KeyOf[c])
  BY NeverExpired
<1>2. cur[i].key \in Key /\ cur[i] \in GoodCommand
  BY <1>t, Current
<1>3. CASE UNCHANGED <<row, age>>
  BY <1>3
<1>4. ASSUME MayTake(i, cur[i].key), NEW id \in WorkerId, WriteRow(cur[i].key, id)
      PROVE  row'[KeyOf[c]] = row[KeyOf[c]] /\ age'[KeyOf[c]] = age[KeyOf[c]]
  <2>1. cur[i].key # KeyOf[c]
    BY <1>1, <1>4
  <2> QED
    BY <1>t, <1>1, <1>2, <1>4, <2>1 DEF WriteRow, Typed
<1>5. CASE cur[i].op = "release" /\ DeleteRow(cur[i].key, cur[i].id)
  <2>1. Fit(cur[i], cid, owner)
    BY <1>2 DEF FitInv, At
  <2>2. cid[c] # cur[i].id
    BY <1>5, <2>1 DEF Fit
  <2> QED
    BY <1>t, <1>1, <1>2, <1>5, <2>2 DEF DeleteRow, WriteRow, Typed, tableVars
<1>6. CASE RefreshRow(cur[i].key, cur[i].id)
  BY <1>t, <1>1, <1>2, <1>6 DEF RefreshRow, Typed
<1> QED
  BY <1>3, <1>4, <1>5, <1>6

LEMMA ManagerTimely ==
  ASSUME IInv, FitInv, TimelyInv, Enough, NEW i \in Instance, ManagerStep(i),
         NEW c \in Caller, Home[c] \in Prompt
  PROVE  Lasting(c)'
<1>t. TypeInv /\ Typed /\ IdInv /\ ReplyInv /\ KeepInv
  BY TypedBefore DEF IInv
<1>l. Lasting(c)
  BY DEF TimelyInv
<1>n. faults \in Nat /\ faults + 1 \in Nat
  BY <1>t, WorkLockAssumption DEF Typed
<1>i. cpc[c] = "holding" => cid[c] \in WorkerId /\ loop[cid[c]] # "none" /\ owner[cid[c]] = c
  BY <1>t, <1>l DEF IdInv, Lasting
<1>h. ASSUME cur[i] # NoCommand, cur[i].op = "keepalive", cpc[c] = "holding", cur[i].id = cid[c]
      PROVE  cur[i].key = KeyOf[c] /\ loop[cid[c]] = "sent"
  <2>1. At(cur[i], i) /\ cur[i] \in GoodCommand
    BY <1>h, <1>t, Current DEF At
  <2>2. Fit(cur[i], cid, owner) /\ loop[cur[i].id] = "sent"
    BY <1>h, <1>t, <2>1, AtKept DEF FitInv
  <2> QED
    BY <1>h, <1>i, <2>2 DEF Fit
<1>a. ASSUME cur[i] # NoCommand, Answered(i)
      PROVE  /\ cid' = cid
             /\ cpc'[c] = cpc[c] \/ cpc'[c] = "idle"
  BY <1>a, <1>t, AnsweredShape
<1>z. ASSUME cpc'[c] \notin {"granted", "holding"} PROVE Lasting(c)'
  BY <1>z DEF Lasting
<1>1. CASE TakeCommand(i)
  <2>1. UNCHANGED <<row, age, cpc, cid, loop, stop, owner, ktime, faults>>
    BY <1>1 DEF TakeCommand, tableVars, callerVars, loopVars
  <2> QED
    BY <1>l, <1>n, <2>1, LastingFrame
<1>2. CASE ServeAcquire(i)
  <2>1. /\ cur[i] # NoCommand /\ cur[i].op = "acquire" /\ cur[i].from \in Caller
        /\ cur[i].key = KeyOf[cur[i].from] /\ cur[i].key \in Key
    BY <1>2, <1>t, Current DEF ServeAcquire, Executing
  <2>2. UNCHANGED <<loop, stop, owner, ktime, faults>>
    BY <1>2 DEF ServeAcquire, loopVars
  <2>3. cpc[c] \in {"granted", "holding"} =>
          /\ row'[KeyOf[c]] = row[KeyOf[c]]
          /\ age'[KeyOf[c]] = age[KeyOf[c]] \/ age'[KeyOf[c]] = 0
    <3>1. \/ UNCHANGED <<row, age>>
          \/ MayTake(i, cur[i].key) /\ \E id \in WorkerId : WriteRow(cur[i].key, id)
      BY <1>2 DEF ServeAcquire, tableVars
    <3> QED
      BY <2>1, <3>1, RowTimely
  <2>4. CASE cpc'[c] = cpc[c] /\ cid'[c] = cid[c]
    BY <1>l, <1>n, <2>2, <2>3, <2>4, LastingFrame
  <2>5. CASE Answered(i)
    BY <1>a, <1>z, <2>1, <2>4, <2>5
  <2>6. ASSUME NEW id \in WorkerId, WriteRow(cur[i].key, id),
               cpc' = [cpc EXCEPT ![cur[i].from] = "granted"],
               cid' = [cid EXCEPT ![cur[i].from] = id]
        PROVE  Lasting(c)'
    <3>1. CASE cur[i].from = c
      <4>1. /\ cpc'[c] = "granted" /\ cid'[c] = id
            /\ row'[KeyOf[c]] = id /\ age'[KeyOf[c]] = 0
        BY <1>t, <2>1, <2>6, <3>1 DEF WriteRow, Typed
      <4> QED
        BY <4>1 DEF Lasting
    <3>2. CASE cur[i].from # c
      <4>1. cpc'[c] = cpc[c] /\ cid'[c] = cid[c]
        BY <1>t, <2>1, <2>6, <3>2 DEF Typed
      <4> QED
        BY <2>4, <4>1
    <3> QED
      BY <3>1, <3>2
  <2>7. CASE UNCHANGED callerVars
    BY <2>4, <2>7 DEF callerVars
  <2> QED
    BY <1>2, <2>5, <2>6, <2>7 DEF ServeAcquire
<1>3. CASE ServeRelease(i)
  <2>1. /\ cur[i] # NoCommand /\ cur[i].op = "release" /\ Answered(i)
        /\ DeleteRow(cur[i].key, cur[i].id)
        /\ UNCHANGED <<loop, stop, owner, ktime, faults>>
    BY <1>3 DEF ServeRelease, Executing, loopVars
  <2>2. cpc[c] \in {"granted", "holding"} =>
          /\ row'[KeyOf[c]] = row[KeyOf[c]]
          /\ age'[KeyOf[c]] = age[KeyOf[c]] \/ age'[KeyOf[c]] = 0
    BY <2>1, RowTimely
  <2>3. CASE cpc'[c] = cpc[c]
    BY <1>a, <1>l, <1>n, <2>1, <2>2, <2>3, LastingFrame
  <2> QED
    BY <1>a, <1>z, <2>1, <2>3
<1>4. CASE ServeKeepalive(i)
  <2>1. /\ cur[i] # NoCommand /\ cur[i].op = "keepalive" /\ cur[i].id \in WorkerId
        /\ RefreshRow(cur[i].key, cur[i].id) /\ cur[i].key \in Key
        /\ UNCHANGED <<cpc, cid, faults>>
    BY <1>4, <1>t, Current DEF ServeKeepalive, Executing, callerVars
  <2>2. cpc[c] \in {"granted", "holding"} =>
          /\ row'[KeyOf[c]] = row[KeyOf[c]]
          /\ age'[KeyOf[c]] = age[KeyOf[c]] \/ age'[KeyOf[c]] = 0
    BY <2>1, RowTimely
  <2>3. CASE ~(cpc[c] = "holding" /\ cur[i].id = cid[c])
    <3>1. \A o \in WorkerId : o # cur[i].id =>
            /\ loop'[o] = loop[o] /\ stop'[o] = stop[o]
            /\ owner'[o] = owner[o] /\ ktime'[o] = ktime[o]
      <4>1. CASE row[cur[i].key] = cur[i].id
        BY <1>4, <1>t, <4>1 DEF ServeKeepalive, Typed
      <4>2. CASE row[cur[i].key] # cur[i].id
        <5>1. LoopsEnd({cur[i].id})
          BY <1>4, <4>2 DEF ServeKeepalive
        <5> QED
          BY <5>1 DEF LoopsEnd
      <4> QED
        BY <4>1, <4>2
    <3> QED
      BY <1>i, <1>l, <1>n, <2>1, <2>2, <2>3, <3>1, LastingFrame
  <2>4. CASE cpc[c] = "holding" /\ cur[i].id = cid[c]
    <3>1. cur[i].key = KeyOf[c] /\ row[KeyOf[c]] = cid[c] /\ cid[c] \in WorkerId
      BY <1>h, <1>i, <1>l, <2>1, <2>4 DEF Lasting
    <3>2. /\ loop'[cid[c]] = "idle" /\ UNCHANGED <<stop, owner, ktime>>
          /\ age'[KeyOf[c]] = 0 /\ row' = row
      BY <1>4, <1>t, <2>1, <2>4, <3>1 DEF ServeKeepalive, RefreshRow, Typed
    <3>3. ktime[cid[c]] \in Nat /\ Lost(faults) \in Nat
      <4>1. ktime[cid[c]] \in Nat
        BY <1>t, <3>1, WorkLockAssumption DEF Typed
      <4> QED
        BY <1>n, <4>1, LostTime
    <3>4. age'[KeyOf[c]] <= ktime'[cid[c]] + Lost(faults')
      BY <2>1, <3>2, <3>3
    <3> QED
      BY <1>l, <2>1, <2>4, <3>1, <3>2, <3>4 DEF Lasting
  <2> QED
    BY <2>3, <2>4
<1>e. ASSUME cur[i] # NoCommand, ErrorReply(i), faults' = faults + 1,
             cpc[c] \in {"granted", "holding"} =>
               /\ row'[KeyOf[c]] = row[KeyOf[c]]
               /\ age'[KeyOf[c]] = age[KeyOf[c]] \/ age'[KeyOf[c]] = 0
      PROVE  Lasting(c)'
  <2>1. Answered(i) /\ UNCHANGED <<stop, owner, ktime>>
    BY <1>e DEF ErrorReply
  <2>2. CASE cpc'[c] # cpc[c]
    BY <1>a, <1>e, <1>z, <2>1, <2>2
  <2>3. CASE cpc'[c] = cpc[c] /\ ~(cpc[c] = "holding" /\ cur[i].op = "keepalive" /\ cur[i].id = cid[c])
    <3>1. cpc[c] = "holding" => loop'[cid[c]] = loop[cid[c]]
      BY <1>e, <1>i, <1>t, <2>3, Current DEF ErrorReply, Typed
    <3> QED
      BY <1>a, <1>e, <1>l, <1>n, <2>1, <2>3, <3>1, LastingFrame
  <2>4. CASE cpc'[c] = cpc[c] /\ cpc[c] = "holding" /\ cur[i].op = "keepalive" /\ cur[i].id = cid[c]
    <3>1. loop[cid[c]] = "sent" /\ cid[c] \in WorkerId
      BY <1>e, <1>h, <1>i, <2>4
    <3>2. loop'[cid[c]] = "idle"
      BY <1>e, <1>t, <2>4, <3>1 DEF ErrorReply, Typed
    <3>3. /\ row[KeyOf[c]] = cid[c] /\ ktime[cid[c]] = 0 /\ owner[cid[c]] = c /\ ~stop[cid[c]]
          /\ age[KeyOf[c]] <= Interval + Lost(faults)
      BY <1>l, <2>4, <3>1 DEF Lasting
    <3>4. /\ age[KeyOf[c]] \in Nat /\ Interval \in Nat /\ Lost(faults) \in Nat
          /\ Lost(faults + 1) = Lost(faults) + Interval
      <4>1. age[KeyOf[c]] \in Nat /\ Interval \in Nat
        BY <1>t, WorkLockAssumption DEF Typed, Expired
      <4> QED
        BY <1>n, <4>1, LostTime
    <3>5. Lost(faults') = Lost(faults) + Interval
      BY <1>e, <3>4
    <3>6. age'[KeyOf[c]] <= ktime'[cid[c]] + Lost(faults')
      BY <1>e, <2>1, <2>4, <3>3, <3>4, <3>5
    <3> QED
      BY <1>a, <1>e, <2>1, <2>4, <3>2, <3>3, <3>6 DEF Lasting
  <2> QED
    BY <2>2, <2>3, <2>4
<1>5. CASE StatementFails(i)
  BY <1>5, <1>e DEF StatementFails, Fault, tableVars
<1>6. CASE ReplyLost(i)
  <2>1. cur[i] # NoCommand /\ ErrorReply(i) /\ faults' = faults + 1
    BY <1>6 DEF ReplyLost, Fault
  <2>2. \/ MayTake(i, cur[i].key) /\ \E id \in WorkerId : WriteRow(cur[i].key, id)
        \/ cur[i].op = "release" /\ DeleteRow(cur[i].key, cur[i].id)
        \/ RefreshRow(cur[i].key, cur[i].id)
    BY <1>6 DEF ReplyLost
  <2> QED
    BY <1>e, <2>1, <2>2, RowTimely
<1>7. CASE Crash(i)
  <2>1. /\ cpc'[c] = IF Home[c] = i THEN "idle" ELSE cpc[c]
        /\ cid'[c] = IF Home[c] = i THEN NoId ELSE cid[c]
        /\ faults' = faults + 1 /\ UNCHANGED <<row, age>>
    BY <1>7 DEF Crash, Fault, tableVars
  <2>2. CASE Home[c] = i
    BY <1>z, <2>1, <2>2
  <2>3. CASE Home[c] # i
    <3>1. \A o \in WorkerId : owner[o] = c =>
            /\ loop'[o] = loop[o] /\ stop'[o] = stop[o]
            /\ owner'[o] = owner[o] /\ ktime'[o] = ktime[o]
      BY <1>7, <2>3 DEF Crash, LoopsEnd
    <3> QED
      BY <1>i, <1>l, <1>n, <2>1, <2>3, <3>1, LastingFrame
  <2> QED
    BY <2>2, <2>3
<1> QED
  BY <1>1, <1>2, <1>3, <1>4, <1>5, <1>6, <1>7 DEF ManagerStep, Serve

LEMMA TickTimely ==
  ASSUME IInv, TimelyInv, Tick, NEW c \in Caller, Home[c] \in Prompt
  PROVE  Lasting(c)'
<1>t. Typed /\ IdInv
  BY TypedBefore DEF IInv
<1>l. Lasting(c)
  BY DEF TimelyInv
<1>u. UNCHANGED <<row, cpc, cid, loop, stop, owner, faults>>
  BY DEF Tick, callerVars
<1>q. Quiet(Home[c])
  BY DEF Tick
<1>1. CASE cpc[c] = "holding"
  <2>1. /\ row[KeyOf[c]] = cid[c] /\ loop[cid[c]] # "none" /\ owner[cid[c]] = c
        /\ ~stop[cid[c]] /\ cid[c] \in WorkerId /\ KeyOf[c] \in Key
    BY <1>1, <1>l, <1>t, WorkLockAssumption DEF Lasting, IdInv
  <2>2. loop[cid[c]] = "idle" /\ ktime[cid[c]] < Interval
    BY <1>q, <2>1, WorkLockAssumption DEF Quiet
  <2>3. /\ age[KeyOf[c]] \in Nat /\ ktime[cid[c]] \in Nat
        /\ faults \in Nat
    BY <1>t, <2>1, WorkLockAssumption DEF Typed, Expired
  <2>4. Lost(faults) \in Nat
    BY <2>3, LostTime
  <2>5. /\ age'[KeyOf[c]] = age[KeyOf[c]] \/ age'[KeyOf[c]] = age[KeyOf[c]] + 1
        /\ ktime'[cid[c]] = ktime[cid[c]] + 1
    BY <2>1, <2>2 DEF Tick
  <2>6. age[KeyOf[c]] <= ktime[cid[c]] + Lost(faults)
    BY <1>1, <1>l, <2>2 DEF Lasting
  <2>7. age'[KeyOf[c]] <= ktime'[cid[c]] + Lost(faults)
    BY <2>3, <2>4, <2>5, <2>6
  <2> QED
    BY <1>1, <1>u, <2>1, <2>2, <2>7 DEF Lasting
<1>2. CASE cpc[c] # "holding"
  BY <1>2, <1>q, <1>u DEF Quiet, Lasting
<1> QED
  BY <1>1, <1>2

LEMMA InitTimely == Init => TimelyInv
  BY DEF Init, TimelyInv, Lasting

LEMMA StepTimely ==
  ASSUME Enough
  PROVE  IInv /\ FitInv /\ TimelyInv /\ SlotsFree /\ [Next]_vars => TimelyInv'
<1> SUFFICES ASSUME IInv, FitInv, TimelyInv, SlotsFree, [Next]_vars,
                    NEW c \in Caller, Home[c] \in Prompt
             PROVE  Lasting(c)'
  BY DEF TimelyInv
<1>n. faults \in Nat /\ Lasting(c)
  BY TypedBefore, WorkLockAssumption DEF IInv, Typed, TimelyInv
<1>u. ASSUME UNCHANGED <<row, age, cpc, cid, loop, stop, owner, ktime, faults>> PROVE Lasting(c)'
  BY <1>n, <1>u, LastingFrame
<1>1. ASSUME NEW k \in Key, EndTransaction(k) PROVE Lasting(c)'
  BY <1>1, <1>u DEF EndTransaction, callerVars, loopVars
<1>2. CASE UNCHANGED vars
  BY <1>2, <1>u DEF vars, tableVars, callerVars, loopVars
<1> QED
  BY <1>1, <1>2, TickTimely, CallerTimely, LoopTimely, ManagerTimely DEF Next

LEMMA TimelyKeeps == TimelyInv => PromptHoldersKeepTheirLease
  BY DEF TimelyInv, Lasting, PromptHoldersKeepTheirLease

\* A prompt server with fewer faults than the timeout has intervals never loses a
\* lease that a caller of it holds, provided its command queue has a slot
\* whenever a keepalive that the lease needs is due: the keepalive loop gives up
\* on a full queue until its next tick, which costs an interval and is no fault
\* (WorkLock::new, KeepaliveConfig, COMMAND_BUFFER_SIZE).
THEOREM PromptHoldersKeep == Spec /\ []SlotsFree => []PromptHoldersKeepTheirLease
<1>1. CASE Enough
  <2>1. Spec /\ []SlotsFree => []TimelyInv
    BY <1>1, InitFit, StepFit, InitTimely, StepTimely, Inductive, PTL DEF Spec
  <2> QED
    BY <2>1, TimelyKeeps, PTL
<1>2. CASE ~Enough
  <2>1. PromptHoldersKeepTheirLease
    BY <1>2 DEF Enough, PromptHoldersKeepTheirLease
  <2> QED
    BY <2>1, PTL
<1> QED
  BY <1>1, <1>2

(***************************************************************************)
(* With one caller at each prompt server its queue has a slot whenever the *)
(* lease needs one.                                                        *)
(***************************************************************************)
Sole == \A c, d \in Caller : Home[c] \in Prompt /\ Home[d] = Home[c] => c = d

\* A loop whose WorkLock was not dropped belongs to the lease its caller has.
StopInv ==
  \A id \in WorkerId : loop[id] # "none" => cid[owner[id]] = id \/ stop[id]

\* When the lease has an age, the caller's server has nothing to do but to send,
\* take and execute its keepalive.
Alone(c) ==
  cpc[c] = "holding" /\ age[KeyOf[c]] > 0 =>
    /\ \A m \in GoodCommand : At(m, Home[c]) => IsKeepalive(m, cid[c])
    /\ \A id \in WorkerId : owner[id] = c /\ loop[id] \in {"due", "sent"} => id = cid[c]

AloneInv == \A c \in Caller : Home[c] \in Prompt => Alone(c)

LEMMA InitStop == Init => StopInv
  BY DEF Init, StopInv

\* A caller without a WorkLock has no loop that was not told to stop.
LEMMA StopFrame ==
  ASSUME StopInv,
         \A id \in WorkerId : loop'[id] # "none" =>
           /\ loop[id] # "none" /\ owner'[id] = owner[id]
           /\ stop'[id] = stop[id]
           /\ cid[owner[id]] = id => cid'[owner[id]] = id
  PROVE  StopInv'
  BY DEF StopInv

LEMMA StepStop == IInv /\ StopInv /\ [Next]_vars => StopInv'
<1> SUFFICES ASSUME IInv, StopInv, [Next]_vars PROVE StopInv'
  OBVIOUS
<1>t. TypeInv /\ Typed /\ IdInv /\ KeepInv /\ ReplyInv
  BY TypedBefore DEF IInv
<1>k. \A id \in WorkerId : loop[id] # "none" => owner[id] \in Caller
  BY <1>t DEF KeepInv
<1>u. ASSUME UNCHANGED <<cid, loop, stop, owner>> PROVE StopInv'
  BY <1>u, StopFrame
<1>1. ASSUME NEW c \in Caller, CallerStep(c) PROVE StopInv'
  <2>1. CASE Ask(c) \/ FenceTransaction(c)
    BY <2>1, <1>u DEF Ask, FenceTransaction, callerVars, loopVars
  <2>2. CASE Poll(c)
    <3>1. /\ cid' = cid /\ cpc[c] = "granted"
          /\ loop' = [loop EXCEPT ![cid[c]] = "idle"]
          /\ stop' = [stop EXCEPT ![cid[c]] = FALSE]
          /\ owner' = [owner EXCEPT ![cid[c]] = c]
      BY <2>2 DEF Poll
    <3> SUFFICES ASSUME NEW id \in WorkerId, loop'[id] # "none"
                 PROVE  cid'[owner'[id]] = id \/ stop'[id]
      BY DEF StopInv
    <3>2. CASE id = cid[c]
      BY <1>t, <3>1, <3>2 DEF Typed
    <3>3. CASE id # cid[c]
      <4>1. loop'[id] = loop[id] /\ owner'[id] = owner[id] /\ stop'[id] = stop[id]
        BY <1>t, <3>1, <3>3 DEF Typed
      <4> QED
        BY <3>1, <4>1 DEF StopInv
    <3> QED
      BY <3>2, <3>3
  <2>3. CASE Cancel(c)
    <3>1. /\ UNCHANGED <<loop, stop, owner>> /\ cid' = [cid EXCEPT ![c] = NoId]
          /\ cpc[c] \in {"asking", "granted", "releasing"}
      BY <2>3 DEF Cancel, loopVars
    <3>2. ASSUME NEW id \in WorkerId, loop[id] # "none", cid[owner[id]] = id
          PROVE  cid'[owner[id]] = id
      <4>1. cpc[c] = "granted" => loop[cid[c]] = "none"
        BY <1>t DEF IdInv
      <4>2. cpc[c] # "granted" => cid[c] \notin WorkerId
        BY <1>t, <3>1 DEF IdInv
      <4>3. owner[id] # c /\ owner[id] \in Caller
        BY <1>k, <3>2, <4>1, <4>2
      <4> QED
        BY <1>t, <3>1, <3>2, <4>3 DEF Typed
    <3> QED
      BY <3>1, <3>2, StopFrame
  <2>4. ASSUME NEW wait \in BOOLEAN, Release(c, wait) PROVE StopInv'
    <3>1. /\ UNCHANGED <<loop, owner>> /\ cid' = [cid EXCEPT ![c] = NoId]
          /\ stop' = [stop EXCEPT ![cid[c]] = loop[cid[c]] # "none"]
      BY <2>4 DEF Release
    <3> SUFFICES ASSUME NEW id \in WorkerId, loop'[id] # "none"
                 PROVE  cid'[owner'[id]] = id \/ stop'[id]
      BY DEF StopInv
    <3>2. CASE id = cid[c]
      BY <1>t, <3>1, <3>2 DEF Typed
    <3>3. CASE id # cid[c]
      <4>1. stop'[id] = stop[id] /\ owner[id] \in Caller
        BY <1>k, <1>t, <3>1, <3>3 DEF Typed
      <4>2. owner[id] # c => cid'[owner[id]] = cid[owner[id]]
        BY <1>t, <3>1, <4>1 DEF Typed
      <4> QED
        BY <3>1, <3>3, <4>1, <4>2 DEF StopInv
    <3> QED
      BY <3>2, <3>3
  <2> QED
    BY <1>1, <2>1, <2>2, <2>3, <2>4 DEF CallerStep
<1>2. ASSUME NEW id \in WorkerId, LoopStep(id) PROVE StopInv'
  <2>1. cid' = cid
    BY <1>2 DEF LoopStep, KeepaliveTick, KeepaliveSend, LoopStops, callerVars
  <2>2. CASE KeepaliveTick(id) \/ KeepaliveSend(id)
    <3>1. UNCHANGED <<stop, owner>> /\ \A o \in WorkerId : loop'[o] # "none" => loop[o] # "none"
      BY <1>t, <2>2 DEF KeepaliveTick, KeepaliveSend, Typed
    <3> QED
      BY <2>1, <3>1, StopFrame
  <2>3. CASE LoopStops(id)
    BY <2>1, <2>3, StopFrame DEF LoopStops, LoopsEnd
  <2> QED
    BY <1>2, <2>2, <2>3 DEF LoopStep
<1>3. ASSUME NEW i \in Instance, ManagerStep(i) PROVE StopInv'
  <2>1. CASE TakeCommand(i)
    BY <2>1, <1>u DEF TakeCommand, callerVars, loopVars
  <2>2. CASE ServeAcquire(i)
    <3>1. UNCHANGED <<loop, stop, owner>> /\ cur[i] # NoCommand
      BY <2>2 DEF ServeAcquire, Executing, loopVars
    <3>2. CASE cid' = cid
      BY <1>u, <3>1, <3>2
    <3>3. ASSUME NEW id \in WorkerId, cur[i].open, cid' = [cid EXCEPT ![cur[i].from] = id]
          PROVE  StopInv'
      <4>1. cpc[cur[i].from] = "asking" /\ cur[i].from \in Caller
        BY <1>t, <2>2, <3>1, <3>3, Current DEF ServeAcquire, Executing, ReplyInv, Awaited
      <4>2. cid[cur[i].from] \notin WorkerId
        BY <1>t, <4>1 DEF IdInv
      <4>3. ASSUME NEW o \in WorkerId, loop[o] # "none", cid[owner[o]] = o
            PROVE  cid'[owner[o]] = o
        BY <1>k, <1>t, <3>3, <4>2, <4>3 DEF Typed
      <4> QED
        BY <3>1, <4>3, StopFrame
    <3> QED
      BY <2>2, <3>2, <3>3 DEF ServeAcquire, Answered, callerVars
  <2>3. CASE ServeRelease(i)
    BY <2>3, <1>u DEF ServeRelease, Answered, loopVars
  <2>4. CASE ServeKeepalive(i)
    <3>1. cid' = cid /\ cur[i] # NoCommand /\ cur[i].id \in WorkerId /\ loop[cur[i].id] = "sent"
      BY <1>t, <2>4, Current DEF ServeKeepalive, Executing, callerVars, KeepInv, KeptBy
    <3>2. CASE row[cur[i].key] = cur[i].id
      <4>1. loop' = [loop EXCEPT ![cur[i].id] = "idle"] /\ UNCHANGED <<stop, owner>>
        BY <2>4, <3>2 DEF ServeKeepalive
      <4>2. \A o \in WorkerId : loop'[o] # "none" => loop[o] # "none"
        BY <1>t, <3>1, <4>1 DEF Typed
      <4> QED
        BY <3>1, <4>1, <4>2, StopFrame
    <3>3. CASE row[cur[i].key] # cur[i].id
      <4>1. LoopsEnd({cur[i].id})
        BY <2>4, <3>3 DEF ServeKeepalive
      <4> QED
        BY <3>1, <4>1, StopFrame DEF LoopsEnd
    <3> QED
      BY <3>2, <3>3
  <2>5. ASSUME cur[i] # NoCommand, ErrorReply(i) PROVE StopInv'
    <3>1. cid' = cid /\ UNCHANGED <<stop, owner>>
      BY <2>5 DEF ErrorReply, Answered
    <3>2. cur[i].op = "keepalive" => cur[i].id \in WorkerId /\ loop[cur[i].id] = "sent"
      BY <1>t, <2>5, Current DEF KeepInv, KeptBy
    <3>3. \A o \in WorkerId : loop'[o] # "none" => loop[o] # "none"
      BY <1>t, <2>5, <3>2 DEF ErrorReply, Typed
    <3> QED
      BY <3>1, <3>3, StopFrame
  <2>6. CASE Crash(i)
    <3>1. \A c \in Caller : cid'[c] = IF Home[c] = i THEN NoId ELSE cid[c]
      BY <2>6 DEF Crash
    <3>2. \A id \in WorkerId : loop'[id] # "none" =>
            /\ loop[id] # "none" /\ owner'[id] = owner[id] /\ stop'[id] = stop[id]
            /\ owner[id] # NoCaller => Home[owner[id]] # i
      BY <2>6 DEF Crash, LoopsEnd
    <3> QED
      BY <1>k, <3>1, <3>2, StopFrame, WorkLockAssumption
  <2> QED
    BY <1>3, <2>1, <2>2, <2>3, <2>4, <2>5, <2>6 DEF ManagerStep, Serve, StatementFails, ReplyLost
<1>4. ASSUME NEW k \in Key, EndTransaction(k) PROVE StopInv'
  BY <1>4, <1>u DEF EndTransaction, callerVars, loopVars
<1>5. CASE Tick
  BY <1>5, <1>u DEF Tick, callerVars
<1>6. CASE UNCHANGED vars
  BY <1>6, <1>u DEF vars, callerVars, loopVars
<1> QED
  BY <1>1, <1>2, <1>3, <1>4, <1>5, <1>6 DEF Next

LEMMA AloneHasSlot ==
  ASSUME IInv, AloneInv
  PROVE  SlotsFree
<1>t. TypeInv /\ KeepInv /\ IdInv
  BY DEF IInv
<1> SUFFICES ASSUME NEW c \in Caller, cpc[c] = "holding", Home[c] \in Prompt,
                    loop[cid[c]] = "due", age[KeyOf[c]] > 0
             PROVE  HasSlot(Home[c])
  BY DEF SlotsFree
<1>1. Home[c] \in Instance /\ queue[Home[c]] \in Seq(GoodCommand)
  BY <1>t, WorkLockAssumption DEF TypeInv
<1>2. ASSUME NEW m \in GoodCommand, At(m, Home[c]) PROVE FALSE
  <2>1. IsKeepalive(m, cid[c])
    BY <1>2 DEF AloneInv, Alone
  <2> QED
    BY <1>t, <1>1, <1>2, <2>1, AtKept DEF IsKeepalive
<1>3. \A n \in 1 .. Len(queue[Home[c]]) : FALSE
  BY <1>1, <1>2, Element DEF At
<1>4. queue[Home[c]] = <<>>
  BY <1>1, <1>3
<1>5. {n \in DOMAIN queue[Home[c]] : queue[Home[c]][n].op # "release"} = {}
  BY <1>4
<1>6. Cardinality({n \in DOMAIN queue[Home[c]] : queue[Home[c]][n].op # "release"}) = 0
  BY <1>5, FS_EmptySet
<1> QED
  BY <1>6, WorkLockAssumption DEF HasSlot

LEMMA InitAlone == Init => AloneInv
  BY DEF Init, AloneInv, Alone

\* Commands of c's server only leave, and no loop of c becomes due.
LEMMA AloneFrame ==
  ASSUME NEW c \in Caller, Alone(c),
         cpc'[c] = "holding" =>
           /\ cpc[c] = "holding" /\ cid'[c] = cid[c]
           /\ age'[KeyOf[c]] = age[KeyOf[c]] \/ age'[KeyOf[c]] = 0,
         \A m \in GoodCommand :
           At(m, Home[c])' => \E o \in GoodCommand : At(o, Home[c]) /\ Same(o, m),
         \A id \in WorkerId : owner'[id] = c /\ loop'[id] \in {"due", "sent"} =>
           owner[id] = c /\ loop[id] \in {"due", "sent"}
  PROVE  Alone(c)'
<1> SUFFICES ASSUME cpc'[c] = "holding", age'[KeyOf[c]] > 0
             PROVE  /\ \A m \in GoodCommand : At(m, Home[c])' => IsKeepalive(m, cid'[c])
                    /\ \A id \in WorkerId : owner'[id] = c /\ loop'[id] \in {"due", "sent"} =>
                         id = cid'[c]
  BY DEF Alone, IsKeepalive
<1>1. cpc[c] = "holding" /\ cid'[c] = cid[c] /\ age[KeyOf[c]] > 0
  OBVIOUS
<1>2. ASSUME NEW m \in GoodCommand, At(m, Home[c])' PROVE IsKeepalive(m, cid'[c])
  <2>1. PICK o \in GoodCommand : At(o, Home[c]) /\ Same(o, m)
    BY <1>2
  <2>2. IsKeepalive(o, cid[c])
    BY <1>1, <2>1 DEF Alone
  <2> QED
    BY <1>1, <2>1, <2>2 DEF IsKeepalive, Same
<1>3. ASSUME NEW id \in WorkerId, owner'[id] = c, loop'[id] \in {"due", "sent"}
      PROVE  id = cid'[c]
  BY <1>1, <1>3 DEF Alone
<1> QED
  BY <1>2, <1>3

LEMMA CallerAlone ==
  ASSUME IInv, TimelyInv, AloneInv, Sole, NEW d \in Caller, CallerStep(d),
         NEW c \in Caller, Home[c] \in Prompt
  PROVE  Alone(c)'
<1>t. TypeInv /\ Typed /\ IdInv /\ KeepInv
  BY TypedBefore DEF IInv
<1>a. Alone(c) /\ Lasting(c)
  BY DEF AloneInv, TimelyInv
<1>h. Home[c] \in Instance /\ Home[d] \in Instance
  BY WorkLockAssumption
<1>s. \A m \in GoodCommand : Same(m, m)
  BY DEF Same
<1>1. CASE d = c
  <2>1. CASE cpc'[c] # "holding"
    BY <2>1 DEF Alone
  <2>2. CASE Poll(c)
    <3>1. age'[KeyOf[c]] = 0
      BY <1>a, <2>2 DEF Poll, tableVars, Lasting
    <3> QED
      BY <3>1 DEF Alone
  <2>3. CASE FenceTransaction(c)
    <3>1. UNCHANGED <<age, cpc, cid, queue, cur, loop, owner>>
      BY <2>3 DEF FenceTransaction, managerVars, callerVars, loopVars
    <3>2. \A m \in GoodCommand : At(m, Home[c])' => At(m, Home[c])
      BY <1>h, <3>1, AtLeft
    <3> QED
      BY <1>a, <1>s, <3>1, <3>2, AloneFrame
  <2>4. CASE Ask(c) \/ Cancel(c) \/ Release(c, TRUE) \/ Release(c, FALSE)
    <3>1. \/ cpc' = [cpc EXCEPT ![c] = "asking"]
          \/ cpc' = [cpc EXCEPT ![c] = "idle"]
          \/ cpc' = [cpc EXCEPT ![c] = "releasing"]
      BY <2>4 DEF Ask, Cancel, Release
    <3>2. cpc'[c] # "holding"
      BY <1>t, <3>1 DEF Typed
    <3> QED
      BY <2>1, <3>2
  <2> QED
    BY <1>1, <2>2, <2>3, <2>4 DEF CallerStep
<1>2. CASE d # c
  <2>h. Home[d] # Home[c]
    BY <1>2 DEF Sole
  <2>1. /\ age' = age
        /\ cpc'[c] = cpc[c] /\ cid'[c] = cid[c]
    <3>1. age' = age /\ \E x : cpc' = [cpc EXCEPT ![d] = x] \/ cpc' = cpc
      BY DEF CallerStep, Ask, Poll, Cancel, FenceTransaction, Release, tableVars, callerVars
    <3>2. cid' = cid \/ cid' = [cid EXCEPT ![d] = NoId]
      BY DEF CallerStep, Ask, Poll, Cancel, FenceTransaction, Release, callerVars
    <3> QED
      BY <1>2, <1>t, <3>1, <3>2 DEF Typed
  <2>2. ASSUME NEW id \in WorkerId, owner'[id] = c, loop'[id] \in {"due", "sent"}
        PROVE  owner[id] = c /\ loop[id] \in {"due", "sent"}
    <3>1. CASE Poll(d)
      BY <1>2, <1>t, <2>2, <3>1 DEF Poll, Typed
    <3>2. CASE ~Poll(d)
      <4>1. UNCHANGED <<loop, owner>>
        BY <3>2 DEF CallerStep, Ask, Cancel, FenceTransaction, Release, loopVars
      <4> QED
        BY <2>2, <4>1
    <3> QED
      BY <3>1, <3>2
  <2>3. ASSUME NEW m \in GoodCommand, At(m, Home[c])'
        PROVE  \E o \in GoodCommand : At(o, Home[c]) /\ Same(o, m)
    <3>1. CASE Cancel(d)
      BY <1>h, <1>t, <2>3, <3>1, AtCancelled
    <3>2. CASE Poll(d) \/ FenceTransaction(d)
      <4>1. UNCHANGED <<queue, cur>>
        BY <3>2 DEF Poll, FenceTransaction, managerVars
      <4> QED
        BY <1>h, <1>s, <2>3, <4>1, AtLeft
    <3>3. ASSUME NEW o \in GoodCommand, Send(Home[d], o), cur' = cur
          PROVE  \E q \in GoodCommand : At(q, Home[c]) /\ Same(q, m)
      BY <1>h, <1>s, <1>t, <2>h, <2>3, <3>3, AtSent
    <3>4. CASE Ask(d)
      <4>1. AcquireBy(d) \in GoodCommand /\ Send(Home[d], AcquireBy(d)) /\ cur' = cur
        BY <1>t, <3>4, SentAreGood DEF Ask, AcquireBy
      <4> QED
        BY <3>3, <4>1
    <3>5. ASSUME NEW wait \in BOOLEAN, Release(d, wait)
          PROVE  \E q \in GoodCommand : At(q, Home[c]) /\ Same(q, m)
      <4>1. ReleaseBy(d, wait) \in GoodCommand /\ Send(Home[d], ReleaseBy(d, wait)) /\ cur' = cur
        BY <1>t, <3>5, SentAreGood DEF Release, ReleaseBy
      <4> QED
        BY <3>3, <4>1
    <3> QED
      BY <3>1, <3>2, <3>4, <3>5 DEF CallerStep
  <2> QED
    BY <1>a, <2>1, <2>2, <2>3, AloneFrame
<1> QED
  BY <1>1, <1>2

LEMMA LoopAlone ==
  ASSUME IInv, StopInv, AloneInv, Sole, NEW id \in WorkerId, LoopStep(id),
         NEW c \in Caller, Home[c] \in Prompt
  PROVE  Alone(c)'
<1>t. TypeInv /\ Typed /\ IdInv /\ KeepInv
  BY TypedBefore DEF IInv
<1>a. Alone(c)
  BY DEF AloneInv
<1>h. Home[c] \in Instance
  BY WorkLockAssumption
<1>s. \A m \in GoodCommand : Same(m, m)
  BY DEF Same
<1>u. UNCHANGED <<age, cpc, cid>>
  BY DEF LoopStep, KeepaliveTick, KeepaliveSend, LoopStops, tableVars, callerVars
<1>1. CASE KeepaliveTick(id)
  <2>1. /\ loop[id] = "idle" /\ ~stop[id] /\ UNCHANGED <<queue, cur, owner>>
        /\ loop' = [loop EXCEPT ![id] = "due"]
    BY <1>1 DEF KeepaliveTick, managerVars
  <2>2. cid[owner[id]] = id
    BY <2>1 DEF StopInv
  <2>3. \A o \in WorkerId : loop'[o] \in {"due", "sent"} => loop[o] \in {"due", "sent"} \/ o = id
    BY <1>t, <2>1 DEF Typed
  <2>4. \A m \in GoodCommand : At(m, Home[c])' => At(m, Home[c])
    BY <1>h, <2>1, AtLeft
  <2> SUFFICES ASSUME cpc[c] = "holding", age[KeyOf[c]] > 0
               PROVE  /\ \A m \in GoodCommand : At(m, Home[c])' => IsKeepalive(m, cid[c])
                      /\ \A o \in WorkerId : owner[o] = c /\ loop'[o] \in {"due", "sent"} =>
                           o = cid[c]
    BY <1>u, <2>1 DEF Alone, IsKeepalive
  <2> QED
    BY <1>a, <2>2, <2>3, <2>4 DEF Alone
<1>2. CASE KeepaliveSend(id)
  <2>1. loop[id] = "due" /\ owner' = owner /\ cur' = cur
    BY <1>2 DEF KeepaliveSend
  <2>2. owner[id] \in Caller /\ Home[owner[id]] \in Instance /\ KeepaliveBy(id) \in GoodCommand
    BY <1>t, <2>1, SentAreGood, WorkLockAssumption DEF KeepInv
  <2>3. \A o \in WorkerId : loop'[o] \in {"due", "sent"} => loop[o] \in {"due", "sent"}
    BY <1>2, <1>t, <2>1 DEF KeepaliveSend, Typed
  <2>4. \A m \in GoodCommand : At(m, Home[c])' =>
          At(m, Home[c]) \/ (Home[c] = Home[owner[id]] /\ m = KeepaliveBy(id))
    <3>1. CASE queue' = queue
      BY <1>h, <2>1, <3>1, AtLeft
    <3>2. CASE Send(Home[owner[id]], KeepaliveBy(id))
      BY <1>h, <1>t, <2>1, <2>2, <3>2, AtSent
    <3> QED
      BY <1>2, <3>1, <3>2 DEF KeepaliveSend, KeepaliveBy
  <2> SUFFICES ASSUME cpc[c] = "holding", age[KeyOf[c]] > 0
               PROVE  /\ \A m \in GoodCommand : At(m, Home[c])' => IsKeepalive(m, cid[c])
                      /\ \A o \in WorkerId : owner[o] = c /\ loop'[o] \in {"due", "sent"} =>
                           o = cid[c]
    BY <1>u, <2>1 DEF Alone, IsKeepalive
  <2>5. Home[c] = Home[owner[id]] => id = cid[c]
    BY <1>a, <2>1, <2>2 DEF Alone, Sole
  <2>6. IsKeepalive(KeepaliveBy(id), id)
    BY DEF IsKeepalive, KeepaliveBy
  <2> QED
    BY <1>a, <2>3, <2>4, <2>5, <2>6 DEF Alone
<1>3. CASE LoopStops(id)
  <2>1. UNCHANGED <<queue, cur>>
    BY <1>3 DEF LoopStops, managerVars
  <2>2. \A o \in WorkerId : loop'[o] \in {"due", "sent"} =>
          loop[o] \in {"due", "sent"} /\ owner'[o] = owner[o]
    BY <1>3 DEF LoopStops, LoopsEnd
  <2>3. \A m \in GoodCommand : At(m, Home[c])' => At(m, Home[c])
    BY <1>h, <2>1, AtLeft
  <2> QED
    BY <1>a, <1>s, <1>u, <2>2, <2>3, AloneFrame
<1> QED
  BY <1>1, <1>2, <1>3 DEF LoopStep

LEMMA ManagerAlone ==
  ASSUME IInv, FitInv, TimelyInv, AloneInv, Enough, NEW i \in Instance, ManagerStep(i),
         NEW c \in Caller, Home[c] \in Prompt
  PROVE  Alone(c)'
<1>t. TypeInv /\ Typed /\ IdInv /\ KeepInv /\ ReplyInv
  BY TypedBefore DEF IInv
<1>a. Alone(c)
  BY DEF AloneInv
<1>h. Home[c] \in Instance
  BY WorkLockAssumption
<1>s. \A m \in GoodCommand : Same(m, m)
  BY DEF Same
<1>1. \A m \in GoodCommand : At(m, Home[c])' => At(m, Home[c])
  <2>1. CASE TakeCommand(i)
    BY <1>h, <1>t, <2>1, AtTaken
  <2>2. CASE Finished(i) \/ Crash(i)
    <3>1. /\ \A j \in Instance : cur'[j] = cur[j] \/ cur'[j] = NoCommand
          /\ \A j \in Instance : queue'[j] = queue[j] \/ queue'[j] = <<>>
      BY <1>t, <2>2 DEF Finished, Crash, Typed
    <3> QED
      BY <1>h, <3>1, AtLeft
  <2> QED
    BY <2>1, <2>2 DEF ManagerStep, Serve, ServeAcquire, ServeRelease, ServeKeepalive,
      StatementFails, ReplyLost, ErrorReply
<1>2. \A id \in WorkerId : loop'[id] \in {"due", "sent"} =>
        loop[id] \in {"due", "sent"} /\ owner'[id] = owner[id]
  <2>1. CASE UNCHANGED loopVars
    BY <2>1 DEF loopVars
  <2>2. CASE ServeKeepalive(i)
    <3>1. CASE row[cur[i].key] = cur[i].id
      BY <1>t, <2>2, <3>1 DEF ServeKeepalive, Typed
    <3>2. CASE row[cur[i].key] # cur[i].id
      <4>1. LoopsEnd({cur[i].id})
        BY <2>2, <3>2 DEF ServeKeepalive
      <4> QED
        BY <4>1 DEF LoopsEnd
    <3> QED
      BY <3>1, <3>2
  <2>3. CASE ErrorReply(i)
    BY <1>t, <2>3 DEF ErrorReply, Typed
  <2>4. CASE Crash(i)
    BY <2>4 DEF Crash, LoopsEnd
  <2> QED
    BY <2>1, <2>2, <2>3, <2>4
    DEF ManagerStep, Serve, TakeCommand, ServeAcquire, ServeRelease, StatementFails, ReplyLost
<1>3. ASSUME cpc'[c] = "holding"
      PROVE  cpc[c] = "holding" /\ cid'[c] = cid[c]
  <2>1. CASE UNCHANGED callerVars
    BY <1>3, <2>1 DEF callerVars
  <2>2. CASE cur[i] # NoCommand /\ Answered(i)
    BY <1>3, <1>t, <2>2, AnsweredShape
  <2>3. ASSUME NEW id \in WorkerId, cpc' = [cpc EXCEPT ![cur[i].from] = "granted"],
               cid' = [cid EXCEPT ![cur[i].from] = id]
        PROVE  cpc[c] = "holding" /\ cid'[c] = cid[c]
    BY <1>3, <1>t, <2>3 DEF Typed
  <2>4. CASE Crash(i)
    BY <1>3, <2>4 DEF Crash
  <2>5. CASE ServeAcquire(i)
    BY <2>1, <2>2, <2>3, <2>5 DEF ServeAcquire, Executing
  <2> QED
    BY <2>1, <2>2, <2>4, <2>5
    DEF ManagerStep, Serve, TakeCommand, ServeRelease, ServeKeepalive, Executing,
        StatementFails, ReplyLost, ErrorReply
<1>4. ASSUME cpc[c] = "holding"
      PROVE  age'[KeyOf[c]] = age[KeyOf[c]] \/ age'[KeyOf[c]] = 0
  <2>1. CASE UNCHANGED tableVars
    BY <2>1 DEF tableVars
  <2>2. CASE ServeAcquire(i)
    BY <1>4, <2>1, <2>2, RowTimely DEF ServeAcquire, Executing
  <2>3. CASE ServeRelease(i)
    BY <1>4, <2>3, RowTimely DEF ServeRelease, Executing
  <2>4. CASE ServeKeepalive(i)
    BY <1>4, <2>4, RowTimely DEF ServeKeepalive, Executing
  <2>5. CASE ReplyLost(i)
    <3>1. \/ MayTake(i, cur[i].key) /\ \E id \in WorkerId : WriteRow(cur[i].key, id)
          \/ cur[i].op = "release" /\ DeleteRow(cur[i].key, cur[i].id)
          \/ RefreshRow(cur[i].key, cur[i].id)
      BY <2>5 DEF ReplyLost
    <3> QED
      BY <1>4, <2>5, <3>1, RowTimely DEF ReplyLost
  <2> QED
    BY <2>1, <2>2, <2>3, <2>4, <2>5 DEF ManagerStep, Serve, TakeCommand, StatementFails, Crash
<1> QED
  BY <1>a, <1>s, <1>1, <1>2, <1>3, <1>4, AloneFrame

LEMMA StepAlone ==
  ASSUME Enough, Sole
  PROVE  IInv /\ FitInv /\ TimelyInv /\ StopInv /\ AloneInv /\ [Next]_vars => AloneInv'
<1> SUFFICES ASSUME IInv, FitInv, TimelyInv, StopInv, AloneInv, [Next]_vars,
                    NEW c \in Caller, Home[c] \in Prompt
             PROVE  Alone(c)'
  BY DEF AloneInv
<1>a. Alone(c) /\ Home[c] \in Instance
  BY WorkLockAssumption DEF AloneInv
<1>u. ASSUME UNCHANGED <<age, cpc, cid, loop, owner, queue, cur>> PROVE Alone(c)'
  <2>1. \A m \in GoodCommand : At(m, Home[c])' => At(m, Home[c]) /\ Same(m, m)
    BY <1>a, <1>u, AtLeft DEF Same
  <2> QED
    BY <1>a, <1>u, <2>1, AloneFrame
<1>1. ASSUME NEW k \in Key, EndTransaction(k) PROVE Alone(c)'
  BY <1>1, <1>u DEF EndTransaction, managerVars, callerVars, loopVars
<1>2. CASE UNCHANGED vars
  BY <1>2, <1>u DEF vars, tableVars, managerVars, callerVars, loopVars
<1>3. CASE Tick
  <2>1. UNCHANGED <<queue, cur, loop, owner>> /\ Quiet(Home[c])
    BY <1>3 DEF Tick, managerVars
  <2>2. ASSUME NEW m \in GoodCommand, At(m, Home[c])' PROVE FALSE
    <3>1. cur[Home[c]] = NoCommand /\ Len(queue[Home[c]]) = 0
      BY <2>1 DEF Quiet
    <3> QED
      BY <2>1, <2>2, <3>1 DEF At
  <2>3. ASSUME NEW id \in WorkerId, owner'[id] = c, loop'[id] \in {"due", "sent"} PROVE FALSE
    BY <2>1, <2>3, WorkLockAssumption DEF Quiet
  <2> QED
    BY <2>2, <2>3 DEF Alone
<1> QED
  BY <1>1, <1>2, <1>3, CallerAlone, LoopAlone, ManagerAlone DEF Next

\* With one caller at each prompt server no condition on the queue is needed: a
\* lease that has an age has had its earlier commands executed, so its keepalive
\* finds an empty queue (the single command channel of WorkLockManagerHandle).
THEOREM SolePromptHoldersKeep ==
  ASSUME Sole
  PROVE  Spec => []PromptHoldersKeepTheirLease
<1>1. CASE Enough
  <2>1. IInv /\ FitInv /\ TimelyInv /\ StopInv /\ AloneInv /\ [Next]_vars =>
          TimelyInv' /\ AloneInv'
    BY <1>1, StepTimely, StepAlone, AloneHasSlot
  <2>2. Spec => []TimelyInv
    BY <2>1, InitFit, StepFit, InitTimely, InitStop, StepStop, InitAlone, Inductive, PTL DEF Spec
  <2> QED
    BY <2>2, TimelyKeeps, PTL
<1>2. CASE ~Enough
  <2>1. PromptHoldersKeepTheirLease
    BY <1>2 DEF Enough, PromptHoldersKeepTheirLease
  <2> QED
    BY <2>1, PTL
<1> QED
  BY <1>1, <1>2
=============================================================================
