--------------------------- MODULE WorkLockProofs ----------------------------
(***************************************************************************)
(* Proofs about WorkLock, for any number of servers, callers, keys, faults *)
(* and any buffer size, keepalive interval and timeout.                    *)
(***************************************************************************)
EXTENDS WorkLock, TLAPS

(***************************************************************************)
(* The inductive invariant.                                                *)
(***************************************************************************)
\* Commands as callers and loops build them.
GoodCommand ==
  {m \in Command :
     /\ m.op = "keepalive" => m.from = NoCaller /\ m.id \in WorkerId
     /\ m.op # "keepalive" => m.from \in Caller /\ m.key = KeyOf[m.from]
     /\ m.op = "release" => m.id \in WorkerId}

TypeInv ==
  /\ TypeOK
  /\ queue \in [Instance -> Seq(GoodCommand)]
  /\ cur \in [Instance -> GoodCommand \cup {NoCommand}]

\* A caller has a worker id exactly from the grant to the release, and shares it
\* with no other caller; the keepalive loop starts with the WorkLock.
IdInv ==
  /\ \A c \in Caller : cpc[c] \in {"granted", "holding"} <=> cid[c] \in WorkerId
  /\ \A c, d \in Caller : cid[c] = cid[d] /\ cid[c] \in WorkerId => c = d
  /\ \A c \in Caller : cpc[c] = "granted" => loop[cid[c]] = "none"

\* A command that a caller sent is at the caller's server, and while its reply
\* channel is open the caller waits for it.
Awaited(m, i, pc) ==
  m.op # "keepalive" =>
    /\ Home[m.from] = i
    /\ m.open => pc[m.from] = IF m.op = "acquire" THEN "asking" ELSE "releasing"

OpenFrom(m, c) == m.op # "keepalive" /\ m.open /\ m.from = c

ReplyInv ==
  \A i \in Instance :
    /\ cur[i] # NoCommand => Awaited(cur[i], i, cpc)
    /\ \A n \in 1 .. Len(queue[i]) : Awaited(queue[i][n], i, cpc)
    /\ \A c \in Caller : \A n \in 1 .. Len(queue[i]) : OpenFrom(queue[i][n], c) =>
         /\ \A m \in 1 .. Len(queue[i]) : OpenFrom(queue[i][m], c) => m = n
         /\ cur[i] # NoCommand => ~OpenFrom(cur[i], c)

\* A keepalive is at its loop's server, the loop waits for it, and it is alone.
IsKeepalive(m, id) == m.op = "keepalive" /\ m.id = id

KeptBy(m, i, lp, own) ==
  m.op = "keepalive" =>
    lp[m.id] = "sent" /\ own[m.id] \in Caller /\ Home[own[m.id]] = i

KeepInv ==
  /\ \A id \in WorkerId : loop[id] # "none" => owner[id] \in Caller
  /\ \A i \in Instance :
       /\ cur[i] # NoCommand => KeptBy(cur[i], i, loop, owner)
       /\ \A n \in 1 .. Len(queue[i]) : KeptBy(queue[i][n], i, loop, owner)
       /\ \A id \in WorkerId : \A n \in 1 .. Len(queue[i]) :
            IsKeepalive(queue[i][n], id) =>
              /\ \A m \in 1 .. Len(queue[i]) : IsKeepalive(queue[i][m], id) => m = n
              /\ cur[i] # NoCommand => ~IsKeepalive(cur[i], id)

\* Behind an acquire its caller still waits for, no release of that caller.
ReleaseOf(m, c) == m.op = "release" /\ m.from = c

OrderInv ==
  \A i \in Instance : \A c \in Caller :
    /\ \A n \in 1 .. Len(queue[i]) :
         queue[i][n].op = "acquire" /\ OpenFrom(queue[i][n], c) =>
           \A m \in 1 .. Len(queue[i]) : m > n => ~ReleaseOf(queue[i][m], c)
    /\ Executing(i, "acquire") /\ OpenFrom(cur[i], c) =>
         \A m \in 1 .. Len(queue[i]) : ~ReleaseOf(queue[i][m], c)

\* Until something fails every acquire is awaited and every lease accounted for.
Releases(m, k, id) == m.op = "release" /\ m.id = id /\ m.key = k

OnItsWay(k, id) ==
  \E i \in Instance :
    \/ cur[i] # NoCommand /\ Releases(cur[i], k, id)
    \/ \E n \in 1 .. Len(queue[i]) : Releases(queue[i][n], k, id)

Held(k, id) == \E c \in Caller : cid[c] = id /\ KeyOf[c] = k

LeaseInv ==
  /\ \A j, k \in Key : row[j] = row[k] /\ row[j] # NoId => j = k
  /\ faults = 0 =>
       /\ \A i \in Instance :
            /\ Executing(i, "acquire") => cur[i].open
            /\ \A n \in 1 .. Len(queue[i]) : queue[i][n].op = "acquire" => queue[i][n].open
       /\ \A k \in Key : row[k] # NoId => Held(k, row[k]) \/ OnItsWay(k, row[k])

FenceInv == FencedWorkersKeepTheirRow

IInv == TypeInv /\ IdInv /\ ReplyInv /\ KeepInv /\ OrderInv /\ LeaseInv /\ FenceInv

(***************************************************************************)
(* Queues.                                                                 *)
(***************************************************************************)
LEMMA Appended ==
  ASSUME NEW S, NEW q \in Seq(S), NEW e \in S
  PROVE  /\ Append(q, e) \in Seq(S)
         /\ Len(Append(q, e)) = Len(q) + 1
         /\ Append(q, e)[Len(q) + 1] = e
         /\ \A n \in 1 .. Len(q) : Append(q, e)[n] = q[n]
  OBVIOUS

LEMMA Shifted ==
  ASSUME NEW S, NEW q \in Seq(S), q # <<>>
  PROVE  /\ Tail(q) \in Seq(S)
         /\ Len(q) \in Nat \ {0}
         /\ Len(Tail(q)) = Len(q) - 1
         /\ Head(q) = q[1] /\ q[1] \in S
         /\ \A n \in 1 .. Len(Tail(q)) : Tail(q)[n] = q[n + 1]
  OBVIOUS

LEMMA Element ==
  ASSUME NEW S, NEW q \in Seq(S), NEW n \in 1 .. Len(q)
  PROVE  q[n] \in S
  OBVIOUS

\* What Cancel(c) does to a command.
Closed(m, c) == IF m # NoCommand /\ m.from = c THEN [m EXCEPT !.open = FALSE] ELSE m

LEMMA ClosedGood ==
  ASSUME NEW m \in GoodCommand, NEW c \in Caller
  PROVE  /\ Closed(m, c) \in GoodCommand
         /\ Closed(m, c).op = m.op
         /\ Closed(m, c).id = m.id
         /\ Closed(m, c).key = m.key
         /\ Closed(m, c).from = m.from
         /\ Closed(m, c).open = (m.open /\ m.from # c)
  BY NoCommandAssumption, WorkLockAssumption DEF Closed, GoodCommand, Command

LEMMA ClosedNothing == \A c \in Caller : Closed(NoCommand, c) = NoCommand
  BY Zenon DEF Closed

LEMMA CancelShape ==
  ASSUME TypeInv, NEW c \in Caller, Cancel(c)
  PROVE  /\ queue' \in [Instance -> Seq(GoodCommand)]
         /\ cur' = [i \in Instance |-> Closed(cur[i], c)]
         /\ \A i \in Instance :
              /\ Len(queue'[i]) = Len(queue[i])
              /\ \A n \in 1 .. Len(queue[i]) : queue'[i][n] = Closed(queue[i][n], c)
<1> DEFINE mapped(i) == [n \in 1 .. Len(queue[i]) |-> Closed(queue[i][n], c)]
<1>1. /\ queue' = [i \in Instance |-> mapped(i)]
      /\ cur' = [i \in Instance |-> Closed(cur[i], c)]
  BY DEF Cancel, Closed, TypeInv
<1>2. ASSUME NEW i \in Instance
      PROVE  mapped(i) \in Seq(GoodCommand) /\ Len(mapped(i)) = Len(queue[i])
  <2>1. queue[i] \in Seq(GoodCommand) /\ Len(queue[i]) \in Nat
    BY DEF TypeInv
  <2>2. \A n \in 1 .. Len(queue[i]) : Closed(queue[i][n], c) \in GoodCommand
    BY <2>1, Element, ClosedGood
  <2> HIDE DEF Closed
  <2> QED
    BY <2>1, <2>2
<1> QED
  BY <1>1, <1>2

(***************************************************************************)
(* Types.                                                                  *)
(***************************************************************************)
LEMMA InitType == Init => TypeInv
  BY WorkLockAssumption, NoCommandAssumption DEF Init, TypeInv, TypeOK, Expired

LEMMA GoodIsCommand == GoodCommand \subseteq Command /\ Seq(GoodCommand) \subseteq Seq(Command)
<1>1. GoodCommand \subseteq Command
  BY DEF GoodCommand
<1>2. ASSUME NEW q \in Seq(GoodCommand) PROVE q \in Seq(Command)
  BY <1>1
<1> QED
  BY <1>1, <1>2

\* TypeInv without the part of it that GoodCommand implies.
Typed ==
  /\ row \in [Key -> WorkerId \cup {NoId}]
  /\ age \in [Key -> 0 .. Expired]
  /\ fence \in [Key -> SUBSET WorkerId]
  /\ queue \in [Instance -> Seq(GoodCommand)]
  /\ cur \in [Instance -> GoodCommand \cup {NoCommand}]
  /\ seen \in [Instance -> WorkerId \cup {NoId}]
  /\ cpc \in [Caller -> {"idle", "asking", "granted", "holding", "releasing"}]
  /\ cid \in [Caller -> WorkerId \cup {NoId}]
  /\ loop \in [WorkerId -> {"none", "idle", "due", "sent"}]
  /\ stop \in [WorkerId -> BOOLEAN]
  /\ owner \in [WorkerId -> Caller \cup {NoCaller}]
  /\ ktime \in [WorkerId -> 0 .. Interval]
  /\ faults \in 0 .. MaxFaults

LEMMA TypedBefore == TypeInv => Typed
  BY DEF TypeInv, TypeOK, Typed

LEMMA TypedAfter == Typed' => TypeInv'
<1> HAVE Typed'
<1>1. queue' \in [Instance -> Seq(Command)]
  BY GoodIsCommand DEF Typed
<1>2. cur' \in [Instance -> Command \cup {NoCommand}]
  BY GoodIsCommand DEF Typed
<1> QED
  BY <1>1, <1>2 DEF TypeInv, TypeOK, Typed

LEMMA SendType ==
  ASSUME TypeInv, NEW i \in Instance, NEW m \in GoodCommand, Send(i, m)
  PROVE  /\ queue' \in [Instance -> Seq(GoodCommand)]
         /\ \A j \in Instance : j # i => queue'[j] = queue[j]
         /\ Len(queue'[i]) = Len(queue[i]) + 1
         /\ Len(queue[i]) \in Nat
         /\ queue'[i][Len(queue[i]) + 1] = m
         /\ \A n \in 1 .. Len(queue[i]) : queue'[i][n] = queue[i][n]
<1>1. queue[i] \in Seq(GoodCommand) /\ queue \in [Instance -> Seq(GoodCommand)]
  BY DEF TypeInv
<1>2. queue' = [queue EXCEPT ![i] = Append(queue[i], m)]
  BY DEF Send
<1> QED
  BY <1>1, <1>2, Appended

\* The commands that callers and loops send.
AcquireBy(c) == [op |-> "acquire", key |-> KeyOf[c], id |-> NoId, from |-> c, open |-> TRUE]
ReleaseBy(c, wait) ==
  [op |-> "release", key |-> KeyOf[c], id |-> cid[c], from |-> c, open |-> wait]
KeepaliveBy(id) == [op |-> "keepalive", key |-> KeyOf[owner[id]], id |-> id,
                    from |-> NoCaller, open |-> TRUE]

LEMMA SentAreGood ==
  ASSUME TypeInv, IdInv, KeepInv
  PROVE  /\ \A c \in Caller : AcquireBy(c) \in GoodCommand
         /\ \A c \in Caller, wait \in BOOLEAN :
              cpc[c] = "holding" => ReleaseBy(c, wait) \in GoodCommand
         /\ \A id \in WorkerId : loop[id] # "none" => KeepaliveBy(id) \in GoodCommand
  BY WorkLockAssumption
  DEF AcquireBy, ReleaseBy, KeepaliveBy, GoodCommand, Command, IdInv, KeepInv

LEMMA CallerType ==
  ASSUME TypeInv, IdInv, KeepInv, NEW c \in Caller, CallerStep(c)
  PROVE  TypeInv'
<1> SUFFICES Typed'
  BY TypedAfter
<1>t. Typed
  BY TypedBefore
<1> USE WorkLockAssumption, <1>t DEF Typed, tableVars, managerVars, callerVars, loopVars
<1>h. Home[c] \in Instance /\ KeyOf[c] \in Key
  OBVIOUS
<1>1. CASE Ask(c)
  <2>1. queue' \in [Instance -> Seq(GoodCommand)]
    BY <1>1, <1>h, SentAreGood, SendType DEF Ask, AcquireBy
  <2> QED
    BY <1>1, <2>1 DEF Ask
<1>2. CASE Poll(c)
  <2>1. cid[c] \in WorkerId
    BY <1>2 DEF Poll, IdInv
  <2>2. stop' \in [WorkerId -> BOOLEAN]
    BY <1>2, <2>1 DEF Poll
  <2> QED
    BY <1>2, <2>1, <2>2 DEF Poll
<1>3. CASE Cancel(c)
  <2>1. ASSUME NEW i \in Instance PROVE Closed(cur[i], c) \in GoodCommand \cup {NoCommand}
    <3>1. CASE cur[i] = NoCommand
      BY <3>1, ClosedNothing
    <3>2. CASE cur[i] \in GoodCommand
      BY <3>2, ClosedGood
    <3> QED
      BY <3>1, <3>2
  <2>2. /\ cur' \in [Instance -> GoodCommand \cup {NoCommand}]
        /\ queue' \in [Instance -> Seq(GoodCommand)]
    BY <1>3, <2>1, CancelShape
  <2>3. /\ cpc' = [cpc EXCEPT ![c] = "idle"]
        /\ cid' = [cid EXCEPT ![c] = NoId]
        /\ faults' = faults + 1 /\ faults < MaxFaults
        /\ UNCHANGED <<tableVars, seen, loopVars>>
    BY <1>3 DEF Cancel, Fault
  <2> QED
    BY <2>2, <2>3
<1>4. CASE FenceTransaction(c)
  BY <1>4 DEF FenceTransaction, IdInv
<1>5. ASSUME NEW wait \in BOOLEAN, Release(c, wait) PROVE Typed'
  <2>1. queue' \in [Instance -> Seq(GoodCommand)]
    BY <1>5, <1>h, SentAreGood, SendType DEF Release, ReleaseBy
  <2>2. cpc' \in [Caller -> {"idle", "asking", "granted", "holding", "releasing"}]
    BY <1>5 DEF Release
  <2>3. stop' \in [WorkerId -> BOOLEAN]
    BY <1>5 DEF Release
  <2> QED
    BY <1>5, <2>1, <2>2, <2>3 DEF Release
<1> QED
  BY <1>1, <1>2, <1>3, <1>4, <1>5 DEF CallerStep

LEMMA LoopsEndType ==
  ASSUME TypeInv, NEW STATE ids, LoopsEnd(ids)
  PROVE  /\ loop' \in [WorkerId -> {"none", "idle", "due", "sent"}]
         /\ stop' \in [WorkerId -> BOOLEAN]
         /\ owner' \in [WorkerId -> Caller \cup {NoCaller}]
         /\ ktime' \in [WorkerId -> 0 .. Interval]
<1>1. /\ loop' \in [WorkerId -> {"none", "idle", "due", "sent"}]
      /\ owner' \in [WorkerId -> Caller \cup {NoCaller}]
      /\ ktime' \in [WorkerId -> 0 .. Interval]
  BY WorkLockAssumption, TypedBefore DEF LoopsEnd, Typed
<1>2. \A id \in WorkerId : stop[id] \in BOOLEAN
  BY TypedBefore DEF Typed
<1>3. stop' \in [WorkerId -> BOOLEAN]
  BY <1>2, Zenon DEF LoopsEnd
<1> QED
  BY <1>1, <1>3

LEMMA LoopType ==
  ASSUME TypeInv, IdInv, KeepInv, NEW id \in WorkerId, LoopStep(id)
  PROVE  TypeInv'
<1> SUFFICES Typed'
  BY TypedAfter
<1>t. Typed
  BY TypedBefore
<1> USE WorkLockAssumption, <1>t DEF Typed, tableVars, managerVars, callerVars, loopVars
<1>1. CASE KeepaliveTick(id)
  BY <1>1 DEF KeepaliveTick
<1>2. CASE KeepaliveSend(id)
  <2>1. Home[owner[id]] \in Instance
    BY <1>2 DEF KeepaliveSend, KeepInv
  <2>2. queue' \in [Instance -> Seq(GoodCommand)]
    BY <1>2, <2>1, SentAreGood, SendType DEF KeepaliveSend, KeepaliveBy
  <2>3. loop' \in [WorkerId -> {"none", "idle", "due", "sent"}]
    BY <1>2 DEF KeepaliveSend
  <2> QED
    BY <1>2, <2>2, <2>3 DEF KeepaliveSend
<1>3. CASE LoopStops(id)
  BY <1>3, LoopsEndType DEF LoopStops
<1> QED
  BY <1>1, <1>2, <1>3 DEF LoopStep

\* The command an instance executes.
LEMMA Current ==
  ASSUME TypeInv, NEW i \in Instance, cur[i] # NoCommand
  PROVE  /\ cur[i] \in GoodCommand
         /\ cur[i].key \in Key
         /\ cur[i].open \in BOOLEAN
         /\ cur[i].op \in {"acquire", "keepalive", "release"}
         /\ cur[i].op = "keepalive" => cur[i].id \in WorkerId
         /\ cur[i].op = "release" => cur[i].id \in WorkerId
         /\ cur[i].op # "keepalive" => cur[i].from \in Caller /\ cur[i].key = KeyOf[cur[i].from]
  BY DEF TypeInv, GoodCommand, Command

LEMMA RowType ==
  ASSUME TypeInv, NEW k \in Key, NEW id \in WorkerId \cup {NoId}
  PROVE  /\ WriteRow(k, id) => /\ row' \in [Key -> WorkerId \cup {NoId}]
                               /\ age' \in [Key -> 0 .. Expired]
                               /\ fence' = fence
         /\ DeleteRow(k, id) => /\ row' \in [Key -> WorkerId \cup {NoId}]
                                /\ age' \in [Key -> 0 .. Expired]
                                /\ fence' = fence
         /\ RefreshRow(k, id) => /\ row' = row
                                 /\ age' \in [Key -> 0 .. Expired]
                                 /\ fence' = fence
<1> USE WorkLockAssumption, TypedBefore DEF Typed, Expired
<1>1. ASSUME NEW x \in WorkerId \cup {NoId}, WriteRow(k, x)
      PROVE  /\ row' \in [Key -> WorkerId \cup {NoId}]
             /\ age' \in [Key -> 0 .. Expired]
             /\ fence' = fence
  BY <1>1 DEF WriteRow
<1>2. ASSUME DeleteRow(k, id)
      PROVE  /\ row' \in [Key -> WorkerId \cup {NoId}]
             /\ age' \in [Key -> 0 .. Expired]
             /\ fence' = fence
  BY <1>1, <1>2 DEF DeleteRow, tableVars
<1>3. ASSUME RefreshRow(k, id)
      PROVE  /\ row' = row
             /\ age' \in [Key -> 0 .. Expired]
             /\ fence' = fence
  BY <1>3 DEF RefreshRow
<1> QED
  BY <1>1, <1>2, <1>3

LEMMA AnsweredType ==
  ASSUME TypeInv, NEW i \in Instance, Answered(i)
  PROVE  /\ cpc' \in [Caller -> {"idle", "asking", "granted", "holding", "releasing"}]
         /\ cid' = cid
  BY TypedBefore DEF Answered, Typed

LEMMA FinishedType ==
  ASSUME TypeInv, NEW i \in Instance, Finished(i)
  PROVE  /\ cur' \in [Instance -> GoodCommand \cup {NoCommand}]
         /\ seen' \in [Instance -> WorkerId \cup {NoId}]
         /\ queue' = queue
  BY TypedBefore DEF Finished, Typed

LEMMA ErrorReplyType ==
  ASSUME TypeInv, NEW i \in Instance, cur[i] # NoCommand, ErrorReply(i)
  PROVE  /\ cpc' \in [Caller -> {"idle", "asking", "granted", "holding", "releasing"}]
         /\ cur' \in [Instance -> GoodCommand \cup {NoCommand}]
         /\ seen' \in [Instance -> WorkerId \cup {NoId}]
         /\ loop' \in [WorkerId -> {"none", "idle", "due", "sent"}]
         /\ UNCHANGED <<cid, queue, stop, owner, ktime>>
<1>1. loop' \in [WorkerId -> {"none", "idle", "due", "sent"}]
  BY Current, TypedBefore DEF ErrorReply, Typed
<1> QED
  BY <1>1, AnsweredType, FinishedType DEF ErrorReply

LEMMA ManagerType ==
  ASSUME TypeInv, NEW i \in Instance, ManagerStep(i)
  PROVE  TypeInv'
<1> SUFFICES Typed'
  BY TypedAfter
<1>t. Typed
  BY TypedBefore
<1> USE WorkLockAssumption, <1>t DEF Typed, tableVars, managerVars, callerVars, loopVars
<1>1. CASE TakeCommand(i)
  <2>1. /\ Tail(queue[i]) \in Seq(GoodCommand)
        /\ Head(queue[i]) \in GoodCommand
    BY <1>1, Shifted DEF TakeCommand
  <2>2. Head(queue[i]).key \in Key
    BY <2>1 DEF GoodCommand, Command
  <2> QED
    BY <1>1, <2>1, <2>2 DEF TakeCommand
<1>2. CASE ServeAcquire(i)
  <2>1. cur[i] # NoCommand /\ cur[i].op = "acquire"
    BY <1>2 DEF ServeAcquire, Executing
  <2>2. cur[i].key \in Key /\ cur[i].from \in Caller
    BY <2>1, Current
  <2>3. /\ row' \in [Key -> WorkerId \cup {NoId}]
        /\ age' \in [Key -> 0 .. Expired]
        /\ fence' = fence
        /\ cpc' \in [Caller -> {"idle", "asking", "granted", "holding", "releasing"}]
        /\ cid' \in [Caller -> WorkerId \cup {NoId}]
    <3>1. ASSUME NEW id \in WorkerId, WriteRow(cur[i].key, id)
          PROVE  /\ row' \in [Key -> WorkerId \cup {NoId}]
                 /\ age' \in [Key -> 0 .. Expired]
                 /\ fence' = fence
      BY <2>2, <3>1, RowType
    <3>2. ASSUME NEW id \in WorkerId,
                 cpc' = [cpc EXCEPT ![cur[i].from] = "granted"],
                 cid' = [cid EXCEPT ![cur[i].from] = id]
          PROVE  /\ cpc' \in [Caller -> {"idle", "asking", "granted", "holding", "releasing"}]
                 /\ cid' \in [Caller -> WorkerId \cup {NoId}]
      BY <3>2
    <3> QED
      BY <1>2, <3>1, <3>2, AnsweredType DEF ServeAcquire
  <2> QED
    BY <1>2, <2>3, FinishedType DEF ServeAcquire
<1>3. CASE ServeRelease(i)
  BY <1>3, Current, RowType, AnsweredType, FinishedType DEF ServeRelease, Executing
<1>4. CASE ServeKeepalive(i)
  <2>1. cur[i] # NoCommand /\ cur[i].key \in Key /\ cur[i].id \in WorkerId
    BY <1>4, Current DEF ServeKeepalive, Executing
  <2>2. /\ loop' \in [WorkerId -> {"none", "idle", "due", "sent"}]
        /\ stop' \in [WorkerId -> BOOLEAN]
        /\ owner' \in [WorkerId -> Caller \cup {NoCaller}]
        /\ ktime' \in [WorkerId -> 0 .. Interval]
    BY <1>4, <2>1, LoopsEndType DEF ServeKeepalive
  <2> QED
    BY <1>4, <2>1, <2>2, RowType, FinishedType DEF ServeKeepalive
<1>5. CASE StatementFails(i)
  BY <1>5, ErrorReplyType DEF StatementFails, Fault
<1>6. CASE ReplyLost(i)
  <2>1. cur[i] # NoCommand /\ cur[i].key \in Key
    BY <1>6, Current DEF ReplyLost
  <2>2. /\ row' \in [Key -> WorkerId \cup {NoId}]
        /\ age' \in [Key -> 0 .. Expired]
        /\ fence' = fence
    <3>1. CASE cur[i].op = "acquire"
      BY <1>6, <2>1, <3>1, RowType DEF ReplyLost
    <3>2. CASE cur[i].op = "release"
      BY <1>6, <2>1, <3>2, Current, RowType DEF ReplyLost
    <3>3. CASE cur[i].op = "keepalive"
      BY <1>6, <2>1, <3>3, Current, RowType DEF ReplyLost
    <3> QED
      BY <2>1, <3>1, <3>2, <3>3, Current
  <2> QED
    BY <1>6, <2>1, <2>2, ErrorReplyType DEF ReplyLost, Fault
<1>7. CASE Crash(i)
  <2>1. /\ loop' \in [WorkerId -> {"none", "idle", "due", "sent"}]
        /\ stop' \in [WorkerId -> BOOLEAN]
        /\ owner' \in [WorkerId -> Caller \cup {NoCaller}]
        /\ ktime' \in [WorkerId -> 0 .. Interval]
    BY <1>7, LoopsEndType DEF Crash
  <2>2. queue' \in [Instance -> Seq(GoodCommand)]
    BY <1>7 DEF Crash
  <2> QED
    BY <1>7, <2>1, <2>2 DEF Crash, Fault
<1> QED
  BY <1>1, <1>2, <1>3, <1>4, <1>5, <1>6, <1>7 DEF ManagerStep, Serve

LEMMA StepType == IInv /\ [Next]_vars => TypeInv'
<1> SUFFICES ASSUME IInv, [Next]_vars PROVE TypeInv'
  OBVIOUS
<1> USE DEF IInv
<1>1. ASSUME NEW k \in Key, EndTransaction(k) PROVE TypeInv'
  BY <1>1, TypedBefore, TypedAfter
  DEF EndTransaction, Typed, managerVars, callerVars, loopVars
<1>2. CASE Tick
  BY <1>2, TypedBefore, TypedAfter, WorkLockAssumption
  DEF Tick, Typed, Expired, managerVars, callerVars
<1>3. CASE UNCHANGED vars
  BY <1>3, TypedBefore, TypedAfter
  DEF vars, Typed, tableVars, managerVars, callerVars, loopVars
<1> QED
  BY <1>1, <1>2, <1>3, CallerType, LoopType, ManagerType DEF Next

(***************************************************************************)
(* Worker ids.                                                             *)
(***************************************************************************)
\* The caller that a reply wakes up is waiting for it.
LEMMA AnsweredShape ==
  ASSUME TypeInv, ReplyInv, NEW i \in Instance, cur[i] # NoCommand, Answered(i)
  PROVE  /\ cid' = cid
         /\ \A c \in Caller :
              \/ cpc'[c] = cpc[c] /\ ~OpenFrom(cur[i], c)
              \/ cpc'[c] = "idle" /\ OpenFrom(cur[i], c)
                   /\ cpc[c] \in {"asking", "releasing"}
<1>1. cur[i].op = "keepalive" => cur[i].from = NoCaller
  BY Current DEF GoodCommand
<1>2. Awaited(cur[i], i, cpc) /\ cur[i].open \in BOOLEAN
  BY Current DEF ReplyInv
<1>3. ASSUME NEW c \in Caller
      PROVE  \/ cpc'[c] = cpc[c] /\ ~OpenFrom(cur[i], c)
             \/ cpc'[c] = "idle" /\ OpenFrom(cur[i], c)
                  /\ cpc[c] \in {"asking", "releasing"}
  BY <1>1, <1>2, WorkLockAssumption DEF Answered, OpenFrom, Awaited
<1> QED
  BY <1>3 DEF Answered

LEMMA CallerId ==
  ASSUME TypeInv, IdInv, NEW c \in Caller, CallerStep(c)
  PROVE  IdInv'
<1>t. Typed
  BY TypedBefore
<1> USE WorkLockAssumption, <1>t
    DEF Typed, IdInv, tableVars, managerVars, callerVars, loopVars
<1>1. CASE Ask(c)
  BY <1>1 DEF Ask
<1>2. CASE Poll(c)
  BY <1>2 DEF Poll
<1>3. CASE Cancel(c)
  <2>1. /\ cpc' = [cpc EXCEPT ![c] = "idle"]
        /\ cid' = [cid EXCEPT ![c] = NoId]
        /\ loop' = loop
    BY <1>3 DEF Cancel
  <2> QED
    BY <2>1
<1>4. CASE FenceTransaction(c)
  BY <1>4 DEF FenceTransaction
<1>5. ASSUME NEW wait \in BOOLEAN, Release(c, wait) PROVE IdInv'
  <2>1. /\ cpc' = [cpc EXCEPT ![c] = IF wait THEN "releasing" ELSE "idle"]
        /\ cid' = [cid EXCEPT ![c] = NoId]
        /\ loop' = loop
    BY <1>5 DEF Release
  <2> QED
    BY <2>1
<1> QED
  BY <1>1, <1>2, <1>3, <1>4, <1>5 DEF CallerStep

LEMMA LoopId ==
  ASSUME TypeInv, IdInv, NEW id \in WorkerId, LoopStep(id)
  PROVE  IdInv'
<1>t. Typed
  BY TypedBefore
<1>1. /\ callerVars' = callerVars
      /\ loop[id] # "none"
      /\ \A o \in WorkerId : o # id => loop'[o] = loop[o]
  BY <1>t DEF LoopStep, KeepaliveTick, KeepaliveSend, LoopStops, LoopsEnd, callerVars, Typed
<1> QED
  BY <1>1, <1>t DEF IdInv, callerVars, Typed

\* A reply or an error changes only the caller that waits, and a loop only ends
\* or leaves "sent".
LEMMA IdKept ==
  ASSUME TypeInv, IdInv, cid' = cid,
         \A c \in Caller : cpc'[c] = cpc[c] \/ {cpc[c], cpc'[c]} \cap {"granted", "holding"} = {},
         \A id \in WorkerId : loop[id] = "none" => loop'[id] = "none"
  PROVE  IdInv'
  BY DEF IdInv

LEMMA ManagerId ==
  ASSUME TypeInv, IdInv, ReplyInv, KeepInv, NEW i \in Instance, ManagerStep(i)
  PROVE  IdInv'
<1>t. Typed
  BY TypedBefore
<1>e. ASSUME cur[i] # NoCommand, ErrorReply(i) PROVE IdInv'
  <2>1. \A id \in WorkerId : loop[id] = "none" => loop'[id] = "none"
    BY <1>t, <1>e, Current DEF ErrorReply, Typed, KeepInv, KeptBy
  <2> QED
    BY <2>1, <1>e, AnsweredShape, IdKept DEF ErrorReply
<1>1. CASE TakeCommand(i)
  BY <1>1, IdKept DEF TakeCommand, callerVars, loopVars
<1>2. CASE ServeAcquire(i)
  <2>1. cur[i] # NoCommand /\ cur[i].from \in Caller
    BY <1>2, Current DEF ServeAcquire, Executing
  <2>2. CASE Answered(i)
    BY <1>2, <2>1, <2>2, AnsweredShape, IdKept DEF ServeAcquire, loopVars
  <2>3. CASE UNCHANGED callerVars
    BY <1>2, <2>3, IdKept DEF ServeAcquire, loopVars, callerVars
  <2>4. ASSUME NEW id \in WorkerId, Unused(id),
               cpc' = [cpc EXCEPT ![cur[i].from] = "granted"],
               cid' = [cid EXCEPT ![cur[i].from] = id]
        PROVE  IdInv'
    <3>1. loop' = loop
      BY <1>2 DEF ServeAcquire, loopVars
    <3>2. loop[id] = "none" /\ \A c \in Caller : cid[c] # id
      BY <2>4 DEF Unused
    <3> QED
      BY <1>t, <2>1, <2>4, <3>1, <3>2 DEF IdInv, Typed
  <2> QED
    BY <1>2, <2>2, <2>3, <2>4 DEF ServeAcquire
<1>3. CASE ServeRelease(i)
  BY <1>3, AnsweredShape, IdKept DEF ServeRelease, Executing, loopVars
<1>4. CASE ServeKeepalive(i)
  <2>1. \A id \in WorkerId : loop[id] = "none" => loop'[id] = "none"
    <3>1. cur[i].id \in WorkerId /\ loop[cur[i].id] = "sent"
      BY <1>4, Current DEF ServeKeepalive, Executing, KeepInv, KeptBy
    <3>2. \/ loop' = [loop EXCEPT ![cur[i].id] = "idle"]
          \/ loop' = [id \in WorkerId |-> IF id \in {cur[i].id} THEN "none" ELSE loop[id]]
      BY <1>4, Zenon DEF ServeKeepalive, LoopsEnd
    <3> QED
      BY <1>t, <3>1, <3>2 DEF Typed
  <2> QED
    BY <1>4, <2>1, IdKept DEF ServeKeepalive, callerVars
<1>5. CASE StatementFails(i)
  BY <1>5, <1>e DEF StatementFails
<1>6. CASE ReplyLost(i)
  BY <1>6, <1>e DEF ReplyLost
<1>7. CASE Crash(i)
  <2>1. \A id \in WorkerId : loop[id] = "none" => loop'[id] = "none"
    BY <1>7 DEF Crash, LoopsEnd
  <2>2. \A c \in Caller :
           /\ cpc'[c] = IF Home[c] = i THEN "idle" ELSE cpc[c]
           /\ cid'[c] = IF Home[c] = i THEN NoId ELSE cid[c]
    BY <1>7 DEF Crash
  <2> QED
    <3>1. \A c \in Caller : cpc'[c] \in {"granted", "holding"} <=> cid'[c] \in WorkerId
      BY <2>2, WorkLockAssumption DEF IdInv
    <3>2. \A c \in Caller : cid'[c] \in WorkerId => cpc'[c] = cpc[c] /\ cid'[c] = cid[c]
      BY <2>2, WorkLockAssumption
    <3> QED
      BY <2>1, <3>1, <3>2 DEF IdInv
<1> QED
  BY <1>1, <1>2, <1>3, <1>4, <1>5, <1>6, <1>7 DEF ManagerStep, Serve

LEMMA StepId == IInv /\ [Next]_vars => IdInv'
<1> SUFFICES ASSUME IInv, [Next]_vars PROVE IdInv'
  OBVIOUS
<1> USE DEF IInv
<1>1. ASSUME NEW k \in Key, EndTransaction(k) PROVE IdInv'
  BY <1>1 DEF EndTransaction, IdInv, callerVars, loopVars
<1>2. CASE Tick
  BY <1>2 DEF Tick, IdInv, callerVars
<1>3. CASE UNCHANGED vars
  BY <1>3 DEF vars, IdInv, callerVars, loopVars
<1> QED
  BY <1>1, <1>2, <1>3, CallerId, LoopId, ManagerId DEF Next

(***************************************************************************)
(* Replies.                                                                *)
(***************************************************************************)
\* No command in flight has c's reply channel.
Silent(c) ==
  \A i \in Instance :
    /\ cur[i] # NoCommand => ~OpenFrom(cur[i], c)
    /\ \A n \in 1 .. Len(queue[i]) : ~OpenFrom(queue[i][n], c)

LEMMA WaitsOrSilent ==
  ASSUME ReplyInv, NEW c \in Caller, cpc[c] \notin {"asking", "releasing"}
  PROVE  Silent(c)
<1>1. ASSUME NEW m, NEW i \in Instance, Awaited(m, i, cpc) PROVE ~OpenFrom(m, c)
  BY <1>1 DEF Awaited, OpenFrom
<1> QED
  BY <1>1 DEF ReplyInv, Silent

\* Commands only leave, and who stops or starts to wait has none.
LEMMA ReplyFrame ==
  ASSUME TypeInv, ReplyInv,
         \A i \in Instance : cur'[i] = cur[i] \/ cur'[i] = NoCommand,
         \A i \in Instance : queue'[i] = queue[i] \/ queue'[i] = <<>>,
         \A c \in Caller : cpc'[c] = cpc[c] \/ Silent(c)'
  PROVE  ReplyInv'
<1> SUFFICES ASSUME NEW i \in Instance
             PROVE  /\ cur'[i] # NoCommand => Awaited(cur'[i], i, cpc')
                    /\ \A n \in 1 .. Len(queue'[i]) : Awaited(queue'[i][n], i, cpc')
                    /\ \A c \in Caller : \A n \in 1 .. Len(queue'[i]) : OpenFrom(queue'[i][n], c) =>
                         /\ \A m \in 1 .. Len(queue'[i]) : OpenFrom(queue'[i][m], c) => m = n
                         /\ cur'[i] # NoCommand => ~OpenFrom(cur'[i], c)
  BY DEF ReplyInv, OpenFrom, Awaited
<1>1. ASSUME NEW m \in GoodCommand, Awaited(m, i, cpc), m.op # "keepalive" => ~OpenFrom(m, m.from) \/ cpc'[m.from] = cpc[m.from]
      PROVE  Awaited(m, i, cpc')
  BY <1>1 DEF Awaited, OpenFrom
<1>2. cur'[i] # NoCommand => Awaited(cur'[i], i, cpc')
  <2> HAVE cur'[i] # NoCommand
  <2>1. cur'[i] = cur[i] /\ cur[i] \in GoodCommand /\ Awaited(cur[i], i, cpc)
    BY DEF TypeInv, ReplyInv
  <2>2. cur[i].op # "keepalive" => cur[i].from \in Caller
    BY <2>1 DEF GoodCommand
  <2>3. cur[i].op # "keepalive" => ~OpenFrom(cur[i], cur[i].from) \/ cpc'[cur[i].from] = cpc[cur[i].from]
    BY <2>1, <2>2 DEF Silent, OpenFrom
  <2> QED
    BY <1>1, <2>1, <2>3
<1>3. ASSUME NEW n \in 1 .. Len(queue'[i]) PROVE Awaited(queue'[i][n], i, cpc')
  <2>1. queue'[i] = queue[i] /\ n \in 1 .. Len(queue[i])
    OBVIOUS
  <2>2. queue[i][n] \in GoodCommand /\ Awaited(queue[i][n], i, cpc)
    BY <2>1, Element DEF TypeInv, ReplyInv
  <2>3. queue[i][n].op # "keepalive" => queue[i][n].from \in Caller
    BY <2>2 DEF GoodCommand
  <2>4. queue[i][n].op # "keepalive" =>
          ~OpenFrom(queue[i][n], queue[i][n].from) \/ cpc'[queue[i][n].from] = cpc[queue[i][n].from]
    BY <2>1, <2>3 DEF Silent, OpenFrom
  <2> QED
    BY <1>1, <2>1, <2>2, <2>4
<1>4. ASSUME NEW c \in Caller, NEW n \in 1 .. Len(queue'[i]), OpenFrom(queue'[i][n], c)
      PROVE  /\ \A m \in 1 .. Len(queue'[i]) : OpenFrom(queue'[i][m], c) => m = n
             /\ cur'[i] # NoCommand => ~OpenFrom(cur'[i], c)
  <2>1. queue'[i] = queue[i]
    OBVIOUS
  <2> QED
    BY <1>4, <2>1 DEF ReplyInv
<1> QED
  BY <1>2, <1>3, <1>4

\* A command is sent whose reply, if anyone waits for it, is the only one.
LEMMA ReplySent ==
  ASSUME TypeInv, ReplyInv, cur' = cur,
         NEW i \in Instance, NEW m \in GoodCommand, Send(i, m), Awaited(m, i, cpc'),
         m.op # "keepalive" => Silent(m.from),
         \A c \in Caller : cpc'[c] = cpc[c] \/ Silent(c)
  PROVE  ReplyInv'
<1> SUFFICES ASSUME NEW j \in Instance
             PROVE  /\ cur[j] # NoCommand => Awaited(cur[j], j, cpc')
                    /\ \A n \in 1 .. Len(queue'[j]) : Awaited(queue'[j][n], j, cpc')
                    /\ \A c \in Caller : \A n \in 1 .. Len(queue'[j]) : OpenFrom(queue'[j][n], c) =>
                         /\ \A o \in 1 .. Len(queue'[j]) : OpenFrom(queue'[j][o], c) => o = n
                         /\ cur[j] # NoCommand => ~OpenFrom(cur[j], c)
  BY DEF ReplyInv, OpenFrom, Awaited
<1>1. /\ j # i => queue'[j] = queue[j]
      /\ Len(queue'[i]) = Len(queue[i]) + 1
      /\ Len(queue[i]) \in Nat
      /\ queue'[i][Len(queue[i]) + 1] = m
      /\ \A n \in 1 .. Len(queue[i]) : queue'[i][n] = queue[i][n]
  BY SendType
<1>2. ASSUME NEW o \in GoodCommand, Awaited(o, j, cpc),
             o.op # "keepalive" => ~OpenFrom(o, o.from) \/ cpc'[o.from] = cpc[o.from]
      PROVE  Awaited(o, j, cpc')
  BY <1>2 DEF Awaited, OpenFrom
<1>3. cur[j] # NoCommand => Awaited(cur[j], j, cpc')
  <2> HAVE cur[j] # NoCommand
  <2>1. cur[j] \in GoodCommand /\ Awaited(cur[j], j, cpc)
    BY DEF TypeInv, ReplyInv
  <2>2. cur[j].op # "keepalive" => cur[j].from \in Caller
    BY <2>1 DEF GoodCommand
  <2>3. cur[j].op # "keepalive" => ~OpenFrom(cur[j], cur[j].from) \/ cpc'[cur[j].from] = cpc[cur[j].from]
    BY <2>1, <2>2 DEF Silent
  <2> QED
    BY <1>2, <2>1, <2>3
<1>4. ASSUME NEW n \in 1 .. Len(queue[j]) PROVE Awaited(queue[j][n], j, cpc')
  <2>2. queue[j][n] \in GoodCommand /\ Awaited(queue[j][n], j, cpc)
    BY Element DEF TypeInv, ReplyInv
  <2>3. queue[j][n].op # "keepalive" => queue[j][n].from \in Caller
    BY <2>2 DEF GoodCommand
  <2>4. queue[j][n].op # "keepalive" =>
          ~OpenFrom(queue[j][n], queue[j][n].from) \/ cpc'[queue[j][n].from] = cpc[queue[j][n].from]
    BY <2>3 DEF Silent
  <2> QED
    BY <1>2, <2>2, <2>4
<1>5. \A n \in 1 .. Len(queue'[j]) : Awaited(queue'[j][n], j, cpc')
  <2>1. CASE j # i
    BY <1>1, <1>4, <2>1
  <2>2. CASE j = i
    <3> SUFFICES ASSUME NEW n \in 1 .. Len(queue'[i]) PROVE Awaited(queue'[i][n], i, cpc')
      BY <2>2
    <3>1. CASE n \in 1 .. Len(queue[i])
      BY <1>1, <1>4, <2>2, <3>1
    <3>2. CASE n = Len(queue[i]) + 1
      BY <1>1, <3>2
    <3> QED
      BY <1>1, <3>1, <3>2
  <2> QED
    BY <2>1, <2>2
<1>6. ASSUME NEW c \in Caller, NEW n \in 1 .. Len(queue'[j]), OpenFrom(queue'[j][n], c)
      PROVE  /\ \A o \in 1 .. Len(queue'[j]) : OpenFrom(queue'[j][o], c) => o = n
             /\ cur[j] # NoCommand => ~OpenFrom(cur[j], c)
  <2>1. CASE j # i
    BY <1>1, <1>6, <2>1 DEF ReplyInv
  <2>2. CASE j = i /\ ~OpenFrom(m, c)
    <3>1. \A o \in 1 .. Len(queue'[i]) : OpenFrom(queue'[i][o], c) => o \in 1 .. Len(queue[i])
      BY <1>1, <2>2
    <3>2. n \in 1 .. Len(queue[i]) /\ OpenFrom(queue[i][n], c)
      BY <1>1, <1>6, <2>2, <3>1
    <3> QED
      BY <1>1, <2>2, <3>1, <3>2 DEF ReplyInv
  <2>3. CASE j = i /\ OpenFrom(m, c)
    <3>1. Silent(c)
      BY <2>3 DEF OpenFrom
    <3>2. \A o \in 1 .. Len(queue'[i]) : OpenFrom(queue'[i][o], c) => o = Len(queue[i]) + 1
      BY <1>1, <3>1 DEF Silent
    <3> QED
      BY <1>6, <2>3, <3>1, <3>2 DEF Silent
  <2> QED
    BY <2>1, <2>2, <2>3
<1> QED
  BY <1>3, <1>5, <1>6

LEMMA ReplyTaken ==
  ASSUME TypeInv, ReplyInv, NEW i \in Instance, TakeCommand(i)
  PROVE  ReplyInv'
<1>1. /\ queue[i] \in Seq(GoodCommand)
      /\ queue[i] # <<>>
      /\ cur[i] = NoCommand
      /\ queue'[i] = Tail(queue[i])
      /\ cur'[i] = NoCommand \/ cur'[i] = Head(queue[i])
      /\ \A j \in Instance : j # i => cur'[j] = cur[j] /\ queue'[j] = queue[j]
      /\ cpc' = cpc
  BY DEF TakeCommand, TypeInv, callerVars
<1>2. /\ Len(queue[i]) \in Nat \ {0}
      /\ Len(queue'[i]) = Len(queue[i]) - 1
      /\ cur'[i] = NoCommand \/ cur'[i] = queue[i][1]
      /\ \A n \in 1 .. Len(queue'[i]) : n + 1 \in 1 .. Len(queue[i]) /\ queue'[i][n] = queue[i][n + 1]
  BY <1>1, Shifted
<1>3. /\ cur'[i] # NoCommand => Awaited(cur'[i], i, cpc')
      /\ \A n \in 1 .. Len(queue'[i]) : Awaited(queue'[i][n], i, cpc')
  BY <1>1, <1>2 DEF ReplyInv
<1>4. ASSUME NEW c \in Caller, NEW n \in 1 .. Len(queue'[i]), OpenFrom(queue'[i][n], c)
      PROVE  /\ \A m \in 1 .. Len(queue'[i]) : OpenFrom(queue'[i][m], c) => m = n
             /\ cur'[i] # NoCommand => ~OpenFrom(cur'[i], c)
  <2>1. n + 1 \in 1 .. Len(queue[i]) /\ OpenFrom(queue[i][n + 1], c)
    BY <1>2, <1>4
  <2>2. \A m \in 1 .. Len(queue[i]) : OpenFrom(queue[i][m], c) => m = n + 1
    BY <2>1 DEF ReplyInv
  <2> QED
    BY <1>2, <2>2
<1> QED
  <2> SUFFICES ASSUME NEW j \in Instance
               PROVE  /\ cur'[j] # NoCommand => Awaited(cur'[j], j, cpc')
                      /\ \A n \in 1 .. Len(queue'[j]) : Awaited(queue'[j][n], j, cpc')
                      /\ \A c \in Caller : \A n \in 1 .. Len(queue'[j]) : OpenFrom(queue'[j][n], c) =>
                           /\ \A m \in 1 .. Len(queue'[j]) : OpenFrom(queue'[j][m], c) => m = n
                           /\ cur'[j] # NoCommand => ~OpenFrom(cur'[j], c)
    BY DEF ReplyInv, OpenFrom, Awaited
  <2>1. CASE j = i
    BY <1>3, <1>4, <2>1
  <2>2. CASE j # i
    BY <1>1, <2>2 DEF ReplyInv
  <2> QED
    BY <2>1, <2>2

LEMMA ReplyCancelled ==
  ASSUME TypeInv, ReplyInv, NEW c \in Caller, Cancel(c)
  PROVE  ReplyInv'
<1>1. cpc' = [cpc EXCEPT ![c] = "idle"]
  BY DEF Cancel
<1>2. ASSUME NEW m \in GoodCommand, NEW i \in Instance, Awaited(m, i, cpc)
      PROVE  Awaited(Closed(m, c), i, cpc')
  <2>1. /\ Closed(m, c).op = m.op
        /\ Closed(m, c).from = m.from
        /\ Closed(m, c).open => m.open /\ m.from # c
    BY ClosedGood
  <2>2. m.op # "keepalive" => m.from \in Caller
    BY DEF GoodCommand
  <2>3. \A d \in Caller : d # c => cpc'[d] = cpc[d]
    BY <1>1, TypedBefore DEF Typed
  <2> QED
    BY <1>2, <2>1, <2>2, <2>3 DEF Awaited
<1>3. ASSUME NEW m \in GoodCommand, NEW d \in Caller, OpenFrom(Closed(m, c), d)
      PROVE  OpenFrom(m, d)
  <2>1. /\ Closed(m, c).op = m.op
        /\ Closed(m, c).from = m.from
        /\ Closed(m, c).open => m.open
    BY ClosedGood
  <2> QED
    BY <1>3, <2>1 DEF OpenFrom
<1> SUFFICES ASSUME NEW i \in Instance
             PROVE  /\ cur'[i] # NoCommand => Awaited(cur'[i], i, cpc')
                    /\ \A n \in 1 .. Len(queue'[i]) : Awaited(queue'[i][n], i, cpc')
                    /\ \A d \in Caller : \A n \in 1 .. Len(queue'[i]) : OpenFrom(queue'[i][n], d) =>
                         /\ \A m \in 1 .. Len(queue'[i]) : OpenFrom(queue'[i][m], d) => m = n
                         /\ cur'[i] # NoCommand => ~OpenFrom(cur'[i], d)
  BY DEF ReplyInv, OpenFrom, Awaited
<1>4. /\ cur'[i] = Closed(cur[i], c)
      /\ Len(queue'[i]) = Len(queue[i])
      /\ \A n \in 1 .. Len(queue[i]) : queue'[i][n] = Closed(queue[i][n], c)
  BY CancelShape
<1>5. cur'[i] # NoCommand => cur[i] # NoCommand /\ cur[i] \in GoodCommand
  BY <1>4, ClosedNothing DEF TypeInv
<1>6. \A n \in 1 .. Len(queue[i]) : queue[i][n] \in GoodCommand
  BY Element DEF TypeInv
<1>7. cur'[i] # NoCommand => Awaited(cur'[i], i, cpc')
  BY <1>2, <1>4, <1>5 DEF ReplyInv
<1>8. \A n \in 1 .. Len(queue'[i]) : Awaited(queue'[i][n], i, cpc')
  BY <1>2, <1>4, <1>6 DEF ReplyInv
<1>9. ASSUME NEW d \in Caller, NEW n \in 1 .. Len(queue'[i]), OpenFrom(queue'[i][n], d)
      PROVE  /\ \A m \in 1 .. Len(queue'[i]) : OpenFrom(queue'[i][m], d) => m = n
             /\ cur'[i] # NoCommand => ~OpenFrom(cur'[i], d)
  <2>1. OpenFrom(queue[i][n], d)
    BY <1>3, <1>4, <1>6, <1>9
  <2>2. \A m \in 1 .. Len(queue'[i]) : OpenFrom(queue'[i][m], d) => OpenFrom(queue[i][m], d)
    BY <1>3, <1>4, <1>6
  <2>3. cur'[i] # NoCommand /\ OpenFrom(cur'[i], d) => OpenFrom(cur[i], d)
    BY <1>3, <1>4, <1>5
  <2> QED
    BY <1>4, <1>5, <2>1, <2>2, <2>3 DEF ReplyInv
<1> QED
  BY <1>7, <1>8, <1>9

LEMMA CallerReply ==
  ASSUME TypeInv, IdInv, ReplyInv, KeepInv, NEW c \in Caller, CallerStep(c)
  PROVE  ReplyInv'
<1>t. Typed
  BY TypedBefore
<1>h. Home[c] \in Instance
  BY WorkLockAssumption
<1>1. CASE Ask(c)
  <2>1. Silent(c)
    BY <1>1, WaitsOrSilent DEF Ask
  <2>2. AcquireBy(c) \in GoodCommand /\ Send(Home[c], AcquireBy(c)) /\ cur' = cur
    BY <1>1, SentAreGood DEF Ask, AcquireBy
  <2>3. /\ \A d \in Caller : cpc'[d] = cpc[d] \/ Silent(d)
        /\ cpc'[c] = "asking"
    BY <1>1, <1>t, <2>1 DEF Ask, Typed
  <2>4. Awaited(AcquireBy(c), Home[c], cpc') /\ AcquireBy(c).from = c
    BY <2>3 DEF Awaited, AcquireBy
  <2> QED
    BY <1>h, <2>1, <2>2, <2>3, <2>4, ReplySent
<1>2. CASE Poll(c)
  <2>1. Silent(c)
    BY <1>2, WaitsOrSilent DEF Poll
  <2>2. queue' = queue /\ cur' = cur /\ \A d \in Caller : d # c => cpc'[d] = cpc[d]
    BY <1>2, <1>t DEF Poll, managerVars, Typed
  <2>3. Silent(c)'
    BY <2>1, <2>2 DEF Silent, OpenFrom
  <2> QED
    BY <2>2, <2>3, ReplyFrame
<1>3. CASE Cancel(c)
  BY <1>3, ReplyCancelled
<1>4. CASE FenceTransaction(c)
  BY <1>4, ReplyFrame DEF FenceTransaction, managerVars, callerVars
<1>5. ASSUME NEW wait \in BOOLEAN, Release(c, wait) PROVE ReplyInv'
  <2>1. Silent(c)
    BY <1>5, WaitsOrSilent DEF Release
  <2>2. ReleaseBy(c, wait) \in GoodCommand /\ Send(Home[c], ReleaseBy(c, wait)) /\ cur' = cur
    BY <1>5, SentAreGood DEF Release, ReleaseBy
  <2>3. /\ \A d \in Caller : cpc'[d] = cpc[d] \/ Silent(d)
        /\ wait => cpc'[c] = "releasing"
    BY <1>5, <1>t, <2>1 DEF Release, Typed
  <2>4. Awaited(ReleaseBy(c, wait), Home[c], cpc') /\ ReleaseBy(c, wait).from = c
    BY <2>3 DEF Awaited, ReleaseBy
  <2> QED
    BY <1>h, <2>1, <2>2, <2>3, <2>4, ReplySent
<1> QED
  BY <1>1, <1>2, <1>3, <1>4, <1>5 DEF CallerStep

LEMMA LoopReply ==
  ASSUME TypeInv, IdInv, ReplyInv, KeepInv, NEW id \in WorkerId, LoopStep(id)
  PROVE  ReplyInv'
<1>1. CASE queue' = queue
  BY <1>1, ReplyFrame
  DEF LoopStep, KeepaliveTick, KeepaliveSend, LoopStops, managerVars, callerVars
<1>2. CASE KeepaliveSend(id) /\ queue' # queue
  <2>1. /\ Send(Home[owner[id]], KeepaliveBy(id))
        /\ cur' = cur /\ cpc' = cpc
        /\ loop[id] = "due"
    BY <1>2 DEF KeepaliveSend, KeepaliveBy, callerVars
  <2>2. Home[owner[id]] \in Instance /\ KeepaliveBy(id) \in GoodCommand
    BY <2>1, SentAreGood, WorkLockAssumption DEF KeepInv
  <2>3. KeepaliveBy(id).op = "keepalive" /\ Awaited(KeepaliveBy(id), Home[owner[id]], cpc')
    BY DEF KeepaliveBy, Awaited
  <2> QED
    BY <2>1, <2>2, <2>3, ReplySent
<1> QED
  BY <1>1, <1>2 DEF LoopStep, KeepaliveTick, LoopStops, managerVars

\* The command an instance executes leaves, and its caller is answered.
LEMMA ReplyServed ==
  ASSUME TypeInv, ReplyInv, NEW i \in Instance, cur[i] # NoCommand, Finished(i),
         \A c \in Caller : cpc'[c] = cpc[c] \/ OpenFrom(cur[i], c)
  PROVE  ReplyInv'
<1>1. /\ queue' = queue
      /\ cur'[i] = NoCommand
      /\ \A j \in Instance : j # i => cur'[j] = cur[j]
  BY TypedBefore DEF Finished, Typed
<1>2. ASSUME NEW c \in Caller, OpenFrom(cur[i], c) PROVE Silent(c)'
  <2>1. Home[c] = i
    BY <1>2 DEF ReplyInv, OpenFrom, Awaited
  <2>2. ASSUME NEW j \in Instance, NEW m, Awaited(m, j, cpc), OpenFrom(m, c) PROVE j = i
    BY <2>1, <2>2 DEF Awaited, OpenFrom
  <2>3. \A j \in Instance : \A n \in 1 .. Len(queue[j]) : ~OpenFrom(queue[j][n], c)
    BY <1>2, <2>2 DEF ReplyInv
  <2>4. \A j \in Instance : j # i /\ cur[j] # NoCommand => ~OpenFrom(cur[j], c)
    BY <2>2 DEF ReplyInv
  <2> QED
    BY <1>1, <2>3, <2>4 DEF Silent, OpenFrom
<1> QED
  BY <1>1, <1>2, ReplyFrame

LEMMA ManagerReply ==
  ASSUME TypeInv, IdInv, ReplyInv, NEW i \in Instance, ManagerStep(i)
  PROVE  ReplyInv'
<1>1. CASE TakeCommand(i)
  BY <1>1, ReplyTaken
<1>2. CASE ServeAcquire(i)
  <2>1. cur[i] # NoCommand /\ cur[i].op = "acquire" /\ cur[i].from \in Caller
    BY <1>2, Current DEF ServeAcquire, Executing
  <2>2. \/ Answered(i)
        \/ cpc' = cpc
        \/ cur[i].open /\ cpc' = [cpc EXCEPT ![cur[i].from] = "granted"]
    BY <1>2 DEF ServeAcquire, callerVars
  <2>3. \A c \in Caller : cpc'[c] = cpc[c] \/ OpenFrom(cur[i], c)
    BY <2>1, <2>2, AnsweredShape, TypedBefore DEF OpenFrom, Typed
  <2> QED
    BY <1>2, <2>1, <2>3, ReplyServed DEF ServeAcquire
<1>3. CASE ServeRelease(i)
  BY <1>3, AnsweredShape, ReplyServed DEF ServeRelease, Executing
<1>4. CASE ServeKeepalive(i)
  BY <1>4, ReplyServed DEF ServeKeepalive, Executing, callerVars
<1>5. CASE StatementFails(i)
  BY <1>5, AnsweredShape, ReplyServed DEF StatementFails, ErrorReply
<1>6. CASE ReplyLost(i)
  BY <1>6, AnsweredShape, ReplyServed DEF ReplyLost, ErrorReply
<1>7. CASE Crash(i)
  <2>1. /\ queue'[i] = <<>> /\ \A j \in Instance : j # i => queue'[j] = queue[j]
        /\ cur'[i] = NoCommand /\ \A j \in Instance : j # i => cur'[j] = cur[j]
        /\ \A c \in Caller : Home[c] # i => cpc'[c] = cpc[c]
    BY <1>7, TypedBefore DEF Crash, Typed
  <2>2. ASSUME NEW c \in Caller, Home[c] = i PROVE Silent(c)'
    <3>1. ASSUME NEW j \in Instance, NEW m, Awaited(m, j, cpc), OpenFrom(m, c) PROVE j = i
      BY <2>2, <3>1 DEF Awaited, OpenFrom
    <3>2. \A j \in Instance : j # i => \A n \in 1 .. Len(queue[j]) : ~OpenFrom(queue[j][n], c)
      BY <3>1 DEF ReplyInv
    <3>3. \A j \in Instance : j # i /\ cur[j] # NoCommand => ~OpenFrom(cur[j], c)
      BY <3>1 DEF ReplyInv
    <3>4. Len(queue'[i]) = 0
      BY <2>1
    <3> QED
      BY <2>1, <3>2, <3>3, <3>4 DEF Silent, OpenFrom
  <2> QED
    BY <2>1, <2>2, ReplyFrame
<1> QED
  BY <1>1, <1>2, <1>3, <1>4, <1>5, <1>6, <1>7 DEF ManagerStep, Serve

LEMMA StepReply == IInv /\ [Next]_vars => ReplyInv'
<1> SUFFICES ASSUME IInv, [Next]_vars PROVE ReplyInv'
  OBVIOUS
<1> USE DEF IInv
<1>1. ASSUME NEW k \in Key, EndTransaction(k) PROVE ReplyInv'
  BY <1>1, ReplyFrame DEF EndTransaction, managerVars, callerVars
<1>2. CASE Tick
  BY <1>2, ReplyFrame DEF Tick, managerVars, callerVars
<1>3. CASE UNCHANGED vars
  BY <1>3, ReplyFrame DEF vars, managerVars, callerVars
<1> QED
  BY <1>1, <1>2, <1>3, CallerReply, LoopReply, ManagerReply DEF Next

(***************************************************************************)
(* Keepalives.                                                             *)
(***************************************************************************)
\* No keepalive of id is in flight.
Unkept(id) ==
  \A i \in Instance :
    /\ cur[i] # NoCommand => ~IsKeepalive(cur[i], id)
    /\ \A n \in 1 .. Len(queue[i]) : ~IsKeepalive(queue[i][n], id)

LEMMA SentOrUnkept ==
  ASSUME KeepInv, NEW id \in WorkerId, loop[id] # "sent"
  PROVE  Unkept(id)
<1>1. ASSUME NEW m, NEW i \in Instance, KeptBy(m, i, loop, owner) PROVE ~IsKeepalive(m, id)
  BY <1>1 DEF KeptBy, IsKeepalive
<1> QED
  BY <1>1 DEF KeepInv, Unkept

\* KeepInv', one instance at a time.
LEMMA KeepParts ==
  ASSUME \A id \in WorkerId : loop'[id] # "none" => owner'[id] \in Caller,
         \A i \in Instance :
           /\ cur'[i] # NoCommand => KeptBy(cur'[i], i, loop', owner')
           /\ \A n \in 1 .. Len(queue'[i]) : KeptBy(queue'[i][n], i, loop', owner')
           /\ \A id \in WorkerId : \A n \in 1 .. Len(queue'[i]) : IsKeepalive(queue'[i][n], id) =>
                /\ \A m \in 1 .. Len(queue'[i]) : IsKeepalive(queue'[i][m], id) => m = n
                /\ cur'[i] # NoCommand => ~IsKeepalive(cur'[i], id)
  PROVE  KeepInv'
  BY DEF KeepInv, KeptBy, IsKeepalive

\* A command stays kept when its loop does not change.
LEMMA KeptStays ==
  ASSUME NEW m \in GoodCommand, NEW i \in Instance, KeptBy(m, i, loop, owner),
         m.op = "keepalive" => loop'[m.id] = loop[m.id] /\ owner'[m.id] = owner[m.id]
  PROVE  KeptBy(m, i, loop', owner')
  BY DEF KeptBy

LEMMA KeepFrame ==
  ASSUME TypeInv, KeepInv,
         \A i \in Instance : cur'[i] = cur[i] \/ cur'[i] = NoCommand,
         \A i \in Instance : queue'[i] = queue[i] \/ queue'[i] = <<>>,
         \A id \in WorkerId : loop'[id] # "none" => owner'[id] \in Caller,
         \A id \in WorkerId : (loop'[id] = loop[id] /\ owner'[id] = owner[id]) \/ Unkept(id)'
  PROVE  KeepInv'
<1>g. ASSUME NEW m \in GoodCommand, m.op = "keepalive" PROVE m.id \in WorkerId
  BY <1>g DEF GoodCommand
<1>1. ASSUME NEW i \in Instance, cur'[i] # NoCommand PROVE KeptBy(cur'[i], i, loop', owner')
  <2>1. cur'[i] = cur[i] /\ cur[i] \in GoodCommand /\ KeptBy(cur[i], i, loop, owner)
    BY <1>1 DEF TypeInv, KeepInv
  <2>2. cur[i].op = "keepalive" => loop'[cur[i].id] = loop[cur[i].id] /\ owner'[cur[i].id] = owner[cur[i].id]
    BY <1>1, <1>g, <2>1 DEF Unkept, IsKeepalive
  <2> QED
    BY <2>1, <2>2, KeptStays
<1>2. ASSUME NEW i \in Instance, NEW n \in 1 .. Len(queue'[i])
      PROVE  KeptBy(queue'[i][n], i, loop', owner')
  <2>1. queue'[i] = queue[i] /\ n \in 1 .. Len(queue[i])
    OBVIOUS
  <2>2. queue[i][n] \in GoodCommand /\ KeptBy(queue[i][n], i, loop, owner)
    BY <2>1, Element DEF TypeInv, KeepInv
  <2>3. queue[i][n].op = "keepalive" =>
          loop'[queue[i][n].id] = loop[queue[i][n].id] /\ owner'[queue[i][n].id] = owner[queue[i][n].id]
    BY <1>g, <2>1, <2>2 DEF Unkept, IsKeepalive
  <2> QED
    BY <2>1, <2>2, <2>3, KeptStays
<1>3. ASSUME NEW i \in Instance, NEW id \in WorkerId, NEW n \in 1 .. Len(queue'[i]),
             IsKeepalive(queue'[i][n], id)
      PROVE  /\ \A m \in 1 .. Len(queue'[i]) : IsKeepalive(queue'[i][m], id) => m = n
             /\ cur'[i] # NoCommand => ~IsKeepalive(cur'[i], id)
  <2>1. queue'[i] = queue[i]
    OBVIOUS
  <2> QED
    BY <1>3, <2>1 DEF KeepInv
<1> QED
  BY <1>1, <1>2, <1>3, KeepParts

LEMMA KeepSent ==
  ASSUME TypeInv, KeepInv, cur' = cur,
         NEW i \in Instance, NEW m \in GoodCommand, Send(i, m), KeptBy(m, i, loop', owner'),
         m.op = "keepalive" => Unkept(m.id),
         \A id \in WorkerId : loop'[id] # "none" => owner'[id] \in Caller,
         \A id \in WorkerId : (loop'[id] = loop[id] /\ owner'[id] = owner[id]) \/ Unkept(id)
  PROVE  KeepInv'
<1>g. ASSUME NEW o \in GoodCommand, o.op = "keepalive" PROVE o.id \in WorkerId
  BY <1>g DEF GoodCommand
<1>s. /\ \A j \in Instance : j # i => queue'[j] = queue[j]
      /\ Len(queue'[i]) = Len(queue[i]) + 1
      /\ Len(queue[i]) \in Nat
      /\ queue'[i][Len(queue[i]) + 1] = m
      /\ \A n \in 1 .. Len(queue[i]) : queue'[i][n] = queue[i][n]
  BY SendType
<1>1. ASSUME NEW j \in Instance, cur[j] # NoCommand PROVE KeptBy(cur[j], j, loop', owner')
  <2>1. cur[j] \in GoodCommand /\ KeptBy(cur[j], j, loop, owner)
    BY <1>1 DEF TypeInv, KeepInv
  <2>2. cur[j].op = "keepalive" => loop'[cur[j].id] = loop[cur[j].id] /\ owner'[cur[j].id] = owner[cur[j].id]
    BY <1>1, <1>g, <2>1 DEF Unkept, IsKeepalive
  <2> QED
    BY <2>1, <2>2, KeptStays
<1>2. ASSUME NEW j \in Instance, NEW n \in 1 .. Len(queue[j])
      PROVE  KeptBy(queue[j][n], j, loop', owner')
  <2>2. queue[j][n] \in GoodCommand /\ KeptBy(queue[j][n], j, loop, owner)
    BY Element DEF TypeInv, KeepInv
  <2>3. queue[j][n].op = "keepalive" =>
          loop'[queue[j][n].id] = loop[queue[j][n].id] /\ owner'[queue[j][n].id] = owner[queue[j][n].id]
    BY <1>g, <2>2 DEF Unkept, IsKeepalive
  <2> QED
    BY <2>2, <2>3, KeptStays
<1>3. ASSUME NEW j \in Instance, NEW n \in 1 .. Len(queue'[j])
      PROVE  KeptBy(queue'[j][n], j, loop', owner')
  <2>1. CASE j # i
    BY <1>2, <1>s, <2>1
  <2>2. CASE j = i /\ n \in 1 .. Len(queue[i])
    BY <1>2, <1>s, <2>2
  <2>3. CASE j = i /\ n = Len(queue[i]) + 1
    BY <1>s, <2>3
  <2> QED
    BY <1>s, <2>1, <2>2, <2>3
<1>4. ASSUME NEW j \in Instance, NEW id \in WorkerId, NEW n \in 1 .. Len(queue'[j]),
             IsKeepalive(queue'[j][n], id)
      PROVE  /\ \A o \in 1 .. Len(queue'[j]) : IsKeepalive(queue'[j][o], id) => o = n
             /\ cur[j] # NoCommand => ~IsKeepalive(cur[j], id)
  <2>1. CASE j # i
    BY <1>4, <1>s, <2>1 DEF KeepInv
  <2>2. CASE j = i /\ ~IsKeepalive(m, id)
    <3>1. \A o \in 1 .. Len(queue'[i]) : IsKeepalive(queue'[i][o], id) => o \in 1 .. Len(queue[i])
      BY <1>s, <2>2
    <3>2. n \in 1 .. Len(queue[i]) /\ IsKeepalive(queue[i][n], id)
      BY <1>4, <1>s, <2>2, <3>1
    <3> QED
      BY <1>s, <2>2, <3>1, <3>2 DEF KeepInv
  <2>3. CASE j = i /\ IsKeepalive(m, id)
    <3>1. Unkept(id)
      BY <2>3 DEF IsKeepalive
    <3>2. \A o \in 1 .. Len(queue'[i]) : IsKeepalive(queue'[i][o], id) => o = Len(queue[i]) + 1
      BY <1>s, <3>1 DEF Unkept
    <3> QED
      BY <1>4, <2>3, <3>1, <3>2 DEF Unkept
  <2> QED
    BY <2>1, <2>2, <2>3
<1> QED
  BY <1>1, <1>3, <1>4, KeepParts

LEMMA KeepTaken ==
  ASSUME TypeInv, KeepInv, NEW i \in Instance, TakeCommand(i)
  PROVE  KeepInv'
<1>1. /\ queue[i] \in Seq(GoodCommand)
      /\ queue[i] # <<>>
      /\ cur[i] = NoCommand
      /\ queue'[i] = Tail(queue[i])
      /\ cur'[i] = NoCommand \/ cur'[i] = Head(queue[i])
      /\ \A j \in Instance : j # i => cur'[j] = cur[j] /\ queue'[j] = queue[j]
      /\ loop' = loop /\ owner' = owner
  BY DEF TakeCommand, TypeInv, loopVars
<1>2. /\ Len(queue[i]) \in Nat \ {0}
      /\ Len(queue'[i]) = Len(queue[i]) - 1
      /\ cur'[i] = NoCommand \/ cur'[i] = queue[i][1]
      /\ \A n \in 1 .. Len(queue'[i]) : n + 1 \in 1 .. Len(queue[i]) /\ queue'[i][n] = queue[i][n + 1]
  BY <1>1, Shifted
<1>3. /\ cur'[i] # NoCommand => KeptBy(cur'[i], i, loop, owner)
      /\ \A n \in 1 .. Len(queue'[i]) : KeptBy(queue'[i][n], i, loop, owner)
  BY <1>1, <1>2 DEF KeepInv
<1>4. ASSUME NEW id \in WorkerId, NEW n \in 1 .. Len(queue'[i]), IsKeepalive(queue'[i][n], id)
      PROVE  /\ \A m \in 1 .. Len(queue'[i]) : IsKeepalive(queue'[i][m], id) => m = n
             /\ cur'[i] # NoCommand => ~IsKeepalive(cur'[i], id)
  <2>1. n + 1 \in 1 .. Len(queue[i]) /\ IsKeepalive(queue[i][n + 1], id)
    BY <1>2, <1>4
  <2>2. \A m \in 1 .. Len(queue[i]) : IsKeepalive(queue[i][m], id) => m = n + 1
    BY <2>1 DEF KeepInv
  <2> QED
    BY <1>2, <2>2
<1>5. ASSUME NEW j \in Instance, j # i
      PROVE  /\ cur'[j] # NoCommand => KeptBy(cur'[j], j, loop, owner)
             /\ \A n \in 1 .. Len(queue'[j]) : KeptBy(queue'[j][n], j, loop, owner)
             /\ \A id \in WorkerId : \A n \in 1 .. Len(queue'[j]) : IsKeepalive(queue'[j][n], id) =>
                  /\ \A m \in 1 .. Len(queue'[j]) : IsKeepalive(queue'[j][m], id) => m = n
                  /\ cur'[j] # NoCommand => ~IsKeepalive(cur'[j], id)
  BY <1>1, <1>5 DEF KeepInv
<1>6. \A id \in WorkerId : loop[id] # "none" => owner[id] \in Caller
  BY DEF KeepInv
<1> QED
  BY <1>1, <1>3, <1>4, <1>5, <1>6, KeepParts

LEMMA KeepCancelled ==
  ASSUME TypeInv, KeepInv, NEW c \in Caller, Cancel(c)
  PROVE  KeepInv'
<1>1. loop' = loop /\ owner' = owner
  BY DEF Cancel, loopVars
<1>2. ASSUME NEW m \in GoodCommand, NEW i \in Instance, KeptBy(m, i, loop, owner)
      PROVE  KeptBy(Closed(m, c), i, loop, owner)
  BY <1>2, ClosedGood DEF KeptBy
<1>3. ASSUME NEW m \in GoodCommand, NEW id \in WorkerId
      PROVE  IsKeepalive(Closed(m, c), id) <=> IsKeepalive(m, id)
  BY ClosedGood DEF IsKeepalive
<1>4. \A id \in WorkerId : loop'[id] # "none" => owner'[id] \in Caller
  BY <1>1 DEF KeepInv
<1>5. ASSUME NEW i \in Instance
      PROVE  /\ cur'[i] # NoCommand => KeptBy(cur'[i], i, loop, owner)
             /\ \A n \in 1 .. Len(queue'[i]) : KeptBy(queue'[i][n], i, loop, owner)
             /\ \A id \in WorkerId : \A n \in 1 .. Len(queue'[i]) : IsKeepalive(queue'[i][n], id) =>
                  /\ \A m \in 1 .. Len(queue'[i]) : IsKeepalive(queue'[i][m], id) => m = n
                  /\ cur'[i] # NoCommand => ~IsKeepalive(cur'[i], id)
  <2>1. /\ cur'[i] = Closed(cur[i], c)
        /\ Len(queue'[i]) = Len(queue[i])
        /\ \A n \in 1 .. Len(queue[i]) : queue'[i][n] = Closed(queue[i][n], c)
    BY CancelShape
  <2>2. cur'[i] # NoCommand => cur[i] # NoCommand /\ cur[i] \in GoodCommand
    BY <2>1, ClosedNothing DEF TypeInv
  <2>3. \A n \in 1 .. Len(queue[i]) : queue[i][n] \in GoodCommand
    BY Element DEF TypeInv
  <2>4. cur'[i] # NoCommand => KeptBy(cur'[i], i, loop, owner)
    BY <1>2, <2>1, <2>2 DEF KeepInv
  <2>5. \A n \in 1 .. Len(queue'[i]) : KeptBy(queue'[i][n], i, loop, owner)
    BY <1>2, <2>1, <2>3 DEF KeepInv
  <2>6. /\ \A id \in WorkerId : \A n \in 1 .. Len(queue'[i]) :
             IsKeepalive(queue'[i][n], id) <=> IsKeepalive(queue[i][n], id)
        /\ \A id \in WorkerId : cur'[i] # NoCommand =>
             (IsKeepalive(cur'[i], id) <=> IsKeepalive(cur[i], id))
    BY <1>3, <2>1, <2>2, <2>3
  <2> QED
    BY <2>1, <2>2, <2>4, <2>5, <2>6 DEF KeepInv
<1> QED
  BY <1>1, <1>4, <1>5, KeepParts

LEMMA CallerKeep ==
  ASSUME TypeInv, IdInv, KeepInv, NEW c \in Caller, CallerStep(c)
  PROVE  KeepInv'
<1>t. Typed
  BY TypedBefore
<1>h. Home[c] \in Instance
  BY WorkLockAssumption
<1>o. \A id \in WorkerId : loop[id] # "none" => owner[id] \in Caller
  BY DEF KeepInv
<1>1. CASE Ask(c)
  <2>1. AcquireBy(c) \in GoodCommand /\ Send(Home[c], AcquireBy(c)) /\ cur' = cur
    BY <1>1, SentAreGood DEF Ask, AcquireBy
  <2>2. loop' = loop /\ owner' = owner
    BY <1>1 DEF Ask, loopVars
  <2>3. AcquireBy(c).op # "keepalive" /\ KeptBy(AcquireBy(c), Home[c], loop', owner')
    BY DEF KeptBy, AcquireBy
  <2> QED
    BY <1>h, <1>o, <2>1, <2>2, <2>3, KeepSent
<1>2. CASE Poll(c)
  <2>1. cid[c] \in WorkerId /\ loop[cid[c]] = "none"
    BY <1>2 DEF Poll, IdInv
  <2>2. Unkept(cid[c])
    BY <2>1, SentOrUnkept
  <2>3. /\ queue' = queue /\ cur' = cur
        /\ owner'[cid[c]] = c
        /\ \A id \in WorkerId : id # cid[c] => loop'[id] = loop[id] /\ owner'[id] = owner[id]
    BY <1>2, <1>t, <2>1 DEF Poll, managerVars, Typed
  <2>5. ASSUME NEW id \in WorkerId, id = cid[c] PROVE Unkept(id)'
    BY <2>2, <2>3, <2>5 DEF Unkept, IsKeepalive
  <2> QED
    BY <1>o, <2>3, <2>5, KeepFrame
<1>3. CASE Cancel(c)
  BY <1>3, KeepCancelled
<1>4. CASE FenceTransaction(c)
  BY <1>4, <1>o, KeepFrame DEF FenceTransaction, managerVars, loopVars
<1>5. ASSUME NEW wait \in BOOLEAN, Release(c, wait) PROVE KeepInv'
  <2>1. ReleaseBy(c, wait) \in GoodCommand /\ Send(Home[c], ReleaseBy(c, wait)) /\ cur' = cur
    BY <1>5, SentAreGood DEF Release, ReleaseBy
  <2>2. loop' = loop /\ owner' = owner
    BY <1>5 DEF Release
  <2>3. /\ ReleaseBy(c, wait).op # "keepalive"
        /\ KeptBy(ReleaseBy(c, wait), Home[c], loop', owner')
    BY DEF KeptBy, ReleaseBy
  <2> QED
    BY <1>h, <1>o, <2>1, <2>2, <2>3, KeepSent
<1> QED
  BY <1>1, <1>2, <1>3, <1>4, <1>5 DEF CallerStep

LEMMA LoopKeep ==
  ASSUME TypeInv, IdInv, KeepInv, NEW id \in WorkerId, LoopStep(id)
  PROVE  KeepInv'
<1>t. Typed
  BY TypedBefore
<1>o. \A x \in WorkerId : loop[x] # "none" => owner[x] \in Caller
  BY DEF KeepInv
<1>1. loop[id] # "sent" /\ Unkept(id)
  BY SentOrUnkept DEF LoopStep, KeepaliveTick, KeepaliveSend, LoopStops
<1>2. CASE queue' = queue
  <2>1. /\ cur' = cur
        /\ \A x \in WorkerId : x # id => loop'[x] = loop[x] /\ owner'[x] = owner[x]
        /\ loop'[id] = "none" \/ (owner'[id] = owner[id] /\ loop[id] # "none")
    BY <1>2, <1>t
    DEF LoopStep, KeepaliveTick, KeepaliveSend, LoopStops, LoopsEnd, managerVars, Typed
  <2>2. Unkept(id)'
    BY <1>1, <1>2, <2>1 DEF Unkept, IsKeepalive
  <2> QED
    BY <1>2, <1>o, <2>1, <2>2, KeepFrame
<1>3. CASE KeepaliveSend(id) /\ queue' # queue
  <2>1. /\ Send(Home[owner[id]], KeepaliveBy(id))
        /\ cur' = cur /\ owner' = owner
        /\ loop[id] = "due" /\ loop' = [loop EXCEPT ![id] = "sent"]
    BY <1>3 DEF KeepaliveSend, KeepaliveBy
  <2>2. /\ owner[id] \in Caller
        /\ Home[owner[id]] \in Instance
        /\ KeepaliveBy(id) \in GoodCommand
    BY <1>o, <2>1, SentAreGood, WorkLockAssumption
  <2>3. /\ loop'[id] = "sent"
        /\ \A x \in WorkerId : x # id => loop'[x] = loop[x]
    BY <1>t, <2>1 DEF Typed
  <2>4. /\ KeepaliveBy(id).op = "keepalive" /\ KeepaliveBy(id).id = id
        /\ KeptBy(KeepaliveBy(id), Home[owner[id]], loop', owner')
    BY <2>1, <2>2, <2>3 DEF KeepaliveBy, KeptBy
  <2>5. \A x \in WorkerId : loop'[x] # "none" => owner'[x] \in Caller
    BY <1>o, <2>1, <2>2, <2>3
  <2>6. \A x \in WorkerId : (loop'[x] = loop[x] /\ owner'[x] = owner[x]) \/ Unkept(x)
    BY <1>1, <2>1, <2>3
  <2> QED
    BY <1>1, <2>1, <2>2, <2>4, <2>5, <2>6, KeepSent
<1> QED
  BY <1>2, <1>3 DEF LoopStep, KeepaliveTick, LoopStops, managerVars

LEMMA KeepServed ==
  ASSUME TypeInv, KeepInv, NEW i \in Instance, cur[i] # NoCommand, Finished(i),
         \A id \in WorkerId : loop'[id] # "none" => owner'[id] \in Caller,
         \A id \in WorkerId :
           (loop'[id] = loop[id] /\ owner'[id] = owner[id]) \/ IsKeepalive(cur[i], id)
  PROVE  KeepInv'
<1>1. /\ queue' = queue
      /\ cur'[i] = NoCommand
      /\ \A j \in Instance : j # i => cur'[j] = cur[j]
  BY TypedBefore DEF Finished, Typed
<1>2. ASSUME NEW id \in WorkerId, IsKeepalive(cur[i], id) PROVE Unkept(id)'
  <2>1. Home[owner[id]] = i
    BY <1>2 DEF KeepInv, IsKeepalive, KeptBy
  <2>2. ASSUME NEW j \in Instance, NEW m, KeptBy(m, j, loop, owner), IsKeepalive(m, id)
        PROVE  j = i
    BY <2>1, <2>2 DEF KeptBy, IsKeepalive
  <2>3. \A j \in Instance : \A n \in 1 .. Len(queue[j]) : ~IsKeepalive(queue[j][n], id)
    BY <1>2, <2>2 DEF KeepInv
  <2>4. \A j \in Instance : j # i /\ cur[j] # NoCommand => ~IsKeepalive(cur[j], id)
    BY <2>2 DEF KeepInv
  <2> QED
    BY <1>1, <2>3, <2>4 DEF Unkept, IsKeepalive
<1> QED
  BY <1>1, <1>2, KeepFrame

LEMMA ManagerKeep ==
  ASSUME TypeInv, IdInv, KeepInv, NEW i \in Instance, ManagerStep(i)
  PROVE  KeepInv'
<1>t. Typed
  BY TypedBefore
<1>o. \A x \in WorkerId : loop[x] # "none" => owner[x] \in Caller
  BY DEF KeepInv
<1>k. ASSUME cur[i] # NoCommand, cur[i].op = "keepalive"
      PROVE  cur[i].id \in WorkerId /\ loop[cur[i].id] = "sent" /\ IsKeepalive(cur[i], cur[i].id)
  BY <1>k, Current DEF KeepInv, KeptBy, IsKeepalive
<1>e. ASSUME cur[i] # NoCommand, ErrorReply(i) PROVE KeepInv'
  <2>1. /\ owner' = owner
        /\ cur[i].op # "keepalive" => loop' = loop
        /\ cur[i].op = "keepalive" => loop' = [loop EXCEPT ![cur[i].id] = "idle"]
    BY <1>e DEF ErrorReply
  <2>2. \A x \in WorkerId : loop'[x] # "none" => loop[x] # "none"
    BY <1>e, <1>k, <1>t, <2>1 DEF Typed
  <2>3. \A x \in WorkerId :
          (loop'[x] = loop[x] /\ owner'[x] = owner[x]) \/ IsKeepalive(cur[i], x)
    BY <1>e, <1>k, <1>t, <2>1 DEF Typed
  <2> QED
    BY <1>e, <1>o, <2>1, <2>2, <2>3, KeepServed DEF ErrorReply
<1>1. CASE TakeCommand(i)
  BY <1>1, KeepTaken
<1>2. CASE ServeAcquire(i)
  BY <1>2, <1>o, KeepServed DEF ServeAcquire, Executing, loopVars
<1>3. CASE ServeRelease(i)
  BY <1>3, <1>o, KeepServed DEF ServeRelease, Executing, loopVars
<1>4. CASE ServeKeepalive(i)
  <2>1. cur[i] # NoCommand /\ cur[i].op = "keepalive" /\ Finished(i)
    BY <1>4 DEF ServeKeepalive, Executing
  <2>2. \/ owner' = owner /\ loop' = [loop EXCEPT ![cur[i].id] = "idle"]
        \/ LoopsEnd({cur[i].id})
    BY <1>4, Zenon DEF ServeKeepalive
  <2>3. \A x \in WorkerId : x # cur[i].id => loop'[x] = loop[x] /\ owner'[x] = owner[x]
    BY <1>k, <1>t, <2>1, <2>2 DEF LoopsEnd, Typed
  <2>4. \/ owner'[cur[i].id] = owner[cur[i].id]
        \/ loop'[cur[i].id] = "none"
    BY <1>k, <1>t, <2>1, <2>2 DEF LoopsEnd, Typed
  <2>5. \A x \in WorkerId : loop'[x] # "none" => owner'[x] \in Caller
    BY <1>k, <1>o, <2>1, <2>3, <2>4
  <2> QED
    BY <1>k, <2>1, <2>3, <2>5, KeepServed
<1>5. CASE StatementFails(i)
  BY <1>5, <1>e DEF StatementFails
<1>6. CASE ReplyLost(i)
  BY <1>6, <1>e DEF ReplyLost
<1>7. CASE Crash(i)
  <2>1. /\ queue'[i] = <<>> /\ \A j \in Instance : j # i => queue'[j] = queue[j]
        /\ cur'[i] = NoCommand /\ \A j \in Instance : j # i => cur'[j] = cur[j]
        /\ \A id \in WorkerId :
             IF owner[id] # NoCaller /\ Home[owner[id]] = i
               THEN loop'[id] = "none"
               ELSE loop'[id] = loop[id] /\ owner'[id] = owner[id]
    BY <1>7, <1>t DEF Crash, LoopsEnd, Typed
  <2>2. ASSUME NEW id \in WorkerId, owner[id] # NoCaller, Home[owner[id]] = i PROVE Unkept(id)'
    <3>1. ASSUME NEW j \in Instance, NEW m, KeptBy(m, j, loop, owner), IsKeepalive(m, id) PROVE j = i
      BY <2>2, <3>1 DEF KeptBy, IsKeepalive
    <3>2. \A j \in Instance : j # i => \A n \in 1 .. Len(queue[j]) : ~IsKeepalive(queue[j][n], id)
      BY <3>1 DEF KeepInv
    <3>3. \A j \in Instance : j # i /\ cur[j] # NoCommand => ~IsKeepalive(cur[j], id)
      BY <3>1 DEF KeepInv
    <3>4. Len(queue'[i]) = 0
      BY <2>1
    <3> QED
      BY <2>1, <3>2, <3>3, <3>4 DEF Unkept, IsKeepalive
  <2> QED
    BY <1>o, <2>1, <2>2, KeepFrame
<1> QED
  BY <1>1, <1>2, <1>3, <1>4, <1>5, <1>6, <1>7 DEF ManagerStep, Serve

LEMMA StepKeep == IInv /\ [Next]_vars => KeepInv'
<1> SUFFICES ASSUME IInv, [Next]_vars PROVE KeepInv'
  OBVIOUS
<1> USE DEF IInv
<1>o. \A x \in WorkerId : loop[x] # "none" => owner[x] \in Caller
  BY DEF KeepInv
<1>1. ASSUME NEW k \in Key, EndTransaction(k) PROVE KeepInv'
  BY <1>1, <1>o, KeepFrame DEF EndTransaction, managerVars, loopVars
<1>2. CASE Tick
  BY <1>2, <1>o, KeepFrame DEF Tick, managerVars
<1>3. CASE UNCHANGED vars
  BY <1>3, <1>o, KeepFrame DEF vars, managerVars, loopVars
<1> QED
  BY <1>1, <1>2, <1>3, CallerKeep, LoopKeep, ManagerKeep DEF Next

(***************************************************************************)
(* The order of a caller's commands.                                       *)
(***************************************************************************)
\* An acquire that c waits for.
AskedBy(m, c) == m.op = "acquire" /\ OpenFrom(m, c)

\* OrderInv', one instance and caller at a time.
LEMMA OrderParts ==
  ASSUME \A i \in Instance : \A c \in Caller :
           /\ \A n, m \in 1 .. Len(queue'[i]) :
                AskedBy(queue'[i][n], c) /\ m > n => ~ReleaseOf(queue'[i][m], c)
           /\ cur'[i] # NoCommand /\ AskedBy(cur'[i], c) =>
                \A m \in 1 .. Len(queue'[i]) : ~ReleaseOf(queue'[i][m], c)
  PROVE  OrderInv'
  BY DEF OrderInv, AskedBy, OpenFrom, ReleaseOf, Executing

LEMMA OrderHolds ==
  ASSUME OrderInv, NEW i \in Instance, NEW c \in Caller
  PROVE  /\ \A n, m \in 1 .. Len(queue[i]) :
              AskedBy(queue[i][n], c) /\ m > n => ~ReleaseOf(queue[i][m], c)
         /\ cur[i] # NoCommand /\ AskedBy(cur[i], c) =>
              \A m \in 1 .. Len(queue[i]) : ~ReleaseOf(queue[i][m], c)
  BY DEF OrderInv, AskedBy, Executing

LEMMA OrderFrame ==
  ASSUME OrderInv,
         \A i \in Instance : cur'[i] = cur[i] \/ cur'[i] = NoCommand,
         \A i \in Instance : queue'[i] = queue[i] \/ queue'[i] = <<>>
  PROVE  OrderInv'
<1> SUFFICES ASSUME NEW i \in Instance, NEW c \in Caller
             PROVE  /\ \A n, m \in 1 .. Len(queue'[i]) :
                         AskedBy(queue'[i][n], c) /\ m > n => ~ReleaseOf(queue'[i][m], c)
                    /\ cur'[i] # NoCommand /\ AskedBy(cur'[i], c) =>
                         \A m \in 1 .. Len(queue'[i]) : ~ReleaseOf(queue'[i][m], c)
  BY OrderParts
<1>1. CASE queue'[i] = queue[i]
  BY <1>1, OrderHolds
<1>2. CASE queue'[i] = <<>>
  BY <1>2
<1> QED
  BY <1>1, <1>2

\* What is sent is no release of a caller that still waits for an acquire.
LEMMA OrderSent ==
  ASSUME TypeInv, OrderInv, cur' = cur,
         NEW i \in Instance, NEW m \in GoodCommand, Send(i, m),
         m.op = "release" => Silent(m.from)
  PROVE  OrderInv'
<1> SUFFICES ASSUME NEW j \in Instance, NEW c \in Caller
             PROVE  /\ \A n, o \in 1 .. Len(queue'[j]) :
                         AskedBy(queue'[j][n], c) /\ o > n => ~ReleaseOf(queue'[j][o], c)
                    /\ cur[j] # NoCommand /\ AskedBy(cur[j], c) =>
                         \A o \in 1 .. Len(queue'[j]) : ~ReleaseOf(queue'[j][o], c)
  BY OrderParts
<1>s. /\ j # i => queue'[j] = queue[j]
      /\ Len(queue'[i]) = Len(queue[i]) + 1
      /\ Len(queue[i]) \in Nat
      /\ queue'[i][Len(queue[i]) + 1] = m
      /\ \A n \in 1 .. Len(queue[i]) : queue'[i][n] = queue[i][n]
  BY SendType
<1>1. CASE j # i
  BY <1>1, <1>s, OrderHolds
<1>2. CASE j = i /\ ReleaseOf(m, c)
  <2>1. Silent(c)
    BY <1>2 DEF ReleaseOf
  <2>2. \A n \in 1 .. Len(queue'[i]) : ~AskedBy(queue'[i][n], c)
    BY <1>2, <1>s, <2>1 DEF AskedBy, ReleaseOf, Silent
  <2> QED
    BY <1>2, <2>1, <2>2 DEF AskedBy, Silent
<1>3. CASE j = i /\ ~ReleaseOf(m, c)
  <2>1. ASSUME NEW n \in 1 .. Len(queue'[i]), NEW o \in 1 .. Len(queue'[i]),
               AskedBy(queue'[i][n], c), o > n
        PROVE  ~ReleaseOf(queue'[i][o], c)
    <3>1. CASE o = Len(queue[i]) + 1
      BY <1>3, <1>s, <3>1
    <3>2. CASE o \in 1 .. Len(queue[i])
      <4>1. n \in 1 .. Len(queue[i])
        BY <1>s, <2>1, <3>2
      <4> QED
        BY <1>s, <2>1, <3>2, <4>1, OrderHolds
    <3> QED
      BY <1>s, <3>1, <3>2
  <2>2. ASSUME cur[i] # NoCommand, AskedBy(cur[i], c), NEW o \in 1 .. Len(queue'[i])
        PROVE  ~ReleaseOf(queue'[i][o], c)
    BY <1>3, <1>s, <2>2, OrderHolds
  <2> QED
    BY <1>3, <2>1, <2>2
<1> QED
  BY <1>1, <1>2, <1>3

LEMMA OrderTaken ==
  ASSUME TypeInv, OrderInv, NEW i \in Instance, TakeCommand(i)
  PROVE  OrderInv'
<1>1. /\ queue[i] \in Seq(GoodCommand)
      /\ queue[i] # <<>>
      /\ queue'[i] = Tail(queue[i])
      /\ cur'[i] = NoCommand \/ cur'[i] = Head(queue[i])
      /\ \A j \in Instance : j # i => cur'[j] = cur[j] /\ queue'[j] = queue[j]
  BY DEF TakeCommand, TypeInv
<1>2. /\ Len(queue[i]) \in Nat \ {0}
      /\ Len(queue'[i]) = Len(queue[i]) - 1
      /\ cur'[i] = NoCommand \/ cur'[i] = queue[i][1]
      /\ \A n \in 1 .. Len(queue'[i]) : n + 1 \in 2 .. Len(queue[i]) /\ queue'[i][n] = queue[i][n + 1]
  BY <1>1, Shifted
<1> SUFFICES ASSUME NEW j \in Instance, NEW c \in Caller
             PROVE  /\ \A n, o \in 1 .. Len(queue'[j]) :
                         AskedBy(queue'[j][n], c) /\ o > n => ~ReleaseOf(queue'[j][o], c)
                    /\ cur'[j] # NoCommand /\ AskedBy(cur'[j], c) =>
                         \A o \in 1 .. Len(queue'[j]) : ~ReleaseOf(queue'[j][o], c)
  BY OrderParts
<1>3. CASE j # i
  BY <1>1, <1>3, OrderHolds
<1>4. CASE j = i
  <2>1. ASSUME NEW n \in 1 .. Len(queue'[i]), NEW o \in 1 .. Len(queue'[i]),
               AskedBy(queue'[i][n], c), o > n
        PROVE  ~ReleaseOf(queue'[i][o], c)
    <3>1. n + 1 \in 1 .. Len(queue[i]) /\ o + 1 \in 1 .. Len(queue[i]) /\ o + 1 > n + 1
      BY <1>2, <2>1
    <3> QED
      BY <1>2, <2>1, <3>1, OrderHolds
  <2>2. ASSUME cur'[i] # NoCommand, AskedBy(cur'[i], c), NEW o \in 1 .. Len(queue'[i])
        PROVE  ~ReleaseOf(queue'[i][o], c)
    <3>1. /\ 1 \in 1 .. Len(queue[i]) /\ o + 1 \in 1 .. Len(queue[i]) /\ o + 1 > 1
          /\ AskedBy(queue[i][1], c)
      BY <1>2, <2>2
    <3> QED
      BY <1>2, <3>1, OrderHolds
  <2> QED
    BY <1>4, <2>1, <2>2
<1> QED
  BY <1>3, <1>4

LEMMA OrderCancelled ==
  ASSUME TypeInv, OrderInv, NEW c \in Caller, Cancel(c)
  PROVE  OrderInv'
<1>1. ASSUME NEW m \in GoodCommand, NEW d \in Caller
      PROVE  /\ AskedBy(Closed(m, c), d) => AskedBy(m, d)
             /\ ReleaseOf(Closed(m, c), d) => ReleaseOf(m, d)
  <2>1. /\ Closed(m, c).op = m.op
        /\ Closed(m, c).from = m.from
        /\ Closed(m, c).open => m.open
    BY ClosedGood
  <2> QED
    BY <2>1 DEF AskedBy, OpenFrom, ReleaseOf
<1> SUFFICES ASSUME NEW i \in Instance, NEW d \in Caller
             PROVE  /\ \A n, m \in 1 .. Len(queue'[i]) :
                         AskedBy(queue'[i][n], d) /\ m > n => ~ReleaseOf(queue'[i][m], d)
                    /\ cur'[i] # NoCommand /\ AskedBy(cur'[i], d) =>
                         \A m \in 1 .. Len(queue'[i]) : ~ReleaseOf(queue'[i][m], d)
  BY OrderParts
<1>2. /\ cur'[i] = Closed(cur[i], c)
      /\ Len(queue'[i]) = Len(queue[i])
      /\ \A n \in 1 .. Len(queue[i]) : queue'[i][n] = Closed(queue[i][n], c)
  BY CancelShape
<1>3. cur'[i] # NoCommand => cur[i] # NoCommand /\ cur[i] \in GoodCommand
  BY <1>2, ClosedNothing DEF TypeInv
<1>4. \A n \in 1 .. Len(queue[i]) : queue[i][n] \in GoodCommand
  BY Element DEF TypeInv
<1>5. /\ \A n \in 1 .. Len(queue'[i]) : AskedBy(queue'[i][n], d) => AskedBy(queue[i][n], d)
      /\ \A n \in 1 .. Len(queue'[i]) : ReleaseOf(queue'[i][n], d) => ReleaseOf(queue[i][n], d)
  BY <1>1, <1>2, <1>4
<1>6. cur'[i] # NoCommand /\ AskedBy(cur'[i], d) => AskedBy(cur[i], d)
  BY <1>1, <1>2, <1>3
<1> QED
  BY <1>2, <1>3, <1>5, <1>6, OrderHolds

LEMMA StepOrder == IInv /\ [Next]_vars => OrderInv'
<1> SUFFICES ASSUME IInv, [Next]_vars PROVE OrderInv'
  OBVIOUS
<1> USE DEF IInv
<1>f. ASSUME NEW i \in Instance, Finished(i) PROVE OrderInv'
  BY <1>f, TypedBefore, OrderFrame DEF Finished, Typed
<1>1. ASSUME NEW c \in Caller, CallerStep(c) PROVE OrderInv'
  <2>h. Home[c] \in Instance
    BY WorkLockAssumption
  <2>1. CASE Ask(c)
    <3>1. AcquireBy(c) \in GoodCommand /\ Send(Home[c], AcquireBy(c)) /\ cur' = cur
      BY <2>1, SentAreGood DEF Ask, AcquireBy
    <3>2. AcquireBy(c).op # "release"
      BY DEF AcquireBy
    <3> QED
      BY <2>h, <3>1, <3>2, OrderSent
  <2>2. ASSUME NEW wait \in BOOLEAN, Release(c, wait) PROVE OrderInv'
    <3>1. ReleaseBy(c, wait) \in GoodCommand /\ Send(Home[c], ReleaseBy(c, wait)) /\ cur' = cur
      BY <2>2, SentAreGood DEF Release, ReleaseBy
    <3>2. ReleaseBy(c, wait).from = c
      BY DEF ReleaseBy
    <3>3. Silent(c)
      BY <2>2, WaitsOrSilent DEF Release
    <3> QED
      BY <2>h, <3>1, <3>2, <3>3, OrderSent
  <2>3. CASE Cancel(c)
    BY <2>3, OrderCancelled
  <2>4. CASE Poll(c) \/ FenceTransaction(c)
    BY <2>4, OrderFrame DEF Poll, FenceTransaction, managerVars
  <2> QED
    BY <1>1, <2>1, <2>2, <2>3, <2>4 DEF CallerStep
<1>2. ASSUME NEW id \in WorkerId, LoopStep(id) PROVE OrderInv'
  <2>1. CASE queue' = queue
    BY <1>2, <2>1, OrderFrame
    DEF LoopStep, KeepaliveTick, KeepaliveSend, LoopStops, managerVars
  <2>2. CASE KeepaliveSend(id) /\ queue' # queue
    <3>1. /\ Send(Home[owner[id]], KeepaliveBy(id))
          /\ cur' = cur
          /\ loop[id] = "due"
      BY <2>2 DEF KeepaliveSend, KeepaliveBy
    <3>2. Home[owner[id]] \in Instance /\ KeepaliveBy(id) \in GoodCommand
      BY <3>1, SentAreGood, WorkLockAssumption DEF KeepInv
    <3>3. KeepaliveBy(id).op # "release"
      BY DEF KeepaliveBy
    <3> QED
      BY <3>1, <3>2, <3>3, OrderSent
  <2> QED
    BY <1>2, <2>1, <2>2 DEF LoopStep, KeepaliveTick, LoopStops, managerVars
<1>3. ASSUME NEW i \in Instance, ManagerStep(i) PROVE OrderInv'
  <2>1. CASE Finished(i)
    BY <2>1, <1>f
  <2>2. CASE TakeCommand(i)
    BY <2>2, OrderTaken
  <2>3. CASE Crash(i)
    <3>1. /\ queue'[i] = <<>> /\ \A j \in Instance : j # i => queue'[j] = queue[j]
          /\ cur'[i] = NoCommand /\ \A j \in Instance : j # i => cur'[j] = cur[j]
      BY <2>3, TypedBefore DEF Crash, Typed
    <3> QED
      BY <3>1, OrderFrame
  <2> QED
    BY <1>3, <2>1, <2>2, <2>3
    DEF ManagerStep, Serve, ServeAcquire, ServeRelease, ServeKeepalive,
        StatementFails, ReplyLost, ErrorReply
<1>4. ASSUME NEW k \in Key, EndTransaction(k) PROVE OrderInv'
  BY <1>4, OrderFrame DEF EndTransaction, managerVars
<1>5. CASE Tick
  BY <1>5, OrderFrame DEF Tick, managerVars
<1>6. CASE UNCHANGED vars
  BY <1>6, OrderFrame DEF vars, managerVars
<1> QED
  BY <1>1, <1>2, <1>3, <1>4, <1>5, <1>6 DEF Next

(***************************************************************************)
(* The table.                                                              *)
(***************************************************************************)
TakeRow(k, id) ==
  fence[k] = {} /\ Unused(id) /\ row' = [row EXCEPT ![k] = id] /\ fence' = fence
EndRow(k) == fence[k] = {} /\ row' = [row EXCEPT ![k] = NoId] /\ fence' = fence
FenceRow(k) ==
  row[k] # NoId /\ fence' = [fence EXCEPT ![k] = @ \cup {row[k]}] /\ row' = row
UnfenceRow(k) == fence' = [fence EXCEPT ![k] = {}] /\ row' = row

LEMMA TableStep ==
  ASSUME IInv, [Next]_vars
  PROVE  \/ row' = row /\ fence' = fence
         \/ \E k \in Key : \/ \E id \in WorkerId : TakeRow(k, id)
                           \/ EndRow(k) \/ FenceRow(k) \/ UnfenceRow(k)
<1> DEFINE G == \/ row' = row /\ fence' = fence
                \/ \E k \in Key : \/ \E id \in WorkerId : TakeRow(k, id)
                                  \/ EndRow(k) \/ FenceRow(k) \/ UnfenceRow(k)
<1> SUFFICES G
  OBVIOUS
<1>0. TypeInv
  BY DEF IInv
<1>u. ASSUME UNCHANGED tableVars PROVE G
  BY <1>u DEF tableVars
<1>d. ASSUME NEW k \in Key, NEW id \in WorkerId, DeleteRow(k, id) PROVE G
  BY <1>d, <1>u DEF DeleteRow, WriteRow, RowIsFree, EndRow
<1>1. ASSUME NEW c \in Caller, CallerStep(c) PROVE G
  <2>1. CASE FenceTransaction(c)
    <3>1. KeyOf[c] \in Key /\ row[KeyOf[c]] = cid[c] /\ cid[c] \in WorkerId
      BY <2>1, WorkLockAssumption DEF FenceTransaction, IInv, IdInv
    <3>2. FenceRow(KeyOf[c])
      BY <2>1, <3>1, WorkLockAssumption DEF FenceTransaction, FenceRow
    <3> QED
      BY <3>1, <3>2
  <2>2. CASE ~FenceTransaction(c)
    <3>1. UNCHANGED tableVars
      BY <1>1, <2>2 DEF CallerStep, Ask, Poll, Cancel, Release
    <3> QED
      BY <3>1, <1>u
  <2> QED
    BY <2>1, <2>2
<1>2. ASSUME NEW id \in WorkerId, LoopStep(id) PROVE G
  <2>1. UNCHANGED tableVars
    BY <1>2 DEF LoopStep, KeepaliveTick, KeepaliveSend, LoopStops
  <2> QED
    BY <2>1, <1>u
<1>3. ASSUME NEW i \in Instance, ManagerStep(i) PROVE G
  <2>1. CASE UNCHANGED tableVars
    BY <2>1, <1>u
  <2>2. CASE ServeAcquire(i)
    <3>1. cur[i].key \in Key
      BY <2>2, <1>0, Current DEF ServeAcquire, Executing
    <3>2. \/ UNCHANGED tableVars
          \/ \E id \in WorkerId : TakeRow(cur[i].key, id)
      BY <2>2 DEF ServeAcquire, TakeRow, WriteRow, RowIsFree
    <3> QED
      BY <3>1, <3>2, <1>u
  <2>3. CASE ServeRelease(i)
    BY <2>3, <1>0, <1>d, Current DEF ServeRelease, Executing
  <2>4. CASE ServeKeepalive(i)
    BY <2>4 DEF ServeKeepalive, RefreshRow
  <2>5. CASE ReplyLost(i)
    <3>1. cur[i] # NoCommand
      BY <2>5 DEF ReplyLost
    <3>2. CASE cur[i].op = "acquire"
      <4>1. \E id \in WorkerId : TakeRow(cur[i].key, id)
        BY <2>5, <3>2 DEF ReplyLost, TakeRow, WriteRow, RowIsFree
      <4> QED
        BY <1>0, <3>1, <4>1, Current
    <3>3. CASE cur[i].op = "release"
      BY <2>5, <1>0, <1>d, <3>1, <3>3, Current DEF ReplyLost
    <3>4. CASE cur[i].op = "keepalive"
      BY <2>5, <3>4 DEF ReplyLost, RefreshRow
    <3> QED
      BY <1>0, <3>1, <3>2, <3>3, <3>4, Current
  <2> QED
    BY <1>3, <2>1, <2>2, <2>3, <2>4, <2>5
    DEF ManagerStep, Serve, TakeCommand, StatementFails, Crash
<1>4. ASSUME NEW k \in Key, EndTransaction(k) PROVE G
  BY <1>4 DEF EndTransaction, UnfenceRow
<1>5. CASE Tick
  BY <1>5 DEF Tick
<1>6. CASE UNCHANGED vars
  BY <1>6, <1>u DEF vars
<1> HIDE DEF G
<1> QED
  BY <1>1, <1>2, <1>3, <1>4, <1>5, <1>6 DEF Next

LEMMA StepFence == IInv /\ [Next]_vars => FenceInv'
<1> SUFFICES ASSUME IInv, [Next]_vars PROVE FenceInv'
  OBVIOUS
<1>1. row \in [Key -> WorkerId \cup {NoId}] /\ fence \in [Key -> SUBSET WorkerId]
  BY DEF IInv, TypeInv, TypeOK
<1>2. \A k \in Key : fence[k] \subseteq {row[k]}
  BY DEF IInv, FenceInv, FencedWorkersKeepTheirRow
<1>3. CASE row' = row /\ fence' = fence
  BY <1>2, <1>3 DEF FenceInv, FencedWorkersKeepTheirRow
<1>4. ASSUME NEW k \in Key, NEW id \in WorkerId, TakeRow(k, id) PROVE FenceInv'
  BY <1>1, <1>2, <1>4 DEF TakeRow, FenceInv, FencedWorkersKeepTheirRow
<1>5. ASSUME NEW k \in Key, EndRow(k) \/ FenceRow(k) \/ UnfenceRow(k) PROVE FenceInv'
  BY <1>1, <1>2, <1>5 DEF EndRow, FenceRow, UnfenceRow, FenceInv, FencedWorkersKeepTheirRow
<1> QED
  BY <1>3, <1>4, <1>5, TableStep

\* A lease never has two keys.
LEMMA StepRows ==
  ASSUME IInv, [Next]_vars, NEW j \in Key, NEW k \in Key, row'[j] = row'[k], row'[j] # NoId
  PROVE  j = k
<1>1. /\ row \in [Key -> WorkerId \cup {NoId}]
      /\ \A a, b \in Key : row[a] = row[b] /\ row[a] # NoId => a = b
  BY DEF IInv, TypeInv, TypeOK, LeaseInv
<1>2. CASE row' = row
  BY <1>1, <1>2
<1>3. ASSUME NEW l \in Key, NEW id \in WorkerId, TakeRow(l, id) PROVE j = k
  BY <1>1, <1>3 DEF TakeRow, Unused
<1>4. ASSUME NEW l \in Key, EndRow(l) PROVE j = k
  BY <1>1, <1>4 DEF EndRow
<1> QED
  BY <1>2, <1>3, <1>4, TableStep DEF FenceRow, UnfenceRow

\* The steps that are no fault.
FaultFree ==
  \/ \E c \in Caller : \/ Ask(c) \/ Poll(c) \/ FenceTransaction(c)
                       \/ \E wait \in BOOLEAN : Release(c, wait)
  \/ \E id \in WorkerId : LoopStep(id)
  \/ \E i \in Instance : TakeCommand(i) \/ Serve(i)
  \/ UNCHANGED <<row, queue, cur, cid>>

LEMMA NoFault ==
  ASSUME IInv, [Next]_vars, faults' = 0
  PROVE  faults = 0 /\ FaultFree
<1>0. faults \in Nat
  BY WorkLockAssumption DEF IInv, TypeInv, TypeOK
<1>n. ASSUME NEW kind, Fault(kind) PROVE FALSE
  BY <1>0, <1>n DEF Fault
<1>1. ASSUME NEW c \in Caller, CallerStep(c) PROVE faults = 0 /\ FaultFree
  <2>1. ~Cancel(c)
    BY <1>n DEF Cancel
  <2> QED
    BY <1>1, <2>1 DEF CallerStep, FaultFree, Ask, Poll, FenceTransaction, Release
<1>2. ASSUME NEW id \in WorkerId, LoopStep(id) PROVE faults = 0 /\ FaultFree
  BY <1>2 DEF LoopStep, KeepaliveTick, KeepaliveSend, LoopStops, FaultFree
<1>3. ASSUME NEW i \in Instance, ManagerStep(i) PROVE faults = 0 /\ FaultFree
  <2>1. ~StatementFails(i) /\ ~ReplyLost(i) /\ ~Crash(i)
    BY <1>n DEF StatementFails, ReplyLost, Crash
  <2>2. TakeCommand(i) \/ Serve(i)
    BY <1>3, <2>1 DEF ManagerStep
  <2>3. faults' = faults
    BY <2>2 DEF TakeCommand, Serve, ServeAcquire, ServeRelease, ServeKeepalive
  <2> QED
    BY <2>2, <2>3 DEF FaultFree
<1>4. ASSUME NEW k \in Key, EndTransaction(k) PROVE faults = 0 /\ FaultFree
  BY <1>4 DEF EndTransaction, FaultFree, managerVars, callerVars
<1>5. CASE Tick
  BY <1>5 DEF Tick, FaultFree, managerVars, callerVars
<1>6. CASE UNCHANGED vars
  BY <1>6 DEF vars, FaultFree, tableVars, managerVars, callerVars
<1> QED
  BY <1>1, <1>2, <1>3, <1>4, <1>5, <1>6 DEF Next

\* What a fault-free step does to the commands: one is sent, taken or executed.
LEMMA QueueStep ==
  ASSUME IInv, FaultFree
  PROVE  \/ \E i \in Instance, m \in GoodCommand :
              Send(i, m) /\ cur' = cur /\ (m.op = "acquire" => m.open)
         \/ \E i \in Instance : TakeCommand(i)
         \/ \E i \in Instance : cur[i] # NoCommand /\ Finished(i)
         \/ queue' = queue /\ cur' = cur
<1> USE DEF IInv
<1>1. ASSUME NEW c \in Caller, Ask(c)
      PROVE  \E i \in Instance, m \in GoodCommand :
               Send(i, m) /\ cur' = cur /\ (m.op = "acquire" => m.open)
  <2>1. AcquireBy(c) \in GoodCommand /\ Send(Home[c], AcquireBy(c)) /\ cur' = cur
    BY <1>1, SentAreGood DEF Ask, AcquireBy
  <2>2. Home[c] \in Instance /\ AcquireBy(c).open
    BY WorkLockAssumption DEF AcquireBy
  <2> QED
    BY <2>1, <2>2
<1>2. ASSUME NEW c \in Caller, NEW wait \in BOOLEAN, Release(c, wait)
      PROVE  \E i \in Instance, m \in GoodCommand :
               Send(i, m) /\ cur' = cur /\ (m.op = "acquire" => m.open)
  <2>1. ReleaseBy(c, wait) \in GoodCommand /\ Send(Home[c], ReleaseBy(c, wait)) /\ cur' = cur
    BY <1>2, SentAreGood DEF Release, ReleaseBy
  <2>2. Home[c] \in Instance /\ ReleaseBy(c, wait).op = "release"
    BY WorkLockAssumption DEF ReleaseBy
  <2> QED
    BY <2>1, <2>2
<1>3. ASSUME NEW id \in WorkerId, LoopStep(id), queue' # queue
      PROVE  \E i \in Instance, m \in GoodCommand :
               Send(i, m) /\ cur' = cur /\ (m.op = "acquire" => m.open)
  <2>1. /\ Send(Home[owner[id]], KeepaliveBy(id))
        /\ cur' = cur
        /\ loop[id] = "due"
    BY <1>3 DEF LoopStep, KeepaliveTick, LoopStops, KeepaliveSend, KeepaliveBy, managerVars
  <2>2. Home[owner[id]] \in Instance /\ KeepaliveBy(id) \in GoodCommand
    BY <2>1, SentAreGood, WorkLockAssumption DEF KeepInv
  <2>3. KeepaliveBy(id).op = "keepalive"
    BY DEF KeepaliveBy
  <2> QED
    BY <2>1, <2>2, <2>3
<1>4. ASSUME NEW id \in WorkerId, LoopStep(id) PROVE cur' = cur
  BY <1>4 DEF LoopStep, KeepaliveTick, LoopStops, KeepaliveSend, managerVars
<1>5. ASSUME NEW i \in Instance, Serve(i) PROVE cur[i] # NoCommand /\ Finished(i)
  BY <1>5 DEF Serve, ServeAcquire, ServeRelease, ServeKeepalive, Executing
<1>6. ASSUME NEW c \in Caller, Poll(c) \/ FenceTransaction(c) PROVE queue' = queue /\ cur' = cur
  BY <1>6 DEF Poll, FenceTransaction, managerVars
<1> QED
  BY <1>1, <1>2, <1>3, <1>4, <1>5, <1>6 DEF FaultFree

\* Every acquire in flight has a caller that waits for it.
AllAsked ==
  \A i \in Instance :
    /\ cur[i] # NoCommand /\ cur[i].op = "acquire" => cur[i].open
    /\ \A n \in 1 .. Len(queue[i]) : queue[i][n].op = "acquire" => queue[i][n].open

LEMMA StepAsked ==
  ASSUME IInv, FaultFree, AllAsked
  PROVE  AllAsked'
<1>0. TypeInv /\ Typed
  BY TypedBefore DEF IInv
<1>1. ASSUME NEW i \in Instance, NEW m \in GoodCommand, Send(i, m), cur' = cur,
             m.op = "acquire" => m.open
      PROVE  AllAsked'
  <2>1. /\ \A j \in Instance : j # i => queue'[j] = queue[j]
        /\ Len(queue'[i]) = Len(queue[i]) + 1
        /\ Len(queue[i]) \in Nat
        /\ queue'[i][Len(queue[i]) + 1] = m
        /\ \A n \in 1 .. Len(queue[i]) : queue'[i][n] = queue[i][n]
    BY <1>0, <1>1, SendType
  <2>2. \A n \in 1 .. Len(queue'[i]) : queue'[i][n].op = "acquire" => queue'[i][n].open
    <3> TAKE n \in 1 .. Len(queue'[i])
    <3>1. CASE n \in 1 .. Len(queue[i])
      <4>1. queue'[i][n] = queue[i][n]
        BY <2>1, <3>1
      <4> QED
        BY <3>1, <4>1 DEF AllAsked
    <3>2. CASE n = Len(queue[i]) + 1
      BY <1>1, <2>1, <3>2
    <3> QED
      BY <2>1, <3>1, <3>2
  <2> QED
    BY <1>1, <2>1, <2>2 DEF AllAsked
<1>2. ASSUME NEW i \in Instance, TakeCommand(i) PROVE AllAsked'
  <2>1. /\ queue[i] \in Seq(GoodCommand)
        /\ queue[i] # <<>>
        /\ queue'[i] = Tail(queue[i])
        /\ cur'[i] = NoCommand \/ cur'[i] = Head(queue[i])
        /\ \A j \in Instance : j # i => cur'[j] = cur[j] /\ queue'[j] = queue[j]
    BY <1>0, <1>2 DEF TakeCommand, TypeInv
  <2>2. /\ Len(queue[i]) \in Nat \ {0}
        /\ Len(queue'[i]) = Len(queue[i]) - 1
        /\ cur'[i] = NoCommand \/ cur'[i] = queue[i][1]
        /\ \A n \in 1 .. Len(queue'[i]) : n + 1 \in 1 .. Len(queue[i]) /\ queue'[i][n] = queue[i][n + 1]
    BY <2>1, Shifted
  <2>3. /\ cur'[i] # NoCommand /\ cur'[i].op = "acquire" => cur'[i].open
        /\ \A n \in 1 .. Len(queue'[i]) : queue'[i][n].op = "acquire" => queue'[i][n].open
    BY <2>2 DEF AllAsked
  <2> QED
    BY <2>1, <2>3 DEF AllAsked
<1>3. ASSUME NEW i \in Instance, Finished(i) PROVE AllAsked'
  BY <1>0, <1>3 DEF Finished, Typed, AllAsked
<1>4. ASSUME queue' = queue, cur' = cur PROVE AllAsked'
  BY <1>4 DEF AllAsked
<1> QED
  BY <1>1, <1>2, <1>3, <1>4, QueueStep

\* A release on its way stays on its way until it is executed.
LEMMA StepOnItsWay ==
  ASSUME IInv, FaultFree, NEW k \in Key, NEW id \in WorkerId, OnItsWay(k, id)
  PROVE  \/ OnItsWay(k, id)'
         \/ \E i \in Instance :
              cur[i] # NoCommand /\ Releases(cur[i], k, id) /\ Finished(i)
<1>0. TypeInv /\ Typed
  BY TypedBefore DEF IInv
<1>p. PICK j \in Instance :
        \/ cur[j] # NoCommand /\ Releases(cur[j], k, id)
        \/ \E n \in 1 .. Len(queue[j]) : Releases(queue[j][n], k, id)
  BY DEF OnItsWay
<1>g. ASSUME \/ cur'[j] # NoCommand /\ Releases(cur'[j], k, id)
             \/ \E n \in 1 .. Len(queue'[j]) : Releases(queue'[j][n], k, id)
      PROVE  OnItsWay(k, id)'
  BY <1>g DEF OnItsWay, Releases
<1>1. ASSUME NEW i \in Instance, NEW m \in GoodCommand, Send(i, m), cur' = cur
      PROVE  OnItsWay(k, id)'
  <2>1. /\ \A l \in Instance : l # i => queue'[l] = queue[l]
        /\ Len(queue'[i]) = Len(queue[i]) + 1
        /\ Len(queue[i]) \in Nat
        /\ \A n \in 1 .. Len(queue[i]) : queue'[i][n] = queue[i][n]
    BY <1>0, <1>1, SendType
  <2>2. \A n \in 1 .. Len(queue[j]) : n \in 1 .. Len(queue'[j]) /\ queue'[j][n] = queue[j][n]
    BY <2>1
  <2> QED
    BY <1>1, <1>g, <1>p, <2>2
<1>2. ASSUME NEW i \in Instance, TakeCommand(i) PROVE OnItsWay(k, id)'
  <2>1. /\ queue[i] \in Seq(GoodCommand)
        /\ queue[i] # <<>>
        /\ cur[i] = NoCommand
        /\ queue'[i] = Tail(queue[i])
        /\ Head(queue[i]).op = "release" => cur'[i] = Head(queue[i])
        /\ \A l \in Instance : l # i => cur'[l] = cur[l] /\ queue'[l] = queue[l]
    BY <1>0, <1>2 DEF TakeCommand, TypeInv, Typed
  <2>2. CASE j # i
    BY <1>g, <1>p, <2>1, <2>2
  <2>3. CASE j = i
    <3>1. PICK n \in 1 .. Len(queue[i]) : Releases(queue[i][n], k, id)
      BY <1>p, <2>1, <2>3
    <3>2. /\ Len(queue[i]) \in Nat \ {0}
          /\ Len(Tail(queue[i])) = Len(queue[i]) - 1
          /\ Head(queue[i]) = queue[i][1]
          /\ queue[i][1] \in GoodCommand
          /\ \A o \in 1 .. Len(Tail(queue[i])) : Tail(queue[i])[o] = queue[i][o + 1]
      BY <2>1, Shifted
    <3>3. CASE n = 1
      <4>1. cur'[i] = queue[i][1] /\ queue[i][1] # NoCommand
        BY <2>1, <3>1, <3>2, <3>3, NoCommandAssumption DEF Releases, GoodCommand
      <4> QED
        BY <1>g, <2>3, <3>1, <3>3, <4>1
    <3>4. CASE n # 1
      <4>1. n - 1 \in 1 .. Len(queue'[i]) /\ queue'[i][n - 1] = queue[i][n]
        BY <2>1, <3>2, <3>4
      <4> QED
        BY <1>g, <2>3, <3>1, <4>1
    <3> QED
      BY <3>3, <3>4
  <2> QED
    BY <2>2, <2>3
<1>3. ASSUME NEW i \in Instance, Finished(i), ~(cur[i] # NoCommand /\ Releases(cur[i], k, id))
      PROVE  OnItsWay(k, id)'
  <2>1. queue' = queue /\ \A l \in Instance : l # i => cur'[l] = cur[l]
    BY <1>0, <1>3 DEF Finished, Typed
  <2> QED
    BY <1>3, <1>g, <1>p, <2>1
<1>4. ASSUME queue' = queue, cur' = cur PROVE OnItsWay(k, id)'
  BY <1>4, <1>g, <1>p
<1> QED
  BY <1>1, <1>2, <1>3, <1>4, QueueStep

\* A lease stays held until it is released.
LEMMA StepHeld ==
  ASSUME IInv, FaultFree, NEW k \in Key, NEW id \in WorkerId, Held(k, id)
  PROVE  Held(k, id)' \/ OnItsWay(k, id)'
<1> USE DEF IInv
<1>0. TypeInv /\ Typed
  BY TypedBefore
<1>p. PICK d \in Caller : cid[d] = id /\ KeyOf[d] = k
  BY DEF Held
<1>1. CASE cid'[d] = cid[d]
  BY <1>1, <1>p DEF Held
<1>2. CASE cid'[d] # cid[d]
  <2>1. ASSUME NEW c \in Caller, NEW wait \in BOOLEAN, Release(c, wait)
        PROVE  OnItsWay(k, id)'
    <3>1. c = d
      BY <1>0, <1>2, <2>1 DEF Release, Typed
    <3>2. /\ ReleaseBy(c, wait) \in GoodCommand
          /\ Send(Home[c], ReleaseBy(c, wait))
          /\ Home[c] \in Instance
      BY <2>1, SentAreGood, WorkLockAssumption DEF Release, ReleaseBy
    <3>3. /\ Len(queue[Home[c]]) + 1 \in 1 .. Len(queue'[Home[c]])
          /\ queue'[Home[c]][Len(queue[Home[c]]) + 1] = ReleaseBy(c, wait)
      BY <1>0, <3>2, SendType
    <3>4. Releases(ReleaseBy(c, wait), k, id)
      BY <1>p, <3>1 DEF Releases, ReleaseBy
    <3> QED
      BY <3>2, <3>3, <3>4 DEF OnItsWay, Releases
  <2>2. ASSUME NEW i \in Instance, Serve(i) PROVE FALSE
    <3>1. CASE ServeAcquire(i)
      <4>1. cur[i] # NoCommand /\ cur[i].op = "acquire"
        BY <3>1 DEF ServeAcquire, Executing
      <4>2. cur[i].from \in Caller
        BY <1>0, <4>1, Current
      <4>3. cur[i].open /\ d = cur[i].from
        <5>1. \/ cid' = cid
              \/ \E x \in WorkerId : cur[i].open /\ cid' = [cid EXCEPT ![cur[i].from] = x]
          BY <3>1 DEF ServeAcquire, Answered, callerVars
        <5> QED
          BY <1>0, <1>2, <4>2, <5>1 DEF Typed
      <4>4. cpc[d] = "asking"
        BY <4>1, <4>3 DEF ReplyInv, Awaited
      <4> QED
        BY <1>p, <4>4 DEF IdInv
    <3>2. CASE ServeRelease(i) \/ ServeKeepalive(i)
      BY <1>2, <3>2 DEF ServeRelease, ServeKeepalive, Answered, callerVars
    <3> QED
      BY <2>2, <3>1, <3>2 DEF Serve
  <2>3. ASSUME NEW c \in Caller, Ask(c) \/ Poll(c) \/ FenceTransaction(c) PROVE FALSE
    BY <1>2, <2>3 DEF Ask, Poll, FenceTransaction, callerVars
  <2>4. ASSUME NEW x \in WorkerId, LoopStep(x) PROVE FALSE
    BY <1>2, <2>4 DEF LoopStep, KeepaliveTick, KeepaliveSend, LoopStops, callerVars
  <2>5. ASSUME NEW i \in Instance, TakeCommand(i) PROVE FALSE
    BY <1>2, <2>5 DEF TakeCommand, callerVars
  <2> QED
    BY <1>2, <2>1, <2>2, <2>3, <2>4, <2>5 DEF FaultFree
<1> QED
  BY <1>1, <1>2

\* A lease that a fault-free step leaves in the table is accounted for.
LEMMA StepAccounted ==
  ASSUME IInv, [Next]_vars, FaultFree, AllAsked,
         \A k \in Key : row[k] # NoId => Held(k, row[k]) \/ OnItsWay(k, row[k]),
         NEW k \in Key, NEW id \in WorkerId, row'[k] = id
  PROVE  Held(k, id)' \/ OnItsWay(k, id)'
<1> USE DEF IInv
<1>0. TypeInv /\ Typed
  BY TypedBefore
<1>n. id # NoId
  BY WorkLockAssumption
<1>1. CASE row[k] = id
  <2>1. Held(k, id) \/ OnItsWay(k, id)
    BY <1>1, <1>n
  <2>2. ASSUME NEW i \in Instance, cur[i] # NoCommand, Releases(cur[i], k, id), Finished(i)
        PROVE  FALSE
    <3>1. \A j \in Instance : j # i => cur'[j] = cur[j]
      BY <1>0, <2>2 DEF Finished, Typed
    <3>2. cur' # cur
      BY <1>0, <2>2 DEF Finished, Typed
    <3>3. ASSUME NEW j \in Instance, Serve(j) PROVE j = i
      BY <1>0, <2>2, <3>1, <3>3
      DEF Serve, ServeAcquire, ServeRelease, ServeKeepalive, Executing, Finished, Typed
    <3>4. ASSUME NEW j \in Instance, TakeCommand(j) PROVE FALSE
      BY <1>0, <2>2, <3>4 DEF TakeCommand, Finished, Typed
    <3>5. ASSUME NEW x \in WorkerId, LoopStep(x) PROVE FALSE
      BY <3>2, <3>5 DEF LoopStep, KeepaliveTick, KeepaliveSend, LoopStops, managerVars
    <3>6. ASSUME NEW c \in Caller, Ask(c) \/ Poll(c) \/ FenceTransaction(c) PROVE FALSE
      BY <3>2, <3>6 DEF Ask, Poll, FenceTransaction, managerVars
    <3>7. ASSUME NEW c \in Caller, NEW wait \in BOOLEAN, Release(c, wait) PROVE FALSE
      BY <3>2, <3>7 DEF Release
    <3>8. Serve(i)
      BY <3>2, <3>3, <3>4, <3>5, <3>6, <3>7 DEF FaultFree
    <3>9. DeleteRow(k, id)
      BY <2>2, <3>8 DEF Serve, ServeAcquire, ServeKeepalive, ServeRelease, Executing, Releases
    <3> QED
      BY <1>0, <1>1, <1>n, <3>9 DEF DeleteRow, WriteRow, Typed
  <2> QED
    BY <2>1, <2>2, StepHeld, StepOnItsWay
<1>2. CASE row[k] # id
  <2>1. PICK i \in Instance : ServeAcquire(i) /\ row' # row
    <3>1. row' # row
      BY <1>0, <1>2 DEF Typed
    <3>2. ASSUME NEW i \in Instance, ServeRelease(i) PROVE FALSE
      <4>1. cur[i].key \in Key /\ DeleteRow(cur[i].key, cur[i].id)
        BY <1>0, <3>2, Current DEF ServeRelease, Executing
      <4> QED
        BY <1>0, <1>2, <1>n, <4>1 DEF DeleteRow, WriteRow, Typed, tableVars
    <3>3. ASSUME NEW i \in Instance, ServeKeepalive(i) \/ TakeCommand(i) PROVE FALSE
      BY <3>1, <3>3 DEF ServeKeepalive, RefreshRow, TakeCommand, tableVars
    <3>4. ASSUME NEW x \in WorkerId, LoopStep(x) PROVE FALSE
      BY <3>1, <3>4 DEF LoopStep, KeepaliveTick, KeepaliveSend, LoopStops, tableVars
    <3>5. ASSUME NEW c \in Caller, Ask(c) \/ Poll(c) \/ FenceTransaction(c) PROVE FALSE
      BY <3>1, <3>5 DEF Ask, Poll, FenceTransaction, tableVars
    <3>6. ASSUME NEW c \in Caller, NEW wait \in BOOLEAN, Release(c, wait) PROVE FALSE
      BY <3>1, <3>6 DEF Release, tableVars
    <3> QED
      BY <3>1, <3>2, <3>3, <3>4, <3>5, <3>6 DEF FaultFree, Serve
  <2>2. cur[i] # NoCommand /\ cur[i].op = "acquire"
    BY <2>1 DEF ServeAcquire, Executing
  <2>3. cur[i].key \in Key /\ cur[i].from \in Caller /\ cur[i].key = KeyOf[cur[i].from]
    BY <1>0, <2>2, Current
  <2>4. cur[i].open
    BY <2>2 DEF AllAsked
  <2>5. PICK x \in WorkerId : /\ WriteRow(cur[i].key, x)
                              /\ cid' = [cid EXCEPT ![cur[i].from] = x]
    BY <2>1, <2>4 DEF ServeAcquire, tableVars
  <2>6. k = cur[i].key /\ x = id
    BY <1>0, <1>2, <2>3, <2>5 DEF WriteRow, Typed
  <2>7. cid'[cur[i].from] = id
    BY <1>0, <2>3, <2>5, <2>6 DEF Typed
  <2>8. \E c \in Caller : cid'[c] = id /\ KeyOf[c] = k
    BY <2>3, <2>6, <2>7
  <2> QED
    BY <2>8 DEF Held
<1> QED
  BY <1>1, <1>2

LEMMA StepLease == IInv /\ [Next]_vars => LeaseInv'
<1> SUFFICES ASSUME IInv, [Next]_vars PROVE LeaseInv'
  OBVIOUS
<1>1. \A j, k \in Key : row'[j] = row'[k] /\ row'[j] # NoId => j = k
  BY StepRows
<1>2. ASSUME faults' = 0
      PROVE  /\ AllAsked'
             /\ \A k \in Key : row'[k] # NoId => Held(k, row[k])' \/ OnItsWay(k, row[k])'
  <2>1. faults = 0 /\ FaultFree
    BY <1>2, NoFault
  <2>2. /\ AllAsked
        /\ \A k \in Key : row[k] # NoId => Held(k, row[k]) \/ OnItsWay(k, row[k])
    BY <2>1 DEF IInv, LeaseInv, AllAsked, Executing
  <2>3. ASSUME NEW k \in Key, row'[k] # NoId PROVE Held(k, row[k])' \/ OnItsWay(k, row[k])'
    <3>1. TypeInv'
      BY StepType
    <3>2. row'[k] \in WorkerId
      BY <2>3, <3>1 DEF TypeInv, TypeOK
    <3>3. PICK id \in WorkerId : row'[k] = id
      BY <3>2
    <3>4. Held(k, id)' \/ OnItsWay(k, id)'
      BY <2>1, <2>2, <3>3, StepAccounted
    <3> QED
      BY <3>3, <3>4 DEF Held, OnItsWay, Releases
  <2> QED
    BY <2>1, <2>2, <2>3, StepAsked
<1> QED
  BY <1>1, <1>2 DEF LeaseInv, AllAsked, Executing

(***************************************************************************)
(* The theorems.                                                           *)
(***************************************************************************)
LEMMA InitInductive == Init => IInv
<1> SUFFICES ASSUME Init PROVE IInv
  OBVIOUS
<1>1. TypeInv
  BY InitType
<1>2. \A i \in Instance : Len(queue[i]) = 0 /\ cur[i] = NoCommand
  BY DEF Init
<1>3. IdInv
  BY WorkLockAssumption DEF Init, IdInv
<1>4. ReplyInv /\ OrderInv
  BY <1>2 DEF ReplyInv, OrderInv, Executing
<1>5. KeepInv
  BY <1>2 DEF Init, KeepInv
<1>6. LeaseInv
  BY <1>2 DEF Init, LeaseInv, Executing
<1>7. FenceInv
  BY DEF Init, FenceInv, FencedWorkersKeepTheirRow
<1> QED
  BY <1>1, <1>3, <1>4, <1>5, <1>6, <1>7 DEF IInv

LEMMA StepInductive == IInv /\ [Next]_vars => IInv'
  BY StepType, StepId, StepReply, StepKeep, StepOrder, StepLease, StepFence DEF IInv

\* The inductive invariant holds: what work_lock_manager.rs keeps true between
\* any two statements, messages and ticks.
THEOREM Inductive == Spec => []IInv
  BY InitInductive, StepInductive, PTL DEF Spec

\* The table, the queues and the callers keep their types: the manager only
\* ever answers a caller that waits and keeps alive a loop that exists.
THEOREM TypeCorrect == Spec => []TypeOK
<1>1. IInv => TypeOK
  BY DEF IInv, TypeInv
<1> QED
  BY <1>1, Inductive, PTL

\* While a fenced transaction is open the row in the table is its worker's,
\* whatever expires, crashes or is dropped meanwhile (fence_transaction).
THEOREM FencedRows == Spec => []FencedWorkersKeepTheirRow
<1>1. IInv => FencedWorkersKeepTheirRow
  BY DEF IInv, FenceInv
<1> QED
  BY <1>1, Inductive, PTL

\* When a caller's acquire is executed the releases of its earlier locks have
\* been, also those it never waited for (the one queue of WorkLockManagerHandle).
THEOREM ReleasesFirst == Spec => []ReleasesComeFirst
<1>1. IInv => ReleasesComeFirst
  <2> SUFFICES ASSUME IInv PROVE ReleasesComeFirst
    OBVIOUS
  <2> SUFFICES ASSUME NEW i \in Instance, Executing(i, "acquire"), cur[i].open,
                      NEW n \in 1 .. Len(queue[i])
               PROVE  ~(queue[i][n].op = "release" /\ queue[i][n].from = cur[i].from)
    <3>1. queue \in [Instance -> Seq(GoodCommand)]
      BY DEF IInv, TypeInv
    <3>2. ASSUME NEW i \in Instance PROVE DOMAIN queue[i] = 1 .. Len(queue[i])
      BY <3>1
    <3> QED
      BY <3>2 DEF ReleasesComeFirst, Queued
  <2>1. cur[i].from \in Caller
    BY Current DEF IInv, Executing
  <2>2. AskedBy(cur[i], cur[i].from) /\ cur[i] # NoCommand
    BY DEF AskedBy, OpenFrom, Executing
  <2> QED
    BY <2>1, <2>2, OrderHolds DEF IInv, ReleaseOf
<1> QED
  BY <1>1, Inductive, PTL

\* Without a failure every lease in the table is held or its release is on the
\* way, whatever the order of drops, keepalives, takeovers and ticks (Drop).
THEOREM NothingLeftBehind == Spec => []NoLeaseLeftBehind
<1>1. IInv => NoLeaseLeftBehind
  <2> SUFFICES ASSUME IInv, faults = 0, NEW k \in Key, row[k] # NoId
               PROVE  \/ \E c \in Caller : cid[c] = row[k] /\ KeyOf[c] = k
                      \/ \E c \in InFlight : c.op = "release" /\ c.id = row[k]
    BY DEF NoLeaseLeftBehind
  <2>1. Held(k, row[k]) \/ OnItsWay(k, row[k])
    BY DEF IInv, LeaseInv
  <2>2. ASSUME NEW i \in Instance, cur[i] # NoCommand PROVE cur[i] \in InFlight
    BY <2>2 DEF InFlight
  <2>3. ASSUME NEW i \in Instance, NEW n \in 1 .. Len(queue[i]) PROVE queue[i][n] \in InFlight
    <3>1. n \in DOMAIN queue[i]
      BY DEF IInv, TypeInv
    <3>2. queue[i][n] \in Queued(i)
      BY <3>1 DEF Queued
    <3> QED
      BY <3>2 DEF InFlight
  <2>4. OnItsWay(k, row[k]) => \E c \in InFlight : c.op = "release" /\ c.id = row[k]
    BY <2>2, <2>3 DEF OnItsWay, Releases
  <2> QED
    BY <2>1, <2>4 DEF Held
<1> QED
  BY <1>1, Inductive, PTL

\* A lease changes hands only after it expired or by its own release, and only
\* its own keepalive makes it younger (the SQL conditions on worker_id).
THEOREM StaleHarmless == Spec => StaleWorkersAreHarmless
<1> DEFINE mine(k, op) == \E i \in Instance : Executing(i, op) /\ cur[i].id = row[k]
           kept(k) == /\ row'[k] # row[k] => age[k] > KeepaliveTimeout \/ mine(k, "release")
                      /\ row'[k] = row[k] /\ age'[k] < age[k] => mine(k, "keepalive")
<1>1. ASSUME IInv, [Next]_vars, NEW k \in Key, row[k] # NoId PROVE kept(k)
  <2>t. TypeInv /\ Typed
    BY <1>1, TypedBefore DEF IInv
  <2>a. age[k] \in Nat
    BY <2>t, WorkLockAssumption DEF Typed, Expired
  <2>u. ASSUME row'[k] = row[k], age'[k] = age[k] \/ age'[k] = age[k] + 1 PROVE kept(k)
    BY <2>a, <2>u
  <2>w. ASSUME NEW i \in Instance, NEW l \in Key, NEW id \in WorkerId,
               MayTake(i, l), Unused(id), WriteRow(l, id)
        PROVE  kept(k)
    <3>1. CASE l = k
      <4>1. age[k] > KeepaliveTimeout
        BY <1>1, <2>w, <3>1 DEF MayTake
      <4>2. row'[k] = row[k] /\ age'[k] < age[k] => FALSE
        BY <2>t, <2>w, <3>1 DEF Unused, WriteRow, Typed
      <4> QED
        BY <4>1, <4>2
    <3>2. CASE l # k
      <4>1. row'[k] = row[k] /\ age'[k] = age[k]
        BY <2>t, <2>w, <3>2 DEF WriteRow, Typed
      <4> QED
        BY <4>1, <2>u
    <3> QED
      BY <3>1, <3>2
  <2>d. ASSUME NEW i \in Instance, Executing(i, "release"), DeleteRow(cur[i].key, cur[i].id)
        PROVE  kept(k)
    <3>1. cur[i].key \in Key
      BY <2>t, <2>d, Current DEF Executing
    <3>2. CASE row[cur[i].key] = cur[i].id /\ cur[i].key = k
      BY <1>1, <2>t, <2>d, <3>2 DEF DeleteRow, WriteRow, Typed
    <3>3. CASE ~(row[cur[i].key] = cur[i].id /\ cur[i].key = k)
      <4>1. row'[k] = row[k] /\ age'[k] = age[k]
        BY <2>t, <2>d, <3>1, <3>3 DEF DeleteRow, WriteRow, Typed, tableVars
      <4> QED
        BY <4>1, <2>u
    <3> QED
      BY <3>2, <3>3
  <2>r. ASSUME NEW i \in Instance, Executing(i, "keepalive"), RefreshRow(cur[i].key, cur[i].id)
        PROVE  kept(k)
    <3>1. cur[i].key \in Key
      BY <2>t, <2>r, Current DEF Executing
    <3>2. CASE row[cur[i].key] = cur[i].id /\ cur[i].key = k
      BY <2>r, <3>2 DEF RefreshRow
    <3>3. CASE ~(row[cur[i].key] = cur[i].id /\ cur[i].key = k)
      <4>1. row'[k] = row[k] /\ age'[k] = age[k]
        BY <2>t, <2>r, <3>1, <3>3 DEF RefreshRow, Typed
      <4> QED
        BY <4>1, <2>u
    <3> QED
      BY <3>2, <3>3
  <2>k. ASSUME NEW i \in Instance, cur[i] # NoCommand PROVE cur[i].key \in Key
    BY <2>t, <2>k, Current
  <2>1. ASSUME NEW c \in Caller, CallerStep(c) PROVE kept(k)
    <3>1. row' = row /\ age' = age
      BY <2>1 DEF CallerStep, Ask, Poll, Cancel, FenceTransaction, Release, tableVars
    <3> QED
      BY <3>1, <2>u
  <2>2. ASSUME NEW id \in WorkerId, LoopStep(id) PROVE kept(k)
    <3>1. row' = row /\ age' = age
      BY <2>2 DEF LoopStep, KeepaliveTick, KeepaliveSend, LoopStops, tableVars
    <3> QED
      BY <3>1, <2>u
  <2>3. ASSUME NEW i \in Instance, ManagerStep(i) PROVE kept(k)
    <3>1. CASE UNCHANGED tableVars
      BY <3>1, <2>u DEF tableVars
    <3>2. CASE ServeAcquire(i) /\ ~UNCHANGED tableVars
      <4>1. /\ MayTake(i, cur[i].key)
            /\ \E id \in WorkerId : Unused(id) /\ WriteRow(cur[i].key, id)
            /\ cur[i] # NoCommand
        BY <3>2 DEF ServeAcquire, Executing
      <4> QED
        BY <4>1, <2>k, <2>w
    <3>3. CASE ServeRelease(i)
      BY <3>3, <2>d DEF ServeRelease
    <3>4. CASE ServeKeepalive(i)
      BY <3>4, <2>r DEF ServeKeepalive
    <3>5. CASE ReplyLost(i)
      <4>1. cur[i] # NoCommand
        BY <3>5 DEF ReplyLost
      <4>2. CASE cur[i].op = "acquire"
        <5>1. /\ MayTake(i, cur[i].key)
              /\ \E id \in WorkerId : Unused(id) /\ WriteRow(cur[i].key, id)
          BY <3>5, <4>2 DEF ReplyLost
        <5> QED
          BY <4>1, <5>1, <2>k, <2>w
      <4>3. CASE cur[i].op = "release"
        BY <3>5, <4>1, <4>3, <2>d DEF ReplyLost, Executing
      <4>4. CASE cur[i].op = "keepalive"
        BY <3>5, <4>1, <4>4, <2>r DEF ReplyLost, Executing
      <4> QED
        BY <2>t, <4>1, <4>2, <4>3, <4>4, Current
    <3> QED
      BY <2>3, <3>1, <3>2, <3>3, <3>4, <3>5
      DEF ManagerStep, Serve, TakeCommand, StatementFails, Crash
  <2>4. ASSUME NEW l \in Key, EndTransaction(l) PROVE kept(k)
    BY <2>4, <2>u DEF EndTransaction
  <2>5. CASE Tick
    BY <2>5, <2>t, <2>u DEF Tick, Typed
  <2>6. CASE UNCHANGED vars
    BY <2>6, <2>u DEF vars, tableVars
  <2> HIDE DEF kept
  <2> QED
    BY <1>1, <2>1, <2>2, <2>3, <2>4, <2>5, <2>6 DEF Next
<1>2. IInv /\ [Next]_vars => [\A k \in Key : row[k] # NoId =>
        LET own(op) == \E i \in Instance : Executing(i, op) /\ cur[i].id = row[k]
        IN /\ row'[k] # row[k] => age[k] > KeepaliveTimeout \/ own("release")
           /\ row'[k] = row[k] /\ age'[k] < age[k] => own("keepalive")]_vars
  BY <1>1
<1> QED
  BY <1>2, Inductive, PTL DEF Spec, StaleWorkersAreHarmless

\* The managers implement Lease: every key has at most one owner, and an owner
\* keeps its key while it has a fenced transaction open.
THEOREM LeaseRefinement == Spec => ImplementsLease
<1>1. Init => Leases!LeaseInit
  BY DEF Init, Leases!LeaseInit
<1>2. IInv /\ [Next]_vars => [Leases!LeaseNext]_<<row, fence>>
  <2> SUFFICES ASSUME IInv, [Next]_vars
               PROVE  Leases!LeaseNext \/ (row' = row /\ fence' = fence)
    OBVIOUS
  <2>1. ASSUME NEW k \in Key, NEW id \in WorkerId, TakeRow(k, id) PROVE Leases!Take(k, id)
    BY <2>1 DEF TakeRow, Unused, Leases!Take
  <2>2. ASSUME NEW k \in Key, EndRow(k) PROVE Leases!End(k)
    BY <2>2 DEF EndRow, Leases!End
  <2>3. ASSUME NEW k \in Key, FenceRow(k) PROVE Leases!BeginFence(k)
    <3>1. fence[k] \cup {row[k]} = {row[k]}
      BY DEF IInv, FenceInv, FencedWorkersKeepTheirRow
    <3> QED
      BY <2>3, <3>1 DEF FenceRow, Leases!BeginFence
  <2>4. ASSUME NEW k \in Key, UnfenceRow(k) PROVE Leases!EndFence(k)
    BY <2>4 DEF UnfenceRow, Leases!EndFence
  <2> QED
    BY <2>1, <2>2, <2>3, <2>4, TableStep DEF Leases!LeaseNext
<1> QED
  BY <1>1, <1>2, Inductive, PTL DEF Spec, ImplementsLease, Leases!LeaseSpec, Leases!leaseVars
=============================================================================
