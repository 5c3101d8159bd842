-------------------------- MODULE VpcPrefixProofs ----------------------------
(***************************************************************************)
(* Proofs about VpcPrefix, for any number of prefixes, requests, work      *)
(* items and linknets.                                                     *)
(***************************************************************************)
EXTENDS VpcPrefix, FiniteSetTheorems, WellFoundedInduction, TLAPS

(***************************************************************************)
(* Candidates.                                                             *)
(***************************************************************************)
LEMMA LeastNat ==
  ASSUME NEW S \in SUBSET Nat, S # {}
  PROVE  Least(S) \in S /\ \A y \in S : Least(S) <= y
<1> DEFINE R == OpToRel(<, Nat)
<1>1. IsWellFoundedOn(R, Nat)
  BY NatLessThanWellFounded, Zenon
<1>2. R = {ss \in Nat \X Nat : ss[1] < ss[2]}
  BY Zenon DEF OpToRel
<1> HIDE DEF R
<1>3. PICK x \in S : \A y \in S : ~ (<<y, x>> \in R)
  BY <1>1, WFMin
<1>4. \A a, b \in Nat : b < a => <<b, a>> \in R
  BY <1>2
<1>5. ASSUME NEW y \in S PROVE x <= y
  <2>1. x \in Nat /\ y \in Nat /\ ~ (y < x)
    BY <1>3, <1>4
  <2> QED
    BY <2>1
<1> QED
  BY <1>5 DEF Least

\* The request has work left, and every item of it a candidate.
HasWork(r) == Open(r) # {} /\ \A w \in Open(r) : todo[w] # {}

\* The candidate of a request is the first of its pending ones: no open item
\* is in an earlier group, and none of the current group has an earlier
\* candidate.
LEMMA CandidateFacts ==
  ASSUME todo \in [Work -> SUBSET Prefix], NEW r \in Request, HasWork(r)
  PROVE  /\ CurrentGroup(r) \in Nat
         /\ Candidate(r) \in Prefix
         /\ \A w \in Open(r) : CurrentGroup(r) <= WorkGroup[w]
         /\ \A w \in Open(r) : WorkGroup[w] = CurrentGroup(r) =>
              \A p \in todo[w] : Candidate(r) <= p
         /\ Queued(r) # {}
         /\ \A w \in Queued(r) : /\ w \in Open(r) /\ WorkGroup[w] = CurrentGroup(r)
                                 /\ Candidate(r) \in todo[w]
<1> DEFINE groups == {WorkGroup[w] : w \in Open(r)}
           first == {v \in Open(r) : WorkGroup[v] = CurrentGroup(r)}
           heads == {Least(todo[w]) : w \in first}
<1>1. Open(r) \subseteq Work /\ Open(r) # {}
  BY DEF Open, WorkOf, HasWork
<1>2. \A w \in Open(r) : WorkGroup[w] \in Nat /\ todo[w] \in SUBSET Nat /\ todo[w] # {}
  BY <1>1, VpcPrefixAssumption DEF HasWork
<1>3. CurrentGroup(r) = Least(groups)
  BY DEF CurrentGroup
<1>4. groups \in SUBSET Nat /\ groups # {}
  BY <1>1, <1>2
<1>5. CurrentGroup(r) \in groups /\ \A g \in groups : CurrentGroup(r) <= g
  <2> HIDE DEF groups
  <2> QED
    BY <1>3, <1>4, LeastNat
<1>6. first # {} /\ \A w \in Open(r) : CurrentGroup(r) <= WorkGroup[w]
  BY <1>5
<1>7. \A w \in first : Least(todo[w]) \in todo[w] /\ \A p \in todo[w] : Least(todo[w]) <= p
  BY <1>2, LeastNat
<1>8. \A w \in first : Least(todo[w]) \in Nat /\ Least(todo[w]) \in Prefix
  BY <1>1, <1>2, <1>7
<1>9. heads \in SUBSET Nat /\ heads # {} /\ heads \subseteq Prefix
  BY <1>6, <1>8
<1>10. Candidate(r) = Least(heads)
  BY DEF Candidate
<1>11. Candidate(r) \in heads /\ \A h \in heads : Candidate(r) <= h
  <2> HIDE DEF heads
  <2> QED
    BY <1>9, <1>10, LeastNat
<1>12. ASSUME NEW w \in first, NEW p \in todo[w]
       PROVE  Candidate(r) <= p
  <2>1. Candidate(r) <= Least(todo[w])
    BY <1>11
  <2>2. Least(todo[w]) <= p
    BY <1>7
  <2>3. Candidate(r) \in Nat /\ Least(todo[w]) \in Nat /\ p \in Nat
    BY <1>2, <1>8, <1>9, <1>11
  <2> QED
    BY <2>1, <2>2, <2>3
<1>13. Queued(r) = {w \in first : Least(todo[w]) = Candidate(r)}
  BY DEF Queued
<1>14. Queued(r) # {}
  BY <1>11, <1>13
<1>15. \A w \in Queued(r) : w \in first /\ Candidate(r) \in todo[w]
  BY <1>7, <1>13
<1>16. CurrentGroup(r) \in Nat /\ Candidate(r) \in Prefix
  BY <1>4, <1>5, <1>9, <1>11
<1> QED
  BY <1>6, <1>12, <1>14, <1>15, <1>16

\* The candidate depends on nothing but the request's own open items.
LEMMA SameCandidate ==
  ASSUME NEW q \in Request,
         \A w \in WorkOf(q) : todo'[w] = todo[w] /\ (w \in done' <=> w \in done)
  PROVE  /\ Open(q)' = Open(q)
         /\ Candidate(q)' = Candidate(q)
         /\ Queued(q)' = Queued(q)
         /\ HasWork(q)' <=> HasWork(q)
<1>1. Open(q)' = Open(q) /\ \A w \in Open(q) : todo'[w] = todo[w]
  BY DEF Open, WorkOf
<1>2. CurrentGroup(q)' = CurrentGroup(q)
  BY <1>1 DEF CurrentGroup, Least
<1>3. Candidate(q)' = Candidate(q)
  <2> DEFINE first == {v \in Open(q) : WorkGroup[v] = CurrentGroup(q)}
  <2>1. \A w \in first : Least(todo[w])' = Least(todo[w])
    BY <1>1 DEF Least
  <2>2. first' = first
    BY <1>1, <1>2
  <2>3. {Least(todo[w])' : w \in first} = {Least(todo[w]) : w \in first}
    BY <2>1
  <2> QED
    BY <2>2, <2>3 DEF Candidate, Least
<1>4. Queued(q)' = Queued(q)
  BY <1>1, <1>2, <1>3 DEF Queued, Least
<1> QED
  BY <1>1, <1>3, <1>4 DEF HasWork

(***************************************************************************)
(* The invariant.                                                          *)
(***************************************************************************)
\* p comes no later than x in the canonical order.
NotAfter(p, x) == GroupOf[p] < GroupOf[x] \/ (GroupOf[p] = GroupOf[x] /\ p <= x)

\* Every open item of a running request has candidates, all of its group.
PlanOK(r) ==
  pc[r] = "running" =>
    \A w \in Open(r) : todo[w] # {} /\ \A p \in todo[w] : GroupOf[p] = WorkGroup[w]

\* What a request is about to insert is a free linknet of a row that it holds.
PickOK(r) ==
  pick[r] # NoPick =>
    /\ pc[r] = "running"
    /\ pick[r][1] \in Queued(r)
    /\ lock[Candidate(r)] = r
    /\ pick[r][2] \notin linknets[Candidate(r)]

\* What it has inserted is on rows that it holds, and nobody else's.
MineOK(r) == \A l \in mine[r] : lock[l[1]] = r /\ l[2] \notin linknets[l[1]] \cup direct[l[1]]

\* The rows that it holds come before all the rows that it may still want.
OrderOK(r) ==
  \A p \in Prefix : lock[p] = r => \A w \in Open(r) : \A x \in todo[w] : NotAfter(p, x)

RequestOK(r) == PlanOK(r) /\ PickOK(r) /\ MineOK(r) /\ OrderOK(r)

\* A row that is held is active, and its holder is running.
LockOK(p) == lock[p] # NoRequest => Usable(p) /\ pc[lock[p]] = "running"

\* A prefix that drains is deleted, one that is drained has no linknet.
DrainOK(p) ==
  /\ ctl[p] \in {"drain", "dbdelete", "gone"} \/ next[p] \in {"drain", "dbdelete"} => deleted[p]
  /\ ctl[p] \in {"dbdelete", "gone"} \/ next[p] = "dbdelete" => linknets[p] = {}

IInv ==
  /\ TypeOK
  /\ \A r \in Request : RequestOK(r)
  /\ \A p \in Prefix : LockOK(p)
  /\ \A p \in Prefix : DrainOK(p)

LEMMA InitInv == Init => IInv
<1> SUFFICES ASSUME Init PROVE IInv
  OBVIOUS
<1> USE VpcPrefixAssumption DEF Init
<1>1. TypeOK
  BY DEF TypeOK
<1>2. \A r \in Request : RequestOK(r)
  BY DEF RequestOK, PlanOK, PickOK, MineOK, OrderOK
<1>3. \A p \in Prefix : LockOK(p) /\ DrainOK(p)
  BY DEF LockOK, DrainOK
<1> QED
  BY <1>1, <1>2, <1>3 DEF IInv

\* A request is not disturbed by a step that leaves its own state and its locks
\* alone and stores nothing on the rows that it holds.
LEMMA Undisturbed ==
  ASSUME TypeOK, NEW q \in Request, RequestOK(q),
         pc'[q] = pc[q], pick'[q] = pick[q], mine'[q] = mine[q],
         \A w \in WorkOf(q) : todo'[w] = todo[w] /\ (w \in done' <=> w \in done),
         \A p \in Prefix : lock'[p] = q <=> lock[p] = q,
         \A p \in Prefix : lock[p] = q => linknets'[p] \subseteq linknets[p],
         \A l \in mine[q] : l[2] \notin direct'[l[1]]
  PROVE  RequestOK(q)'
<1>1. /\ Open(q)' = Open(q) /\ Candidate(q)' = Candidate(q) /\ Queued(q)' = Queued(q)
  BY SameCandidate
<1>2. \A w \in Open(q) : todo'[w] = todo[w]
  BY DEF Open
<1>3. PlanOK(q)'
  BY <1>1, <1>2 DEF RequestOK, PlanOK
<1>4. PickOK(q)'
  <2>1. CASE pick[q] = NoPick
    BY <2>1 DEF PickOK, NoPick
  <2>2. CASE pick[q] # NoPick
    <3>1. /\ pc[q] = "running" /\ pick[q][1] \in Queued(q)
          /\ lock[Candidate(q)] = q /\ pick[q][2] \notin linknets[Candidate(q)]
      BY <2>2 DEF RequestOK, PickOK
    <3>2. Candidate(q) \in Prefix
      <4>1. HasWork(q)
        BY <3>1 DEF RequestOK, PlanOK, HasWork, Queued
      <4> QED
        BY <4>1, CandidateFacts DEF TypeOK
    <3> QED
      BY <1>1, <3>1, <3>2 DEF PickOK, NoPick
  <2> QED
    BY <2>1, <2>2
<1>5. MineOK(q)'
  <2> SUFFICES ASSUME NEW l \in mine[q]
               PROVE  lock'[l[1]] = q /\ l[2] \notin linknets'[l[1]] \cup direct'[l[1]]
    BY DEF MineOK
  <2>1. l[1] \in Prefix
    BY DEF TypeOK
  <2> QED
    BY <2>1 DEF RequestOK, MineOK
<1>6. OrderOK(q)'
  BY <1>1, <1>2 DEF RequestOK, OrderOK, NotAfter
<1> QED
  BY <1>3, <1>4, <1>5, <1>6 DEF RequestOK

(***************************************************************************)
(* The steps of a request.                                                 *)
(***************************************************************************)
LEMMA OwnWork ==
  ASSUME NEW r \in Request, NEW q \in Request, q # r
  PROVE  \A w \in WorkOf(q) : w \notin WorkOf(r) /\ w \in Work
  BY DEF WorkOf

\* A running request with open items has a candidate.
LEMMA RunningFacts ==
  ASSUME IInv, NEW r \in Request, pc[r] = "running", Open(r) # {}
  PROVE  /\ HasWork(r)
         /\ Candidate(r) \in Prefix
         /\ Queued(r) \subseteq WorkOf(r)
         /\ \A w \in Open(r) : \A x \in todo[w] : NotAfter(Candidate(r), x)
<1>1. HasWork(r)
  BY DEF IInv, RequestOK, PlanOK, HasWork
<1>2. todo \in [Work -> SUBSET Prefix]
  BY DEF IInv, TypeOK
<1>3. /\ CurrentGroup(r) \in Nat /\ Candidate(r) \in Prefix
      /\ \A w \in Open(r) : CurrentGroup(r) <= WorkGroup[w]
      /\ \A w \in Open(r) : WorkGroup[w] = CurrentGroup(r) => \A p \in todo[w] : Candidate(r) <= p
      /\ Queued(r) # {}
      /\ \A w \in Queued(r) : /\ w \in Open(r) /\ WorkGroup[w] = CurrentGroup(r)
                              /\ Candidate(r) \in todo[w]
  BY <1>1, <1>2, CandidateFacts
<1>4. \A w \in Open(r) : \A x \in todo[w] : GroupOf[x] = WorkGroup[w]
  BY DEF IInv, RequestOK, PlanOK
<1>5. GroupOf[Candidate(r)] = CurrentGroup(r)
  BY <1>3, <1>4
<1>6. \A w \in Open(r) : WorkGroup[w] \in Nat
  BY VpcPrefixAssumption DEF Open, WorkOf
<1>7. ASSUME NEW w \in Open(r), NEW x \in todo[w]
      PROVE  NotAfter(Candidate(r), x)
  <2>1. GroupOf[x] = WorkGroup[w] /\ CurrentGroup(r) <= WorkGroup[w] /\ WorkGroup[w] \in Nat
    BY <1>3, <1>4, <1>6
  <2>2. CASE WorkGroup[w] = CurrentGroup(r)
    BY <1>3, <1>5, <2>1, <2>2 DEF NotAfter
  <2>3. CASE WorkGroup[w] # CurrentGroup(r)
    BY <1>3, <1>5, <2>1, <2>3 DEF NotAfter
  <2> QED
    BY <2>2, <2>3
<1> QED
  BY <1>1, <1>3, <1>7 DEF Open

LEMMA RollBackInv ==
  ASSUME IInv, NEW r \in Request, RollBack(r)
  PROVE  IInv'
<1> USE VpcPrefixAssumption
<1>t. TypeOK
  BY DEF IInv
<1>1. TypeOK'
  BY <1>t DEF RollBack, TypeOK, Unlocked, prefixVars
<1>2. \A p \in Prefix : lock'[p] = IF lock[p] = r THEN NoRequest ELSE lock[p]
  BY DEF RollBack, Unlocked
<1>3. /\ pc'[r] = "failed" /\ pick'[r] = NoPick /\ mine'[r] = {}
      /\ \A q \in Request \ {r} : pc'[q] = pc[q] /\ pick'[q] = pick[q] /\ mine'[q] = mine[q]
      /\ UNCHANGED <<ctl, deleted, next, linknets, direct, todo, done>>
  BY <1>t DEF RollBack, TypeOK, prefixVars
<1>4. RequestOK(r)'
  <2>1. NoPick' = NoPick
    BY DEF NoPick
  <2>2. \A p \in Prefix : lock'[p] # r
    BY <1>2
  <2> QED
    BY <1>3, <2>1, <2>2 DEF RequestOK, PlanOK, PickOK, MineOK, OrderOK
<1>5. ASSUME NEW q \in Request \ {r}
      PROVE  RequestOK(q)'
  <2>1. RequestOK(q)
    BY DEF IInv
  <2>2. \A l \in mine[q] : l[2] \notin direct'[l[1]]
    BY <1>3, <2>1 DEF RequestOK, MineOK
  <2>3. \A p \in Prefix : lock'[p] = q <=> lock[p] = q
    BY <1>2
  <2> QED
    BY <1>t, <1>3, <2>1, <2>2, <2>3, Undisturbed
<1>6. \A p \in Prefix : LockOK(p)' /\ DrainOK(p)'
  BY <1>2, <1>3, <1>t DEF IInv, LockOK, DrainOK, Usable, TypeOK
<1> QED
  BY <1>1, <1>4, <1>5, <1>6 DEF IInv

LEMMA PlanInv ==
  ASSUME IInv, NEW r \in Request, Plan(r)
  PROVE  IInv'
<1> USE VpcPrefixAssumption
<1>t. TypeOK
  BY DEF IInv
<1>u. /\ UNCHANGED <<ctl, deleted, next, linknets, direct, lock, done, mine, pick, tries>>
      /\ pc[r] = "new"
      /\ \A q \in Request \ {r} : pc'[q] = pc[q]
  BY <1>t DEF Plan, prefixVars, TypeOK
<1>c. \A w \in Work : Candidates(w) \subseteq Prefix /\ \A p \in Candidates(w) : GroupOf[p] = WorkGroup[w]
  BY PlanAssumption DEF Candidates
<1>w. \A w \in Work : todo'[w] = todo[w] \/ (RequestOf[w] = r /\ todo'[w] = Candidates(w))
  BY <1>t DEF Plan
<1>1. TypeOK'
  <2>1. todo' \in [Work -> SUBSET Prefix]
    BY <1>t, <1>c DEF Plan, TypeOK
  <2>2. pc' \in [Request -> {"new", "running", "done", "failed"}]
    BY <1>t DEF Plan, TypeOK
  <2> QED
    BY <1>t, <1>u, <2>1, <2>2 DEF TypeOK
<1>2. \A p \in Prefix : lock[p] # r
  BY <1>t, <1>u DEF IInv, LockOK, TypeOK
<1>3. pick[r] = NoPick /\ mine[r] = {}
  <2>1. pick[r] = NoPick
    BY <1>u DEF IInv, RequestOK, PickOK
  <2>2. ASSUME NEW l \in mine[r] PROVE FALSE
    <3>1. l[1] \in Prefix
      BY <1>t DEF TypeOK
    <3>2. lock[l[1]] = r
      BY DEF IInv, RequestOK, MineOK
    <3> QED
      BY <1>2, <3>1, <3>2
  <2> QED
    BY <2>1, <2>2
<1>4. RequestOK(r)'
  <2>1. PlanOK(r)'
    <3> SUFFICES ASSUME pc'[r] = "running", NEW w \in WorkOf(r)
                 PROVE  todo'[w] # {} /\ \A p \in todo'[w] : GroupOf[p] = WorkGroup[w]
      BY DEF PlanOK, Open, WorkOf
    <3>1. w \in Work /\ RequestOf[w] = r
      BY DEF WorkOf
    <3>2. todo'[w] = Candidates(w) /\ Candidates(w) # {}
      BY <1>t, <3>1 DEF Plan, TypeOK
    <3> QED
      BY <1>c, <3>1, <3>2
  <2>2. PickOK(r)' /\ MineOK(r)' /\ OrderOK(r)'
    BY <1>2, <1>3, <1>u DEF PickOK, MineOK, OrderOK, NoPick
  <2> QED
    BY <2>1, <2>2 DEF RequestOK
<1>5. ASSUME NEW q \in Request \ {r}
      PROVE  RequestOK(q)'
  <2>1. RequestOK(q) /\ \A l \in mine[q] : l[2] \notin direct'[l[1]]
    BY <1>u DEF IInv, RequestOK, MineOK
  <2>2. \A w \in WorkOf(q) : todo'[w] = todo[w]
    BY <1>w DEF WorkOf
  <2> QED
    BY <1>t, <1>u, <2>1, <2>2, Undisturbed
<1>6. \A p \in Prefix : LockOK(p)' /\ DrainOK(p)'
  BY <1>2, <1>u, <1>t DEF IInv, LockOK, DrainOK, Usable, TypeOK
<1> QED
  BY <1>1, <1>4, <1>5, <1>6 DEF IInv

LEMMA TakeInv ==
  ASSUME IInv, NEW r \in Request, Take(r)
  PROVE  IInv'
<1> USE VpcPrefixAssumption
<1>t. TypeOK
  BY DEF IInv
<1>c. PICK c \in Prefix : c = Candidate(r)
  BY RunningFacts DEF Take, MayLock, Ready
<1>u. /\ UNCHANGED <<ctl, deleted, next, linknets, direct, pc, todo, done, mine, tries>>
      /\ pc[r] = "running" /\ Open(r) # {} /\ Usable(c)
      /\ lock[c] \in {NoRequest, r} /\ lock' = [lock EXCEPT ![c] = r]
  BY <1>c DEF Take, MayLock, Ready, prefixVars
<1>k. PICK w \in Queued(r), k \in FreeFor(r, c) : pick' = [pick EXCEPT ![r] = <<w, k>>]
  BY <1>c DEF Take
<1>f. w \in Work /\ k \in Index /\ k \notin linknets[c]
  <2>1. w \in Work
    BY <1>u, RunningFacts DEF WorkOf
  <2>2. k \in 0 .. Capacity[c] - 1 /\ k \notin linknets[c]
    BY DEF FreeFor, Occupied
  <2>3. k \in Index
    BY <2>2 DEF Index
  <2> QED
    BY <2>1, <2>2, <2>3
<1>1. TypeOK'
  BY <1>t, <1>u, <1>k, <1>f DEF TypeOK
<1>2. \A p \in Prefix : lock'[p] = IF p = c THEN r ELSE lock[p]
  BY <1>t, <1>u DEF TypeOK
<1>3. RequestOK(r)'
  <2>1. Open(r)' = Open(r) /\ Candidate(r)' = c /\ Queued(r)' = Queued(r)
    BY <1>u, <1>c, SameCandidate
  <2>2. PlanOK(r)'
    BY <1>u, <2>1 DEF IInv, RequestOK, PlanOK
  <2>3. PickOK(r)'
    <3>1. pick'[r] = <<w, k>> /\ lock'[c] = r
      BY <1>t, <1>k, <1>2 DEF TypeOK
    <3> QED
      BY <1>u, <1>f, <2>1, <3>1 DEF PickOK
  <2>4. MineOK(r)'
    <3> SUFFICES ASSUME NEW l \in mine[r]
                 PROVE  lock'[l[1]] = r /\ l[2] \notin linknets[l[1]] \cup direct[l[1]]
      BY <1>u DEF MineOK
    <3>1. l[1] \in Prefix
      BY <1>t DEF TypeOK
    <3> QED
      BY <3>1, <1>2 DEF IInv, RequestOK, MineOK
  <2>5. OrderOK(r)'
    <3> SUFFICES ASSUME NEW p \in Prefix, lock'[p] = r, NEW v \in Open(r), NEW x \in todo[v]
                 PROVE  NotAfter(p, x)
      BY <1>u, <2>1 DEF OrderOK, NotAfter
    <3>1. CASE p = c
      BY <3>1, <1>u, <1>c, RunningFacts
    <3>2. CASE p # c
      BY <3>2, <1>2 DEF IInv, RequestOK, OrderOK
    <3> QED
      BY <3>1, <3>2
  <2> QED
    BY <2>2, <2>3, <2>4, <2>5 DEF RequestOK
<1>4. ASSUME NEW q \in Request \ {r}
      PROVE  RequestOK(q)'
  <2>1. RequestOK(q) /\ \A l \in mine[q] : l[2] \notin direct'[l[1]]
    BY <1>u DEF IInv, RequestOK, MineOK
  <2>2. \A p \in Prefix : lock'[p] = q <=> lock[p] = q
    BY <1>2, <1>u
  <2>3. pick'[q] = pick[q]
    BY <1>t, <1>k DEF TypeOK
  <2> QED
    BY <1>t, <1>u, <2>1, <2>2, <2>3, Undisturbed
<1>5. \A p \in Prefix : LockOK(p)' /\ DrainOK(p)'
  BY <1>2, <1>u DEF IInv, LockOK, DrainOK, Usable
<1> QED
  BY <1>1, <1>3, <1>4, <1>5 DEF IInv

LEMMA PassInv ==
  ASSUME IInv, NEW r \in Request, Pass(r)
  PROVE  IInv'
<1> USE VpcPrefixAssumption
<1>t. TypeOK
  BY DEF IInv
<1>c. PICK c \in Prefix : c = Candidate(r)
  BY RunningFacts DEF Pass, MayLock, Ready
<1>1. CASE \E w \in Queued(r) : todo[w] = {c}
  BY <1>1, <1>c, RollBackInv DEF Pass
<1>2. CASE ~ \E w \in Queued(r) : todo[w] = {c}
  <2>u. /\ UNCHANGED <<ctl, deleted, next, linknets, direct, lock, pc, done, mine, pick>>
        /\ pc[r] = "running" /\ Open(r) # {} /\ pick[r] = NoPick
        /\ todo' = [w \in Work |-> IF w \in Queued(r) THEN todo[w] \ {c} ELSE todo[w]]
        /\ tries' = [tries EXCEPT ![r] = 0]
    BY <1>2, <1>c DEF Pass, MayLock, Ready, prefixVars
  <2>1. TypeOK'
    <3>1. todo' \in [Work -> SUBSET Prefix]
      BY <1>t, <2>u DEF TypeOK
    <3>2. tries' \in [Request -> 0 .. Attempts - 1]
      BY <1>t, <2>u DEF TypeOK
    <3> QED
      BY <1>t, <2>u, <3>1, <3>2 DEF TypeOK
  <2>2. \A w \in Work : todo'[w] = todo[w] \/ (w \in Queued(r) /\ todo'[w] = todo[w] \ {c})
    BY <2>u
  <2>3. Queued(r) \subseteq WorkOf(r) /\ WorkOf(r) \subseteq Work
    BY <2>u, RunningFacts DEF WorkOf
  <2>4. RequestOK(r)'
    <3>1. Open(r)' = Open(r) /\ Open(r) \subseteq Work
      BY <2>u DEF Open, WorkOf
    <3>2. \A w \in Open(r) : todo'[w] \subseteq todo[w] /\ todo'[w] # {}
      <4>1. \A w \in Open(r) : todo[w] # {}
        BY <2>u DEF IInv, RequestOK, PlanOK
      <4>2. \A w \in Queued(r) : todo[w] # {c}
        BY <1>2
      <4>3. ASSUME NEW w \in Open(r) PROVE todo'[w] \subseteq todo[w] /\ todo'[w] # {}
        <5>1. w \in Work /\ todo[w] # {}
          BY <3>1, <4>1
        <5>2. CASE todo'[w] = todo[w]
          BY <5>1, <5>2
        <5>3. CASE w \in Queued(r) /\ todo'[w] = todo[w] \ {c}
          <6>1. todo[w] # {c} /\ todo[w] # {}
            BY <5>1, <5>3, <4>2
          <6>2. PICK y \in todo[w] : TRUE
            BY <6>1
          <6>3. \E x \in todo[w] : x # c
            <7>1. CASE \A x \in todo[w] : x = c
              <8>1. \A x : x \in todo[w] <=> x \in {c}
                BY <6>2, <7>1
              <8> QED
                BY <6>1, <8>1
            <7> QED
              BY <7>1
          <6>4. \E x : x \in todo'[w]
            BY <5>3, <6>3
          <6> QED
            BY <5>3, <6>4
        <5> QED
          BY <5>1, <5>2, <5>3, <2>2
      <4> QED
        BY <4>3
    <3>3. PlanOK(r)'
      BY <2>u, <3>1, <3>2 DEF IInv, RequestOK, PlanOK
    <3>4. PickOK(r)' /\ MineOK(r)'
      BY <2>u DEF IInv, RequestOK, PickOK, MineOK, NoPick
    <3>5. OrderOK(r)'
      BY <2>u, <3>1, <3>2 DEF IInv, RequestOK, OrderOK, NotAfter
    <3> QED
      BY <3>3, <3>4, <3>5 DEF RequestOK
  <2>5. ASSUME NEW q \in Request \ {r}
        PROVE  RequestOK(q)'
    <3>1. RequestOK(q) /\ \A l \in mine[q] : l[2] \notin direct'[l[1]]
      BY <2>u DEF IInv, RequestOK, MineOK
    <3>2. \A w \in WorkOf(q) : todo'[w] = todo[w]
      BY <2>2, <2>3, OwnWork
    <3> QED
      BY <1>t, <2>u, <3>1, <3>2, Undisturbed
  <2>6. \A p \in Prefix : LockOK(p)' /\ DrainOK(p)'
    BY <2>u DEF IInv, LockOK, DrainOK, Usable
  <2> QED
    BY <2>1, <2>4, <2>5, <2>6 DEF IInv
<1> QED
  BY <1>1, <1>2

LEMMA InsertInv ==
  ASSUME IInv, NEW r \in Request, Insert(r)
  PROVE  IInv'
<1> USE VpcPrefixAssumption
<1>t. TypeOK
  BY DEF IInv
<1>p. /\ pc[r] = "running" /\ pick[r] # NoPick
      /\ pick[r][1] \in Queued(r) /\ lock[Candidate(r)] = r
      /\ pick[r][2] \notin linknets[Candidate(r)]
  BY DEF Insert, IInv, RequestOK, PickOK
<1>o. Queued(r) \subseteq WorkOf(r) /\ WorkOf(r) \subseteq Work /\ Candidate(r) \in Prefix
  BY <1>p, RunningFacts DEF Queued, WorkOf
<1>c. PICK c \in Prefix, w \in Work, k \in Index :
        c = Candidate(r) /\ w = pick[r][1] /\ k = pick[r][2]
  BY <1>t, <1>p, <1>o DEF TypeOK
<1>u. /\ UNCHANGED <<ctl, deleted, next, linknets, direct, lock, pc, todo>>
      /\ k \notin direct[c]
      /\ mine' = [mine EXCEPT ![r] = mine[r] \cup {<<c, k>>}]
      /\ done' = done \cup {w}
      /\ pick' = [pick EXCEPT ![r] = NoPick]
      /\ tries' = [tries EXCEPT ![r] = 0]
  BY <1>c DEF Insert, prefixVars
<1>1. TypeOK'
  <2>1. mine' \in [Request -> SUBSET (Prefix \X Index)]
    BY <1>t, <1>u DEF TypeOK
  <2>2. pick' \in [Request -> (Work \X Index) \cup {NoPick}]
    BY <1>t, <1>u DEF TypeOK
  <2>3. tries' \in [Request -> 0 .. Attempts - 1]
    BY <1>t, <1>u DEF TypeOK
  <2>4. done' \subseteq Work
    BY <1>t, <1>u DEF TypeOK
  <2> QED
    BY <1>t, <1>u, <2>1, <2>2, <2>3, <2>4 DEF TypeOK, NoPick
<1>2. RequestOK(r)'
  <2>1. Open(r)' \subseteq Open(r)
    BY <1>u DEF Open, WorkOf
  <2>2. PlanOK(r)'
    BY <1>u, <2>1 DEF IInv, RequestOK, PlanOK
  <2>3. PickOK(r)'
    <3>1. pick'[r] = NoPick
      BY <1>t, <1>u DEF TypeOK
    <3> QED
      BY <3>1 DEF PickOK, NoPick
  <2>4. MineOK(r)'
    <3> SUFFICES ASSUME NEW l \in mine'[r]
                 PROVE  lock[l[1]] = r /\ l[2] \notin linknets[l[1]] \cup direct[l[1]]
      BY <1>u DEF MineOK
    <3>1. l \in mine[r] \/ l = <<c, k>>
      BY <1>t, <1>u DEF TypeOK
    <3>2. CASE l \in mine[r]
      BY <3>2 DEF IInv, RequestOK, MineOK
    <3>3. CASE l = <<c, k>>
      BY <3>3, <1>p, <1>c, <1>u
    <3> QED
      BY <3>1, <3>2, <3>3
  <2>5. OrderOK(r)'
    BY <1>u, <2>1 DEF IInv, RequestOK, OrderOK, NotAfter
  <2> QED
    BY <2>2, <2>3, <2>4, <2>5 DEF RequestOK
<1>3. ASSUME NEW q \in Request \ {r}
      PROVE  RequestOK(q)'
  <2>1. RequestOK(q) /\ \A l \in mine[q] : l[2] \notin direct'[l[1]]
    BY <1>u DEF IInv, RequestOK, MineOK
  <2>2. \A v \in WorkOf(q) : v \in done' <=> v \in done
    BY <1>u, <1>p, <1>o, <1>c, OwnWork
  <2>3. pick'[q] = pick[q] /\ mine'[q] = mine[q]
    BY <1>t, <1>u DEF TypeOK
  <2> QED
    BY <1>t, <1>u, <2>1, <2>2, <2>3, Undisturbed
<1>4. \A p \in Prefix : LockOK(p)' /\ DrainOK(p)'
  BY <1>u DEF IInv, LockOK, DrainOK, Usable
<1> QED
  BY <1>1, <1>2, <1>3, <1>4 DEF IInv

LEMMA ConflictInv ==
  ASSUME IInv, NEW r \in Request, Conflict(r)
  PROVE  IInv'
<1> USE VpcPrefixAssumption
<1>t. TypeOK
  BY DEF IInv
<1>p. /\ pc[r] = "running" /\ pick[r] # NoPick
      /\ pick[r][1] \in Queued(r) /\ lock[Candidate(r)] = r
  BY DEF Conflict, IInv, RequestOK, PickOK
<1>c. PICK c \in Prefix : c = Candidate(r)
  BY <1>p, RunningFacts DEF Queued
<1>1. CASE tries[r] + 1 = Attempts
  BY <1>1, RollBackInv DEF Conflict
<1>2. CASE tries[r] + 1 # Attempts
  <2>u. /\ UNCHANGED <<ctl, deleted, next, linknets, direct, pc, todo, done, mine>>
        /\ tries' = [tries EXCEPT ![r] = tries[r] + 1]
        /\ pick' = [pick EXCEPT ![r] = NoPick]
        /\ lock' = IF \E k \in Index : <<c, k>> \in mine[r] THEN lock
                   ELSE [lock EXCEPT ![c] = NoRequest]
    BY <1>2, <1>c DEF Conflict, prefixVars
  <2>1. TypeOK'
    <3>0. tries[r] + 1 \in 0 .. Attempts - 1
      <4>1. tries[r] \in 0 .. Attempts - 1
        BY <1>t DEF TypeOK
      <4> QED
        BY <4>1, <1>2
    <3>1. tries' \in [Request -> 0 .. Attempts - 1]
      BY <1>t, <3>0, <2>u DEF TypeOK
    <3>2. pick' \in [Request -> (Work \X Index) \cup {NoPick}]
      BY <1>t, <2>u DEF TypeOK
    <3>3. lock' \in [Prefix -> Request \cup {NoRequest}]
      BY <1>t, <2>u DEF TypeOK
    <3> QED
      BY <1>t, <2>u, <3>1, <3>2, <3>3 DEF TypeOK, NoPick
  <2>2. \A p \in Prefix : \/ lock'[p] = lock[p]
                          \/ /\ p = c /\ lock'[p] = NoRequest
                             /\ \A k \in Index : <<c, k>> \notin mine[r]
    BY <1>t, <2>u DEF TypeOK
  <2>3. RequestOK(r)'
    <3>1. Open(r)' = Open(r)
      BY <2>u DEF Open, WorkOf
    <3>2. PlanOK(r)'
      BY <2>u, <3>1 DEF IInv, RequestOK, PlanOK
    <3>3. PickOK(r)'
      <4>1. pick'[r] = NoPick
        BY <1>t, <2>u DEF TypeOK
      <4> QED
        BY <4>1 DEF PickOK, NoPick
    <3>4. MineOK(r)'
      <4> SUFFICES ASSUME NEW l \in mine[r]
                   PROVE  lock'[l[1]] = r /\ l[2] \notin linknets[l[1]] \cup direct[l[1]]
        BY <2>u DEF MineOK
      <4>1. l[1] \in Prefix /\ l[2] \in Index /\ l = <<l[1], l[2]>>
        BY <1>t DEF TypeOK
      <4>2. lock[l[1]] = r /\ l[2] \notin linknets[l[1]] \cup direct[l[1]]
        BY DEF IInv, RequestOK, MineOK
      <4> QED
        BY <2>2, <4>1, <4>2
    <3>5. OrderOK(r)'
      <4>1. \A p \in Prefix : lock'[p] = r => lock[p] = r
        BY <2>2
      <4>2. OrderOK(r)
        BY DEF IInv, RequestOK
      <4> QED
        BY <2>u, <3>1, <4>1, <4>2 DEF OrderOK, NotAfter
    <3> QED
      BY <3>2, <3>3, <3>4, <3>5 DEF RequestOK
  <2>4. ASSUME NEW q \in Request \ {r}
        PROVE  RequestOK(q)'
    <3>1. RequestOK(q) /\ \A l \in mine[q] : l[2] \notin direct'[l[1]]
      BY <2>u DEF IInv, RequestOK, MineOK
    <3>2. \A p \in Prefix : lock'[p] = q <=> lock[p] = q
      BY <1>p, <1>c, <2>2
    <3>3. pick'[q] = pick[q]
      BY <1>t, <2>u DEF TypeOK
    <3> QED
      BY <1>t, <2>u, <3>1, <3>2, <3>3, Undisturbed
  <2>5. \A p \in Prefix : LockOK(p)' /\ DrainOK(p)'
    BY <2>u, <2>2 DEF IInv, LockOK, DrainOK, Usable
  <2> QED
    BY <2>1, <2>3, <2>4, <2>5 DEF IInv
<1> QED
  BY <1>1, <1>2

LEMMA CommitInv ==
  ASSUME IInv, NEW r \in Request, Commit(r)
  PROVE  IInv'
<1> USE VpcPrefixAssumption
<1>t. TypeOK
  BY DEF IInv
<1>u. /\ UNCHANGED <<ctl, deleted, next, direct, todo, done, pick, tries>>
      /\ pc[r] = "running" /\ Open(r) = {}
      /\ pc' = [pc EXCEPT ![r] = "done"] /\ mine' = [mine EXCEPT ![r] = {}]
      /\ linknets' = [p \in Prefix |-> linknets[p] \cup {k \in Index : <<p, k>> \in mine[r]}]
      /\ \A p \in Prefix : lock'[p] = IF lock[p] = r THEN NoRequest ELSE lock[p]
  BY DEF Commit, prefixVars, Unlocked
<1>n. pick[r] = NoPick
  BY <1>u DEF IInv, RequestOK, PickOK, Queued
<1>1. TypeOK'
  <2>1. linknets' \in [Prefix -> SUBSET Index]
    BY <1>t, <1>u DEF TypeOK
  <2>2. lock' \in [Prefix -> Request \cup {NoRequest}]
    BY <1>t DEF Commit, Unlocked, TypeOK
  <2>3. pc' \in [Request -> {"new", "running", "done", "failed"}]
    BY <1>t, <1>u DEF TypeOK
  <2>4. mine' \in [Request -> SUBSET (Prefix \X Index)]
    BY <1>t, <1>u DEF TypeOK
  <2> QED
    BY <1>t, <1>u, <2>1, <2>2, <2>3, <2>4 DEF TypeOK, NoPick
<1>2. \A p \in Prefix : lock[p] # r => linknets'[p] = linknets[p]
  <2> SUFFICES ASSUME NEW p \in Prefix, lock[p] # r
               PROVE  linknets'[p] = linknets[p]
    OBVIOUS
  <2>1. \A k \in Index : <<p, k>> \notin mine[r]
    BY DEF IInv, RequestOK, MineOK
  <2> QED
    BY <1>u, <2>1
<1>3. RequestOK(r)'
  <2>1. pc'[r] = "done" /\ mine'[r] = {} /\ pick'[r] = NoPick
    BY <1>t, <1>u, <1>n DEF TypeOK
  <2>2. \A p \in Prefix : lock'[p] # r
    BY <1>u
  <2> QED
    BY <2>1, <2>2 DEF RequestOK, PlanOK, PickOK, MineOK, OrderOK, NoPick
<1>4. ASSUME NEW q \in Request \ {r}
      PROVE  RequestOK(q)'
  <2>1. RequestOK(q) /\ \A l \in mine[q] : l[2] \notin direct'[l[1]]
    BY <1>u DEF IInv, RequestOK, MineOK
  <2>2. \A p \in Prefix : lock'[p] = q <=> lock[p] = q
    BY <1>u
  <2>3. pc'[q] = pc[q] /\ pick'[q] = pick[q] /\ mine'[q] = mine[q]
    BY <1>t, <1>u DEF TypeOK
  <2> QED
    BY <1>t, <1>u, <1>2, <2>1, <2>2, <2>3, Undisturbed
<1>5. \A p \in Prefix : LockOK(p)'
  BY <1>t, <1>u DEF IInv, LockOK, Usable, TypeOK
<1>6. ASSUME NEW p \in Prefix PROVE DrainOK(p)'
  <2>1. CASE lock[p] = r
    BY <1>u, <2>1 DEF IInv, LockOK, DrainOK, Usable
  <2>2. CASE lock[p] # r
    BY <1>u, <1>2, <2>2 DEF IInv, DrainOK
  <2> QED
    BY <2>1, <2>2
<1> QED
  BY <1>1, <1>3, <1>4, <1>5, <1>6 DEF IInv

(***************************************************************************)
(* The steps of the other writers, the API and the state handler.          *)
(***************************************************************************)
LEMMA HandlerInv ==
  ASSUME IInv, NEW p \in Prefix, Delete(p) \/ Decide(p) \/ Transition(p) \/ FinalDelete(p)
  PROVE  IInv'
<1> USE VpcPrefixAssumption
<1>t. TypeOK
  BY DEF IInv
<1>u. UNCHANGED <<linknets, direct, lock, pc, todo, done, mine, pick, tries>>
  BY DEF Delete, Decide, Transition, FinalDelete, requestVars
<1>1. TypeOK'
  <2>1. deleted' \in [Prefix -> BOOLEAN]
    BY <1>t DEF TypeOK, Delete, Decide, Transition, FinalDelete
  <2>2. next' \in [Prefix -> {"none", "ready", "drain", "dbdelete"}]
    BY <1>t DEF TypeOK, Delete, Decide, Transition, FinalDelete
  <2>3. ctl' \in [Prefix -> {"provisioning", "ready", "drain", "dbdelete", "gone"}]
    BY <1>t DEF TypeOK, Delete, Decide, Transition, FinalDelete
  <2> QED
    BY <1>t, <1>u, <2>1, <2>2, <2>3 DEF TypeOK, NoPick
<1>2. ASSUME NEW q \in Request
      PROVE  RequestOK(q)'
  <2>1. RequestOK(q) /\ \A l \in mine[q] : l[2] \notin direct'[l[1]]
    BY <1>u DEF IInv, RequestOK, MineOK
  <2> QED
    BY <1>t, <1>u, <2>1, Undisturbed
<1>3. ASSUME NEW x \in Prefix PROVE LockOK(x)'
  BY <1>t, <1>u DEF IInv, LockOK, Usable, TypeOK, Delete, Decide, Transition, FinalDelete
<1>4. ASSUME NEW x \in Prefix PROVE DrainOK(x)'
  BY <1>t, <1>u DEF IInv, DrainOK, TypeOK, Delete, Decide, Transition, FinalDelete
<1> QED
  BY <1>1, <1>2, <1>3, <1>4 DEF IInv

LEMMA WriterInv ==
  ASSUME IInv, NEW p \in Prefix, NEW k \in Index, FreeLinknet(p, k) \/ InsertDirect(p, k)
  PROVE  IInv'
<1> USE VpcPrefixAssumption
<1>t. TypeOK
  BY DEF IInv
<1>u. /\ UNCHANGED <<ctl, deleted, next, lock, pc, todo, done, mine, pick, tries>>
      /\ \A x \in Prefix : linknets'[x] \subseteq linknets[x]
      /\ \A x \in Prefix : \A j \in direct'[x] :
           j \in direct[x] \/ (x = p /\ j = k /\ \A q \in Request : <<p, k>> \notin mine[q])
  BY <1>t DEF FreeLinknet, InsertDirect, requestVars, prefixVars, TypeOK
<1>1. TypeOK'
  <2>1. linknets' \in [Prefix -> SUBSET Index] /\ direct' \in [Prefix -> SUBSET Index]
    BY <1>t DEF TypeOK, FreeLinknet, InsertDirect
  <2> QED
    BY <1>t, <1>u, <2>1 DEF TypeOK, NoPick
<1>2. ASSUME NEW q \in Request
      PROVE  RequestOK(q)'
  <2>1. RequestOK(q)
    BY DEF IInv
  <2>2. ASSUME NEW l \in mine[q] PROVE l[2] \notin direct'[l[1]]
    <3>1. l[1] \in Prefix /\ l[2] \in Index /\ l = <<l[1], l[2]>>
      BY <1>t DEF TypeOK
    <3>2. l[2] \notin direct[l[1]]
      BY <2>1 DEF RequestOK, MineOK
    <3> QED
      BY <1>u, <3>1, <3>2
  <2> QED
    BY <1>t, <1>u, <2>1, <2>2, Undisturbed
<1>3. \A x \in Prefix : LockOK(x)' /\ DrainOK(x)'
  BY <1>u DEF IInv, LockOK, DrainOK, Usable
<1> QED
  BY <1>1, <1>2, <1>3 DEF IInv

LEMMA NextInv == IInv /\ [Next]_vars => IInv'
<1> SUFFICES ASSUME IInv, [Next]_vars PROVE IInv'
  OBVIOUS
<1>1. ASSUME NEW r \in Request,
             Plan(r) \/ Take(r) \/ Pass(r) \/ Insert(r) \/ Conflict(r) \/ Commit(r) \/ Abort(r)
      PROVE  IInv'
  BY <1>1, PlanInv, TakeInv, PassInv, InsertInv, ConflictInv, CommitInv, RollBackInv DEF Abort
<1>2. ASSUME NEW p \in Prefix, Delete(p) \/ Decide(p) \/ Transition(p) \/ FinalDelete(p)
      PROVE  IInv'
  BY <1>2, HandlerInv
<1>3. ASSUME NEW p \in Prefix, NEW k \in Index, FreeLinknet(p, k) \/ InsertDirect(p, k)
      PROVE  IInv'
  BY <1>3, WriterInv
<1>4. CASE UNCHANGED vars
  <2>1. UNCHANGED <<ctl, deleted, next, linknets, direct, lock, pc, todo, done, mine, pick, tries>>
    BY <1>4 DEF vars, prefixVars, requestVars
  <2>2. TypeOK'
    BY <2>1 DEF IInv, TypeOK, NoPick
  <2>3. ASSUME NEW q \in Request PROVE RequestOK(q)'
    <3>1. RequestOK(q) /\ \A l \in mine[q] : l[2] \notin direct'[l[1]]
      BY <2>1 DEF IInv, RequestOK, MineOK
    <3> QED
      BY <2>1, <3>1, Undisturbed DEF IInv
  <2>4. \A p \in Prefix : LockOK(p)' /\ DrainOK(p)'
    BY <2>1 DEF IInv, LockOK, DrainOK, Usable
  <2> QED
    BY <2>2, <2>3, <2>4 DEF IInv
<1> QED
  BY <1>1, <1>2, <1>3, <1>4 DEF Next

LEMMA Inductive == Spec => []IInv
  BY InitInv, NextInv, PTL DEF Spec

(***************************************************************************)
(* What the invariant gives.                                               *)
(***************************************************************************)
\* The prefixes that come after x in the canonical order.
Later(x) == {p \in Prefix : NotAfter(x, p) /\ p # x}

LEMMA LaterShrinks ==
  ASSUME NEW x \in Prefix, NEW y \in Prefix, NotAfter(x, y), x # y
  PROVE  Cardinality(Later(y)) < Cardinality(Later(x))
<1> USE VpcPrefixAssumption
<1>1. /\ x \in Nat /\ y \in Nat /\ GroupOf[x] \in Nat /\ GroupOf[y] \in Nat
  OBVIOUS
<1>2. ASSUME NEW p \in Later(y) PROVE p \in Later(x)
  <2>1. p \in Prefix /\ p \in Nat /\ GroupOf[p] \in Nat /\ NotAfter(y, p) /\ p # y
    BY DEF Later
  <2> QED
    BY <1>1, <2>1 DEF Later, NotAfter
<1>3. y \in Later(x) /\ y \notin Later(y)
  BY DEF Later
<1>4. IsFiniteSet(Later(x))
  BY FS_Subset DEF Later
<1>5. Later(y) \subseteq Later(x) /\ Later(y) # Later(x)
  BY <1>2, <1>3
<1> QED
  BY <1>4, <1>5, FS_Subset, FS_CardinalityType

\* A request waits for one whose own next candidate comes later.
LEMMA WaitsForLater ==
  ASSUME IInv, NEW r \in Request, NEW q \in Request, WaitsFor(r, q), Ready(q),
         lock[Candidate(q)] # q
  PROVE  /\ Candidate(r) \in Prefix /\ Candidate(q) \in Prefix
         /\ NotAfter(Candidate(r), Candidate(q)) /\ Candidate(r) # Candidate(q)
<1>1. /\ Candidate(r) \in Prefix /\ lock[Candidate(r)] = q
  BY RunningFacts DEF WaitsFor, Ready
<1>2. HasWork(q) /\ Candidate(q) \in Prefix
  BY RunningFacts DEF Ready
<1>3. todo \in [Work -> SUBSET Prefix]
  BY DEF IInv, TypeOK
<1>4. PICK w \in Open(q) : Candidate(q) \in todo[w]
  BY <1>2, <1>3, CandidateFacts
<1>5. NotAfter(Candidate(r), Candidate(q))
  BY <1>1, <1>4 DEF IInv, RequestOK, OrderOK
<1> QED
  BY <1>1, <1>2, <1>5

LEMMA OrderGivesNoCycle == IInv => NoWaitCycle
<1> SUFFICES ASSUME IInv, NEW S \in (SUBSET Request) \ {{}},
                    \A r \in S : \E q \in S : WaitsFor(r, q)
             PROVE  FALSE
  BY DEF NoWaitCycle
<1>1. \A r \in S : Ready(r) /\ lock[Candidate(r)] # r /\ r \in Request
  BY DEF WaitsFor
<1>2. \A r \in S : Candidate(r) \in Prefix
  BY <1>1, RunningFacts DEF Ready
<1> DEFINE M == {Cardinality(Later(Candidate(r))) : r \in S}
<1>3. ASSUME NEW r \in S PROVE Cardinality(Later(Candidate(r))) \in Nat
  <2>1. IsFiniteSet(Later(Candidate(r)))
    BY FS_Subset, VpcPrefixAssumption DEF Later
  <2> QED
    BY <2>1, FS_CardinalityType
<1>4. M \in SUBSET Nat /\ M # {}
  BY <1>3
<1>5. Least(M) \in M /\ \A y \in M : Least(M) <= y
  <2> HIDE DEF M
  <2> QED
    BY <1>4, LeastNat
<1>6. PICK r \in S : Least(M) = Cardinality(Later(Candidate(r)))
  BY <1>5
<1>7. PICK q \in S : WaitsFor(r, q)
  OBVIOUS
<1>8. Cardinality(Later(Candidate(q))) < Cardinality(Later(Candidate(r)))
  BY <1>1, <1>7, WaitsForLater, LaterShrinks
<1>9. Cardinality(Later(Candidate(r))) <= Cardinality(Later(Candidate(q)))
  BY <1>5, <1>6
<1> QED
  BY <1>3, <1>8, <1>9

LEMMA LocksGiveDisjoint == IInv => LinknetsAreDisjoint
<1> SUFFICES ASSUME IInv, NEW r \in Request, NEW l \in mine[r]
             PROVE  /\ l[2] \notin linknets[l[1]] \cup direct[l[1]]
                    /\ \A q \in Request \ {r} : l \notin mine[q]
  BY DEF LinknetsAreDisjoint
<1>1. lock[l[1]] = r /\ l[2] \notin linknets[l[1]] \cup direct[l[1]]
  BY DEF IInv, RequestOK, MineOK
<1>2. \A q \in Request : l \in mine[q] => lock[l[1]] = q
  BY DEF IInv, RequestOK, MineOK
<1> QED
  BY <1>1, <1>2

LEMMA OrderGivesSegment == IInv => AttachFindsSegment
<1> SUFFICES ASSUME IInv, NEW r \in Request, pick[r] # NoPick,
                    PrimaryOf[pick[r][1]] # pick[r][1], PrimaryOf[pick[r][1]] \notin done
             PROVE  FALSE
  BY DEF AttachFindsSegment
<1>1. pc[r] = "running" /\ pick[r][1] \in Queued(r)
  BY DEF IInv, RequestOK, PickOK
<1>2. HasWork(r) /\ todo \in [Work -> SUBSET Prefix]
  BY <1>1, RunningFacts DEF Queued, IInv, TypeOK
<1>3. PICK w \in Work : w = pick[r][1] /\ RequestOf[w] = r /\ WorkGroup[w] = CurrentGroup(r)
  BY <1>1 DEF Queued, Open, WorkOf
<1>4. /\ PrimaryOf[w] \in Work /\ RequestOf[PrimaryOf[w]] = r
      /\ WorkGroup[PrimaryOf[w]] < WorkGroup[w]
  BY <1>3, PlanAssumption, VpcPrefixAssumption
<1>5. PrimaryOf[w] \in Open(r)
  BY <1>3, <1>4 DEF Open, WorkOf
<1>6. WorkGroup[w] <= WorkGroup[PrimaryOf[w]]
  BY <1>2, <1>3, <1>5, CandidateFacts
<1>7. WorkGroup[w] \in Nat /\ WorkGroup[PrimaryOf[w]] \in Nat
  BY <1>4, VpcPrefixAssumption
<1> QED
  BY <1>4, <1>6, <1>7

LEMMA DrainGivesUnused == IInv => DrainedPrefixIsUnused
<1> SUFFICES ASSUME IInv, NEW p \in Prefix, ctl[p] \in {"dbdelete", "gone"}
             PROVE  linknets[p] = {} /\ \A r \in Request, k \in Index : <<p, k>> \notin mine[r]
  BY DEF DrainedPrefixIsUnused
<1>1. linknets[p] = {} /\ deleted[p]
  BY DEF IInv, DrainOK
<1>2. lock[p] = NoRequest
  BY <1>1 DEF IInv, LockOK, Usable
<1>3. ASSUME NEW r \in Request, NEW k \in Index, <<p, k>> \in mine[r] PROVE FALSE
  <2>1. lock[p] = r
    BY <1>3 DEF IInv, RequestOK, MineOK
  <2> QED
    BY <1>2, <2>1, VpcPrefixAssumption
<1> QED
  BY <1>1, <1>3

\* The state of prefixes, rows and requests keeps its type; no candidate is tried
\* more than PREFIX_ALLOCATION_TOTAL_ATTEMPTS times.
THEOREM TypeCorrect == Spec => []TypeOK
<1>1. IInv => TypeOK
  BY DEF IInv
<1> QED
  BY Inductive, <1>1, PTL

\* Requests that lock VPC prefix rows never wait for each other in a circle,
\* whatever the number of requests, items and prefixes, and although candidates
\* are frozen before the first lock: execute_prefix_allocations takes the
\* groups in the order of its BTreeMap and the lowest candidate first.
THEOREM NoDeadlock == Spec => []NoWaitCycle
  BY Inductive, OrderGivesNoCycle, PTL

\* No two requests hold the same linknet, and none that is stored: the row lock
\* that allocate_linknet takes is kept until the transaction ends.
THEOREM Disjoint == Spec => []LinknetsAreDisjoint
  BY Inductive, LocksGiveDisjoint, PTL

\* An IPv6 linknet is only allocated once the segment of its IPv4 item exists:
\* the IPv4 group of a request is executed first.
THEOREM SegmentFirst == Spec => []AttachFindsSegment
  BY Inductive, OrderGivesSegment, PTL

\* final_delete of the VPC prefix handler finds no linknet and no open request
\* that has one: a row under lock is active, and drains only after its deletion.
THEOREM DrainIsFinal == Spec => []DrainedPrefixIsUnused
  BY Inductive, DrainGivesUnused, PTL

\* No linknet is stored on a prefix whose deletion is committed: allocations
\* recheck the row under the lock, and the deletion waits for it.
THEOREM DeletionStopsAllocation == Spec => NoLinknetAfterDeletion
<1>1. ASSUME IInv, [Next]_vars, NEW p \in Prefix, deleted[p]
      PROVE  linknets'[p] \subseteq linknets[p]
  <2>1. CASE UNCHANGED linknets
    BY <2>1
  <2>2. ASSUME NEW r \in Request, Commit(r) PROVE linknets'[p] \subseteq linknets[p]
    <3>1. ASSUME NEW k \in Index, <<p, k>> \in mine[r] PROVE FALSE
      <4>1. lock[p] = r
        BY <1>1, <3>1 DEF IInv, RequestOK, MineOK
      <4> QED
        BY <1>1, <4>1, VpcPrefixAssumption DEF IInv, LockOK, Usable
    <3> QED
      BY <2>2, <3>1 DEF Commit
  <2>3. ASSUME NEW x \in Prefix, NEW k \in Index, FreeLinknet(x, k)
        PROVE  linknets'[p] \subseteq linknets[p]
    BY <1>1, <2>3 DEF FreeLinknet, IInv, TypeOK
  <2>4. CASE UNCHANGED vars
    BY <2>4 DEF vars
  <2> QED
    BY <1>1, <2>1, <2>2, <2>3, <2>4
    DEF Next, Plan, Take, Pass, Insert, Conflict, Abort, RollBack, Delete, Decide, Transition,
        FinalDelete, InsertDirect
<1>2. IInv /\ [Next]_vars =>
        [\A p \in Prefix : deleted[p] => linknets'[p] \subseteq linknets[p]]_vars
  BY <1>1
<1> QED
  BY Inductive, <1>2, PTL DEF Spec, NoLinknetAfterDeletion
=============================================================================
