--------------------------- MODULE LinknetAllocator --------------------------
(***************************************************************************)
(* The next-fit allocation of linknets from one VPC prefix:                *)
(* PrefixAllocator of crates/api-core/src/network_segment/allocate.rs and  *)
(* the interval arithmetic of crates/api-db/src/network_prefix.rs that the *)
(* allocator and the capacity report share.                                *)
(*                                                                         *)
(* The address space has 2^Bits addresses.  A network is an aligned range  *)
(* whose size is a power of two, as a CIDR is.                             *)
(***************************************************************************)
EXTENDS Naturals, FiniteSets, Sequences

CONSTANTS
  Bits,       \* width of an address
  Linknet,    \* addresses in a linknet: a /31 or a /127 has two
  NoNetwork,
  NoIndex,
  MaxNets     \* bound: stored networks

\* Two to the power of k, the addresses of a network with k host bits.
Size[k \in 0 .. Bits] == IF k = 0 THEN 1 ELSE 2 * Size[k - 1]

ASSUME LinknetAssumption ==
  /\ Bits \in Nat
  /\ \E k \in 0 .. Bits : Linknet = Size[k]
  /\ MaxNets \in Nat
  /\ NoIndex \notin Nat

Address == 0 .. Size[Bits] - 1
Network == {n \in [start : Address, size : {Size[k] : k \in 0 .. Bits}] : n.start % n.size = 0}

ASSUME NoNetworkAssumption == NoNetwork \notin Network

Broadcast(n) == n.start + n.size - 1
Overlap(m, n) == m.start <= Broadcast(n) /\ n.start <= Broadcast(m)

VARIABLES
  parent,   \* the VPC prefix
  nets,     \* network_prefixes that overlap it
  cursor    \* last_used_prefix

vars == <<parent, nets, cursor>>

Total(p) == p.size \div Linknet

\* The linknet at an index of the parent.
Child(p, k) == [start |-> p.start + k * Linknet, size |-> Linknet]

Larger(a, b) == IF a < b THEN b ELSE a
Smaller(a, b) == IF a < b THEN a ELSE b

\* The order of pairs.
Before(i, j) == i[1] < j[1] \/ (i[1] = j[1] /\ i[2] < j[2])

\* The members of a set of pairs in this order.
Sorted(S) ==
  [n \in 1 .. Cardinality(S) |-> CHOOSE i \in S : Cardinality({j \in S : Before(j, i)}) = n - 1]

\* Mutant: the broadcast address is taken for the end of the range.
IntervalOpen(p, n) ==
  <<(Larger(n.start, p.start) - p.start) \div Linknet,
    (Smaller(n.start + n.size, p.start + p.size) - p.start) \div Linknet>>

\* The linknets of the parent that a network touches, as an inclusive interval.
Interval(p, n) ==
  <<(Larger(n.start, p.start) - p.start) \div Linknet,
    (Smaller(Broadcast(n), Broadcast(p)) - p.start) \div Linknet>>

\* occupied_prefix_intervals: sorted and not merged.
OccupiedIntervals(p, occupied) ==
  Sorted({Interval(p, n) : n \in {m \in occupied : Overlap(m, p)}})

\* One more interval: it is joined to the current run, or closes it.
Merge(acc, i) ==
  IF i[1] <= acc.end + 1
  THEN [acc EXCEPT !.end = Larger(@, i[2])]
  ELSE [sum |-> acc.sum + acc.end - acc.start + 1, start |-> i[1], end |-> i[2]]

\* The loop of occupied_prefix_count, after each interval.
Runs(intervals) ==
  LET run[n \in 1 .. Len(intervals)] ==
        IF n = 1 THEN [sum |-> 0, start |-> intervals[1][1], end |-> intervals[1][2]]
        ELSE Merge(run[n - 1], intervals[n])
  IN run

\* occupied_prefix_count: the length of the union of the intervals.
OccupiedCount(p, occupied) ==
  LET intervals == OccupiedIntervals(p, occupied)
      last == Runs(intervals)[Len(intervals)]
  IN IF intervals = << >> THEN 0 ELSE last.sum + last.end - last.start + 1

\* One more interval: it is behind the candidate, ends the search, or moves the
\* candidate to its end.
Pass(acc, i, to) ==
  IF acc.found \/ i[2] < acc.at THEN acc
  ELSE IF i[1] > acc.at THEN [acc EXCEPT !.found = TRUE]
  ELSE IF i[2] + 1 > to THEN [at |-> NoIndex, found |-> TRUE]
  ELSE [acc EXCEPT !.at = i[2] + 1]

\* The loop of first_unoccupied_index, after each interval.
Passes(intervals, from, to) ==
  LET pass[n \in 0 .. Len(intervals)] ==
        IF n = 0 THEN [at |-> from, found |-> FALSE]
        ELSE Pass(pass[n - 1], intervals[n], to)
  IN pass

\* first_unoccupied_index: one pass over the sorted intervals.
FirstUnoccupied(intervals, from, to) ==
  IF from > to THEN NoIndex ELSE Passes(intervals, from, to)[Len(intervals)].at

\* The index after the cursor; the last one wraps, a cursor elsewhere counts not.
StartIndex(p, c) ==
  IF c # NoNetwork /\ Broadcast(c) \in p.start .. Broadcast(p)
  THEN ((Broadcast(c) - p.start) \div Linknet + 1) % Total(p)
  ELSE 0

\* Mutant: what lies before the cursor is not searched.
NextFreeNoWrap(p, occupied, c) ==
  FirstUnoccupied(OccupiedIntervals(p, occupied), StartIndex(p, c), Total(p) - 1)

\* next_free_prefix: from the cursor to the end, then what comes before it.
NextFree(p, occupied, c) ==
  LET intervals == OccupiedIntervals(p, occupied)
      start == StartIndex(p, c)
      ahead == FirstUnoccupied(intervals, start, Total(p) - 1)
  IN IF ahead # NoIndex THEN ahead
     ELSE IF start = 0 THEN NoIndex
     ELSE FirstUnoccupied(intervals, 0, start - 1)

(***************************************************************************)
(* The prefix in use.                                                      *)
(***************************************************************************)
\* The generated segment and the cursor are stored in one transaction.
Store(n) == nets' = nets \cup {n} /\ cursor' = n /\ UNCHANGED parent

Allocate ==
  /\ Cardinality(nets) < MaxNets
  /\ LET k == NextFree(parent, nets, cursor)
     IN k # NoIndex /\ Store(Child(parent, k))

\* validate_desired_prefix, for a linknet that the caller pinned.
AllocateDesired(n) ==
  /\ Cardinality(nets) < MaxNets
  /\ n.size = Linknet
  /\ n.start \in parent.start .. Broadcast(parent)
  /\ \A m \in nets : ~Overlap(m, n)
  /\ Store(n)

\* Another writer stores a network; no two stored networks overlap
\* (network_prefixes_prefix_excl).
InsertDirect(n) ==
  /\ Cardinality(nets) < MaxNets
  /\ \A m \in nets : ~Overlap(m, n)
  /\ Overlap(n, parent)
  /\ nets' = nets \cup {n}
  /\ UNCHANGED <<parent, cursor>>

Free(n) ==
  /\ n \in nets
  /\ nets' = nets \ {n}
  /\ UNCHANGED <<parent, cursor>>

\* PrefixAllocator::new accepts a parent that is not smaller than a linknet.
Init ==
  /\ parent \in {n \in Network : n.size >= Linknet}
  /\ nets = {}
  /\ cursor = NoNetwork

Next == Allocate \/ \E n \in Network : AllocateDesired(n) \/ InsertDirect(n) \/ Free(n)

Spec == Init /\ [][Next]_vars

(***************************************************************************)
(* Properties.                                                             *)
(***************************************************************************)
\* The linknets that no stored network touches.
FreeIndexes == {k \in 0 .. Total(parent) - 1 : \A n \in nets : ~Overlap(n, Child(parent, k))}

\* The pass over intervals finds what its specification says: the first free
\* linknet in cyclic order behind the one given out last, which rests as long as
\* there is another one; and none only if none is free.
NextFreeIsFirstAfterCursor ==
  LET passed == IF cursor = NoNetwork THEN {}
                ELSE {k \in 0 .. Total(parent) - 1 : Child(parent, k).start <= Broadcast(cursor)}
      distance(k) == IF k \in passed THEN k + Total(parent) ELSE k
  IN NextFree(parent, nets, cursor) =
       IF FreeIndexes = {} THEN NoIndex
       ELSE CHOOSE k \in FreeIndexes : \A j \in FreeIndexes : distance(k) <= distance(j)

\* The capacity that update_stats reports is what can be allocated: "broad and
\* direct/unparented ranges have identical allocation and utilization semantics".
CapacityIsExact == Total(parent) - OccupiedCount(parent, nets) = Cardinality(FreeIndexes)
=============================================================================
