-------------------------------- MODULE Lease --------------------------------
(***************************************************************************)
(* What a work lock promises to the code that uses it: every key has at    *)
(* most one owner, and an owner that has fenced a transaction stays the    *)
(* owner until that transaction ends.  It does not promise that an owner   *)
(* learns when it stops being one (the "lease, not a fencing token" of     *)
(* work_lock_manager.rs), so End may happen at any time without a fence.   *)
(***************************************************************************)
CONSTANTS Key, WorkerId, NoId

VARIABLES
  owner,    \* the worker a key belongs to
  fenced    \* the workers with a fenced transaction open, by key

leaseVars == <<owner, fenced>>

LeaseInit ==
  /\ owner = [k \in Key |-> NoId]
  /\ fenced = [k \in Key |-> {}]

\* A worker nobody knows yet gets the key, from nobody or from an owner
\* without a fence.
Take(k, id) ==
  /\ fenced[k] = {}
  /\ \A j \in Key : owner[j] # id
  /\ owner' = [owner EXCEPT ![k] = id]
  /\ UNCHANGED fenced

End(k) ==
  /\ fenced[k] = {}
  /\ owner' = [owner EXCEPT ![k] = NoId]
  /\ UNCHANGED fenced

BeginFence(k) ==
  /\ owner[k] # NoId
  /\ fenced' = [fenced EXCEPT ![k] = {owner[k]}]
  /\ UNCHANGED owner

EndFence(k) ==
  /\ fenced' = [fenced EXCEPT ![k] = {}]
  /\ UNCHANGED owner

LeaseNext ==
  \E k \in Key :
    \/ \E id \in WorkerId : Take(k, id)
    \/ End(k) \/ BeginFence(k) \/ EndFence(k)

LeaseSpec == LeaseInit /\ [][LeaseNext]_leaseVars
=============================================================================
