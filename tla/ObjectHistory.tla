---------------------------- MODULE ObjectHistory ----------------------------
(***************************************************************************)
(* What the state controller promises to the rest of the system about the  *)
(* controller state of an object, whatever its processors, queue and       *)
(* database connections go through: the state moves one version at a time, *)
(* every move is logged in the same instant, and listeners hear only of    *)
(* logged moves, each at most once.  The columns are those a handler's     *)
(* transaction writes (processor.rs, process_object).                      *)
(***************************************************************************)
EXTENDS Naturals

CONSTANTS Object, State, InitialState, MaxVersion

VARIABLES
  live,       \* the object's row is there
  current,    \* its version and state
  log,        \* the versions and states it moved to
  published   \* the moves listeners were told of

historyVars == <<live, current, log, published>>

HistoryInit ==
  /\ live = [o \in Object |-> TRUE]
  /\ current = [o \in Object |-> <<1, InitialState>>]
  /\ log = [o \in Object |-> {}]
  /\ published = [o \in Object |-> {}]

\* One transaction: the next version, its state and its log entry.
Advance(o, s) ==
  LET e == <<current[o][1] + 1, s>>
  IN /\ live[o]
     /\ current[o][1] < MaxVersion
     /\ current' = [current EXCEPT ![o] = e]
     /\ log' = [log EXCEPT ![o] = @ \cup {e}]
     /\ UNCHANGED <<live, published>>

\* A logged move is announced, once.
Publish(o, e) ==
  /\ e \in log[o] \ published[o]
  /\ published' = [published EXCEPT ![o] = @ \cup {e}]
  /\ UNCHANGED <<live, current, log>>

Remove(o) ==
  /\ live[o]
  /\ live' = [live EXCEPT ![o] = FALSE]
  /\ UNCHANGED <<current, log, published>>

HistoryNext ==
  \E o \in Object :
    \/ \E s \in State : Advance(o, s)
    \/ \E e \in (1 .. MaxVersion) \X State : Publish(o, e)
    \/ Remove(o)

HistorySpec == HistoryInit /\ [][HistoryNext]_historyVars
=============================================================================
