------------------------- MODULE HostFirmwareProofs --------------------------
(***************************************************************************)
(* Proofs about HostFirmware, for any host, any number of servers,         *)
(* requests, faults and tasks, and any budget of retries and resets.       *)
(***************************************************************************)
EXTENDS HostFirmware, WellFoundedInduction, TLAPS

(***************************************************************************)
(* Types.  TypeOK is not inductive: a run's next state takes its fields    *)
(* from the state it loaded, from the request, from uploads and from tasks.*)
(***************************************************************************)
StateRec == [at : At, fw : Component \cup {None}, num : Nat, task : Nat \cup {None},
             ops : Nat, resets : 0 .. MaxResets, result : BOOLEAN \cup {None}, rc : Nat]

\* A controller state whose task is one of the first n.
Good(s, n) ==
  /\ s \in StateRec
  /\ s.fw # None => s.num < Artifacts[s.fw]
  /\ s.at \in {"upload", "task", "reset", "reported", "scout"} => s.fw # None
  /\ s.at \in {"task", "scout"} <=> s.task # None
  /\ s.task # None => s.task \in 1 .. n
  /\ s.at \in {"ready", "lockdown"} => s.rc = 0

RequestRec == [on : BOOLEAN, rack : BOOLEAN, reset : BOOLEAN, done : {None, "completed", "failed"}]
RunRec == [by : Server \cup {None}, st : StateRec, req : RequestRec, manual : BOOLEAN]
TaskRec == [fw : Component, num : Nat, by : Server \cup {None},
            state : {"uploading", "running", "odd", "completed", "failed", "missing", "script",
                     "scout", "dead"}]
UploadRec(n) == [is : {"none", "busy", "failed", "done"}, task : (1 .. n) \cup {None}]

MachineOK ==
  /\ Good(st, Len(tasks))
  /\ req \in RequestRec /\ (req.done # None => req.rack)
  /\ manual \in BOOLEAN /\ due \in BOOLEAN
  /\ retried \in Nat /\ cut \in BOOLEAN

RunOK == run \in RunRec /\ Good(run.st, Len(tasks)) /\ (run.req.done # None => run.req.rack)

ServersOK ==
  /\ up \in [Server -> UploadRec(Len(tasks))]
  /\ \A v \in Server : up[v].is = "done" => up[v].task # None
  /\ script \in [Server -> BOOLEAN \cup {None}]

TasksOK == tasks \in Seq(TaskRec)

\* What the stored report says.
ReportOK == listed \in Reports /\ seen \subseteq listed \cap Component

HostOK == ReportOK /\ lockdown \in BOOLEAN /\ refresh \in BOOLEAN

ScoutOK ==
  /\ scout \in [task : Nat \cup {None}, result : BOOLEAN \cup {None}]
  /\ scout.task # None => scout.task \in 1 .. Len(tasks)
  /\ scout.result # None => scout.task # None
  /\ report # None => Good(report, Len(tasks))

UsersOK ==
  /\ rackError \in BOOLEAN /\ deleting \in BOOLEAN
  /\ requests \in 0 .. MaxRequests
  /\ faults \in 0 .. MaxFaults

TypeInv == MachineOK /\ RunOK /\ ServersOK /\ TasksOK /\ HostOK /\ ScoutOK /\ UsersOK

LEMMA TypeInvImplies == TypeInv => TypeOK
<1> SUFFICES ASSUME TypeInv PROVE TypeOK
  OBVIOUS
<1>1. Len(tasks) \in Nat /\ DOMAIN tasks = 1 .. Len(tasks)
  BY DEF TypeInv, TasksOK
<1>2. ASSUME NEW s, Good(s, Len(tasks)) PROVE StateOK(s)
  BY <1>1, <1>2, HostFirmwareAssumption DEF Good, StateRec, StateOK
<1>3. StateOK(st) /\ StateOK(run.st) /\ (report # None => StateOK(report))
  BY <1>2 DEF TypeInv, MachineOK, RunOK, ScoutOK
<1>4. scout.task \in DOMAIN tasks \cup {None}
  BY <1>1 DEF TypeInv, ScoutOK
<1>5. /\ up \in [Server -> [is : {"none", "busy", "failed", "done"},
                           task : DOMAIN tasks \cup {None}]]
      /\ script \in [Server -> BOOLEAN \cup {None}]
  BY <1>1 DEF TypeInv, ServersOK, UploadRec
<1> QED
  BY <1>3, <1>4, <1>5 DEF TypeInv, HostOK, ReportOK, UsersOK, TypeOK

LEMMA InitType == Init => TypeInv
<1> SUFFICES ASSUME Init PROVE TypeInv
  OBVIOUS
<1> USE HostFirmwareAssumption DEF Init
<1>0. tasks \in Seq(TaskRec) /\ Len(tasks) = 0
  OBVIOUS
<1>1. Good(Ready, Len(tasks))
  BY <1>0 DEF Good, Ready, State, StateRec, At
<1>2. NoRequest \in RequestRec /\ NoRequest.done = None /\ Ready \in StateRec
  BY <1>1 DEF RequestRec, NoRequest, Good
<1>r. NoRun \in RunRec /\ NoRun.st = Ready /\ NoRun.req = NoRequest
  BY <1>2 DEF RunRec, NoRun
<1>m. MachineOK /\ RunOK
  BY <1>1, <1>2, <1>r DEF MachineOK, RunOK
<1>3. ServersOK
  BY DEF ServersOK, UploadRec, NoUpload
<1>b. MaxRequests \in Nat /\ MaxFaults \in Nat
  OBVIOUS
<1>c. rackError \in BOOLEAN /\ deleting \in BOOLEAN /\ lockdown \in BOOLEAN /\ refresh \in BOOLEAN
  OBVIOUS
<1>d. requests \in 0 .. MaxRequests /\ faults \in 0 .. MaxFaults
  BY <1>b
<1>4. HostOK /\ UsersOK
  BY <1>c, <1>d DEF HostOK, ReportOK, UsersOK
<1>5. ScoutOK
  <2>1. Idle \in [task : Nat \cup {None}, result : BOOLEAN \cup {None}]
        /\ Idle.task = None /\ Idle.result = None
    BY DEF Idle
  <2> QED
    BY <2>1 DEF ScoutOK
<1> QED
  BY <1>0, <1>m, <1>3, <1>4, <1>5 DEF TypeInv, TasksOK

(***************************************************************************)
(* The operators that build states.                                        *)
(***************************************************************************)
LEMMA GoodMonotone ==
  ASSUME NEW n \in Nat, NEW m \in Nat, n <= m, NEW s, Good(s, n)
  PROVE  Good(s, m)
  BY HostFirmwareAssumption DEF Good, StateRec

LEMMA StateType ==
  ASSUME NEW at \in At, NEW rc \in Nat
  PROVE  State(at, rc) \in StateRec
  BY HostFirmwareAssumption DEF State, StateRec

LEMMA StateGood ==
  ASSUME NEW n \in Nat, NEW rc \in Nat,
         NEW at \in At \ {"ready", "lockdown", "upload", "task", "reset", "reported", "scout"}
  PROVE  Good(State(at, rc), n) /\ State(at, rc).at = at /\ State(at, rc).rc = rc
<1>1. State(at, rc) \in StateRec
  BY StateType
<1> QED
  BY <1>1, HostFirmwareAssumption DEF Good, State

LEMMA ReadyGood ==
  ASSUME NEW n \in Nat
  PROVE  /\ Good(Ready, n) /\ Ready.at = "ready" /\ Ready.rc = 0
         /\ Good(State("lockdown", 0), n) /\ State("lockdown", 0).at = "lockdown"
<1>1. Ready \in StateRec /\ State("lockdown", 0) \in StateRec
  BY StateType DEF Ready, At
<1> QED
  BY <1>1, HostFirmwareAssumption DEF Good, State, Ready

LEMMA CheckGood ==
  ASSUME NEW n \in Nat, NEW rc \in Nat, NEW fw \in Component \cup {None}, NEW num \in Nat,
         fw # None => num < Artifacts[fw]
  PROVE  /\ Good(Check(fw, num, rc), n)
         /\ Check(fw, num, rc).at = "checking" /\ Check(fw, num, rc).rc = rc
<1>1. State("checking", rc) \in StateRec
  BY StateType DEF At
<1>2. Check(fw, num, rc) \in StateRec
  BY <1>1 DEF Check, StateRec
<1>3. /\ Check(fw, num, rc).at = "checking" /\ Check(fw, num, rc).rc = rc
      /\ Check(fw, num, rc).fw = fw /\ Check(fw, num, rc).num = num
      /\ Check(fw, num, rc).task = None
  BY DEF Check, State
<1> QED
  BY <1>2, <1>3 DEF Good

LEMMA RecheckGood ==
  ASSUME NEW n \in Nat, NEW rc \in Nat, NEW fw \in Component \cup {None}, NEW num \in Nat,
         fw # None => num < Artifacts[fw]
  PROVE  /\ Good(Recheck(fw, num, rc), n)
         /\ Recheck(fw, num, rc).at = "rechecking" /\ Recheck(fw, num, rc).rc = rc
<1>1. State("rechecking", rc) \in StateRec
  BY StateType DEF At
<1>2. Recheck(fw, num, rc) \in StateRec
  BY <1>1 DEF Recheck, StateRec
<1>3. /\ Recheck(fw, num, rc).at = "rechecking" /\ Recheck(fw, num, rc).rc = rc
      /\ Recheck(fw, num, rc).fw = fw /\ Recheck(fw, num, rc).num = num
      /\ Recheck(fw, num, rc).task = None
  BY DEF Recheck, State
<1> QED
  BY <1>2, <1>3 DEF Good

LEMMA FromTheStart ==
  ASSUME NEW n \in Nat, NEW rc \in Nat
  PROVE  /\ Good(Check(None, 0, rc), n)
         /\ Check(None, 0, rc).at = "checking" /\ Check(None, 0, rc).rc = rc
         /\ Good(Recheck(None, 0, rc), n)
         /\ Recheck(None, 0, rc).at = "rechecking" /\ Recheck(None, 0, rc).rc = rc
<1>1. PICK fw \in Component \cup {None}, num \in Nat : fw = None /\ num = 0
  OBVIOUS
<1>2. /\ Good(Check(fw, num, rc), n)
      /\ Check(fw, num, rc).at = "checking" /\ Check(fw, num, rc).rc = rc
  BY <1>1, CheckGood
<1>3. /\ Good(Recheck(fw, num, rc), n)
      /\ Recheck(fw, num, rc).at = "rechecking" /\ Recheck(fw, num, rc).rc = rc
  BY <1>1, RecheckGood
<1> QED
  BY <1>1, <1>2, <1>3

LEMMA RecheckSame ==
  ASSUME NEW n \in Nat, NEW m \in Nat, NEW e, Good(e, m)
  PROVE  /\ Good(Recheck(e.fw, e.num, e.rc), n)
         /\ Recheck(e.fw, e.num, e.rc).at = "rechecking" /\ Recheck(e.fw, e.num, e.rc).rc = e.rc
<1>1. /\ e.rc \in Nat /\ e.fw \in Component \cup {None} /\ e.num \in Nat
      /\ e.fw # None => e.num < Artifacts[e.fw]
  BY DEF Good, StateRec
<1>2. PICK fw \in Component \cup {None}, num \in Nat, rc \in Nat :
        fw = e.fw /\ num = e.num /\ rc = e.rc
  BY <1>1
<1>3. fw # None => num < Artifacts[fw]
  BY <1>1, <1>2
<1>4. /\ Good(Recheck(fw, num, rc), n)
      /\ Recheck(fw, num, rc).at = "rechecking" /\ Recheck(fw, num, rc).rc = rc
  BY <1>3, RecheckGood
<1> QED
  BY <1>2, <1>4

\* The states of an upload, of a task of the BMC and of a task of scout.
UploadState(fw, num, rc) == [State("upload", rc) EXCEPT !.fw = fw, !.num = num]
TaskState(fw, num, t, rc) ==
  [State("task", rc) EXCEPT !.fw = fw, !.num = num, !.task = t]
ScoutState(fw, t, rc) == [State("scout", rc) EXCEPT !.fw = fw, !.task = t]

LEMMA UploadStateGood ==
  ASSUME NEW n \in Nat, NEW rc \in Nat, NEW fw \in Component, NEW num \in Nat,
         num < Artifacts[fw]
  PROVE  /\ Good(UploadState(fw, num, rc), n)
         /\ UploadState(fw, num, rc).at = "upload" /\ UploadState(fw, num, rc).rc = rc
<1> DEFINE s == UploadState(fw, num, rc)
<1>1. State("upload", rc) \in StateRec
  BY StateType DEF At
<1>2. s \in StateRec
  BY <1>1 DEF UploadState, StateRec
<1>3. s.at = "upload" /\ s.rc = rc /\ s.fw = fw /\ s.num = num /\ s.task = None
  BY DEF UploadState, State
<1> QED
  BY <1>2, <1>3, HostFirmwareAssumption DEF Good

LEMMA TaskStateGood ==
  ASSUME NEW n \in Nat, NEW rc \in Nat, NEW fw \in Component, NEW num \in Nat,
         num < Artifacts[fw], NEW t \in 1 .. n
  PROVE  /\ Good(TaskState(fw, num, t, rc), n)
         /\ TaskState(fw, num, t, rc).at = "task" /\ TaskState(fw, num, t, rc).rc = rc
<1> DEFINE s == TaskState(fw, num, t, rc)
<1>0. t \in Nat
  OBVIOUS
<1>1. State("task", rc) \in StateRec
  BY StateType DEF At
<1>2. s \in StateRec
  BY <1>0, <1>1 DEF TaskState, StateRec
<1>3. s.at = "task" /\ s.rc = rc /\ s.fw = fw /\ s.num = num /\ s.task = t
  BY DEF TaskState, State
<1> QED
  BY <1>0, <1>2, <1>3, HostFirmwareAssumption DEF Good

LEMMA ScoutStateGood ==
  ASSUME NEW n \in Nat, NEW rc \in Nat, NEW fw \in Component, NEW t \in 1 .. n
  PROVE  /\ Good(ScoutState(fw, t, rc), n)
         /\ ScoutState(fw, t, rc).at = "scout" /\ ScoutState(fw, t, rc).rc = rc
         /\ ScoutState(fw, t, rc).task = t /\ ScoutState(fw, t, rc).result = None
<1> DEFINE s == ScoutState(fw, t, rc)
<1>0. t \in Nat
  OBVIOUS
<1>1. State("scout", rc) \in StateRec
  BY StateType DEF At
<1>2. s \in StateRec
  BY <1>0, <1>1 DEF ScoutState, StateRec
<1>3. s.at = "scout" /\ s.rc = rc /\ s.fw = fw /\ s.num = 0 /\ s.task = t /\ s.result = None
  BY DEF ScoutState, State
<1> QED
  BY <1>0, <1>2, <1>3, HostFirmwareAssumption DEF Good

LEMMA ResetForGood ==
  ASSUME NEW n \in Nat, NEW m \in Nat, NEW e, Good(e, m), e.fw # None,
         NEW num \in Nat, num < Artifacts[e.fw]
  PROVE  /\ Good(ResetFor(e, num, 0), n)
         /\ ResetFor(e, num, 0).at = "reset" /\ ResetFor(e, num, 0).rc = e.rc
<1> DEFINE s == ResetFor(e, num, 0)
<1>1. e.fw \in Component /\ e.rc \in Nat
  BY DEF Good, StateRec
<1>2. State("reset", e.rc) \in StateRec
  BY <1>1, StateType DEF At
<1>3. 3 * Drains[e.fw] \in Nat /\ 0 \in 0 .. MaxResets
  BY <1>1, HostFirmwareAssumption
<1>4. s \in StateRec
  BY <1>1, <1>2, <1>3 DEF ResetFor, StateRec
<1>5. s.at = "reset" /\ s.rc = e.rc /\ s.fw = e.fw /\ s.num = num /\ s.task = None
  BY DEF ResetFor, State
<1> QED
  BY <1>4, <1>5, HostFirmwareAssumption DEF Good

LEMMA ReportedGood ==
  ASSUME NEW n \in Nat, NEW m \in Nat, NEW e, Good(e, m), e.fw # None,
         NEW resets \in 0 .. MaxResets
  PROVE  /\ Good(Reported(e, resets), n)
         /\ Reported(e, resets).at = "reported" /\ Reported(e, resets).rc = e.rc
<1> DEFINE s == Reported(e, resets)
<1>1. /\ e.fw \in Component /\ e.rc \in Nat /\ e.num \in Nat
      /\ e.num < Artifacts[e.fw]
  BY DEF Good, StateRec
<1>2. State("reported", e.rc) \in StateRec
  BY <1>1, StateType DEF At
<1>4. s \in StateRec
  BY <1>1, <1>2 DEF Reported, StateRec
<1>5. s.at = "reported" /\ s.rc = e.rc /\ s.fw = e.fw /\ s.num = e.num /\ s.task = None
  BY DEF Reported, State
<1> QED
  BY <1>1, <1>4, <1>5, HostFirmwareAssumption DEF Good

\* The power operations of a reset, and the phases of the initial reset.
LEMMA OpsGood ==
  ASSUME NEW n \in Nat, NEW r, Good(r, n), NEW o \in Nat
  PROVE  LET s == [r EXCEPT !.ops = o] IN Good(s, n) /\ s.at = r.at /\ s.rc = r.rc
<1>1. r \in StateRec
  BY DEF Good
<1>2. [r EXCEPT !.ops = o] \in StateRec
  BY <1>1 DEF StateRec
<1>3. LET s == [r EXCEPT !.ops = o]
      IN s.at = r.at /\ s.rc = r.rc /\ s.fw = r.fw /\ s.num = r.num /\ s.task = r.task
  BY <1>1 DEF StateRec
<1> QED
  BY <1>2, <1>3 DEF Good

LEMMA InitialGood ==
  ASSUME NEW n \in Nat, NEW rc \in Nat
  PROVE  LET s == [State("initial", rc) EXCEPT !.ops = 1]
         IN  Good(s, n) /\ s.at = "initial" /\ s.rc = rc
  BY StateGood, OpsGood DEF At

LEMMA ResultGood ==
  ASSUME NEW n \in Nat, NEW r, Good(r, n), NEW b \in BOOLEAN \cup {None}
  PROVE  LET s == [r EXCEPT !.result = b]
         IN  Good(s, n) /\ s.at = r.at /\ s.task = r.task /\ s.result = b
<1>1. r \in StateRec
  BY DEF Good
<1>2. [r EXCEPT !.result = b] \in StateRec
  BY <1>1 DEF StateRec
<1>3. LET s == [r EXCEPT !.result = b]
      IN /\ s.at = r.at /\ s.rc = r.rc /\ s.fw = r.fw /\ s.num = r.num /\ s.task = r.task
         /\ s.result = b
  BY <1>1 DEF StateRec
<1> QED
  BY <1>2, <1>3 DEF Good

\* The next component to install is one of the host's.
LEMMA TargetType ==
  ASSUME Pending # {}
  PROVE  Target \in Component
<1> DEFINE R == OpToRel(<, Nat)
<1>1. IsWellFoundedOn(R, Nat)
  BY NatLessThanWellFounded, Zenon
<1>2. R = {ss \in Nat \X Nat : ss[1] < ss[2]}
  BY Zenon DEF OpToRel
<1> HIDE DEF R
<1>3. Pending \in SUBSET Nat /\ Pending \subseteq 1 .. Len(Ordering)
  BY HostFirmwareAssumption DEF Pending
<1>4. PICK x \in Pending : \A y \in Pending : ~ (<<y, x>> \in R)
  BY <1>1, <1>3, WFMin
<1>5. ASSUME NEW y \in Pending PROVE x <= y
  <2>1. x \in Nat /\ y \in Nat /\ <<y, x>> \notin R
    BY <1>3, <1>4
  <2>2. ~(y < x)
    BY <1>2, <2>1
  <2> QED
    BY <2>1, <2>2
<1>6. (CHOOSE i \in Pending : \A j \in Pending : i <= j) \in Pending
  BY <1>5
<1> QED
  BY <1>3, <1>6 DEF Target, Component

(***************************************************************************)
(* A handler run and its end.                                              *)
(***************************************************************************)
LEMMA EffectiveGood ==
  ASSUME TypeInv
  PROVE  /\ Good(Effective(run), Len(tasks))
         /\ ServesReset(run) => Effective(run).at = "rechecking" /\ Effective(run).rc = 0
         /\ ~ServesReset(run) => Effective(run).rc = run.st.rc
         /\ ~ServesReset(run) /\ run.st.at = "ready" => Effective(run).at = "checking"
         /\ ~ServesReset(run) /\ run.st.at # "ready" => Effective(run) = run.st
<1>1. Len(tasks) \in Nat
  BY DEF TypeInv, TasksOK
<1>2. Good(run.st, Len(tasks))
  BY DEF TypeInv, RunOK
<1>3. /\ Good(Recheck(None, 0, 0), Len(tasks)) /\ Good(Check(None, 0, 0), Len(tasks))
      /\ Recheck(None, 0, 0).at = "rechecking" /\ Recheck(None, 0, 0).rc = 0
      /\ Check(None, 0, 0).at = "checking" /\ Check(None, 0, 0).rc = 0
  BY <1>1, FromTheStart
<1>4. run.st.at = "ready" => run.st.rc = 0
  BY <1>2 DEF Good
<1>5. CASE ServesReset(run)
  BY <1>3, <1>5 DEF Effective
<1>6. CASE ~ServesReset(run)
  BY <1>2, <1>3, <1>4, <1>6 DEF Effective
<1> QED
  BY <1>5, <1>6

\* A run works on the state it loaded, unless that is one of the checks.
LEMMA WorksOnState ==
  ASSUME TypeInv, NEW v \in Server, NEW at \in At \ {"checking", "rechecking"}, Works(v, at)
  PROVE  /\ run.by # None /\ ~ServesReset(run)
         /\ run.st.at = at /\ Effective(run) = run.st
  BY EffectiveGood, HostFirmwareAssumption DEF Works

LEMMA ChecksWork ==
  ASSUME TypeInv, NEW v \in Server, Checks(v)
  PROVE  /\ run.by # None
         /\ ServesReset(run) \/ (run.st.at # "rack" /\ run.st.at # "failed"
                                 /\ Effective(run).rc = run.st.rc)
         /\ Effective(run).rc \in Nat
<1>1. Effective(run).at \in {"checking", "rechecking"} /\ run.by = v
  BY DEF Checks, Works
<1>2. Effective(run).rc \in Nat
  BY EffectiveGood DEF Good, StateRec
<1> QED
  BY <1>1, <1>2, EffectiveGood, HostFirmwareAssumption

\* What a run may store.  It does not store a removed machine, and a state with a
\* scout task only when the task is new; Ready or HostInit only with the end of the
\* request, and if a rack ended it or nothing is pending; and it keeps the count of
\* retries.
Outcome(new, clear) ==
  /\ Good(new, Len(tasks'))
  /\ new # run.st =>
       /\ new.at # "gone"
       /\ new.at = "scout" => new.result = None /\ new.task = Len(tasks')
                              /\ tasks' # tasks /\ \E c \in Component : Method[c] = "scout"
       /\ new.at \in {"ready", "lockdown"} =>
            clear /\ (run.req.rack \/ Pending = {})
  /\ \/ clear \/ ServesReset(run) \/ new.at = "rack"
     \/ /\ run.st.at # "rack" /\ run.st.rc <= new.rc
        /\ run.st.at = "failed" /\ new.at = "checking" =>
             new.rc = run.st.rc + 1 /\ new.rc <= MaxRetries

\* A request that is not cut short ends with the lockdown restored.
Closes(clear) ==
  /\ cut' \in BOOLEAN
  /\ clear => cut' \/ lockdown' \/ DisableLockdown
  /\ ~clear => cut' = cut

RunStores ==
  \/ UNCHANGED machineVars
  \/ \E new \in StateRec, clear \in BOOLEAN :
       /\ Stored(new, clear) /\ Outcome(new, clear) /\ Closes(clear)
       /\ manual' \in BOOLEAN

\* The end of a run, without what it did to its server and to the host.
RunEnds ==
  /\ run.by # None /\ run' = NoRun
  /\ UNCHANGED <<scout, report, rackError, deleting, requests>>
  /\ faults' \in 0 .. MaxFaults
  /\ RunStores

LEMMA FaultType ==
  ASSUME TypeInv, Fault \/ UNCHANGED faults
  PROVE  faults' \in 0 .. MaxFaults
<1>1. faults \in 0 .. MaxFaults /\ MaxFaults \in Nat
  BY HostFirmwareAssumption DEF TypeInv, UsersOK
<1> QED
  BY <1>1 DEF Fault

LEMMA StoredOrNot ==
  ASSUME TypeInv, run.by # None, run' = NoRun, UNCHANGED <<scoutVars, userVars>>,
         NEW new, NEW clear \in BOOLEAN, Outcome(new, clear),
         \/ /\ Stored(new, clear) /\ Closes(clear) /\ manual' \in BOOLEAN
            /\ Fault \/ UNCHANGED faults
         \/ NotStored
  PROVE  RunEnds
<1>1. Fault \/ UNCHANGED faults
  BY DEF NotStored
<1>2. faults' \in 0 .. MaxFaults
  BY <1>1, FaultType
<1>3. new \in StateRec
  BY DEF Outcome, Good
<1>4. RunStores
  <2>1. CASE NotStored
    BY <2>1 DEF NotStored, RunStores
  <2>2. CASE Stored(new, clear) /\ Closes(clear) /\ manual' \in BOOLEAN
    BY <1>3, <2>2 DEF RunStores
  <2> QED
    BY <2>1, <2>2
<1> QED
  BY <1>2, <1>4 DEF RunEnds, scoutVars, userVars

LEMMA GoEnds ==
  ASSUME TypeInv, run.by # None, NEW new, Go(new), Outcome(new, FALSE)
  PROVE  RunEnds
<1>1. manual \in BOOLEAN /\ cut \in BOOLEAN
  BY DEF TypeInv, MachineOK
<1>2. UNCHANGED cut => Closes(FALSE)
  BY <1>1 DEF Closes
<1> QED
  BY <1>1, <1>2, StoredOrNot DEF Go

LEMMA GoAndClearEnds ==
  ASSUME TypeInv, run.by # None, NEW new, GoAndClear(new), Outcome(new, TRUE)
  PROVE  RunEnds
<1>1. manual \in BOOLEAN
  BY DEF TypeInv, MachineOK
<1>2. cut' = TRUE => Closes(TRUE)
  BY DEF Closes
<1> QED
  BY <1>1, <1>2, StoredOrNot DEF GoAndClear

LEMMA EndCheckEnds ==
  ASSUME TypeInv, run.by # None, NEW new, NEW early \in BOOLEAN, EndCheck(new, early),
         Outcome(new, TRUE), early \/ lockdown' \/ DisableLockdown, Fault \/ UNCHANGED faults
  PROVE  RunEnds
<1>1. Closes(TRUE)
  BY DEF EndCheck, Closes
<1> QED
  BY <1>1, StoredOrNot DEF EndCheck

LEMMA GiveUpEnds ==
  ASSUME TypeInv, run.by # None, GiveUp, Fault \/ UNCHANGED faults
  PROVE  RunEnds
<1>1. faults' \in 0 .. MaxFaults
  BY FaultType
<1> QED
  BY <1>1 DEF GiveUp, RunEnds, RunStores, scoutVars, userVars

\* Most of what a run stores leads neither out of the upgrade nor to scout.
LEMMA PlainOutcome ==
  ASSUME NEW new, Good(new, Len(tasks')),
         new.at \notin {"gone", "scout", "ready", "lockdown"},
         \/ ServesReset(run) \/ new.at = "rack"
         \/ /\ run.st.at # "rack" /\ run.st.rc <= new.rc
            /\ new.at = "checking" => run.st.at # "failed"
  PROVE  Outcome(new, FALSE)
  BY DEF Outcome

\* What else a run does: it starts at most one task.
Appends == tasks' = tasks \/ \E t \in TaskRec : tasks' = Append(tasks, t)

RunStep ==
  /\ RunEnds
  /\ Appends
  /\ ServersOK'
  /\ UNCHANGED <<flashed, listed, seen>>
  /\ lockdown' \in BOOLEAN /\ refresh' \in BOOLEAN

LEMMA AppendsFacts ==
  ASSUME TypeInv, Appends
  PROVE  /\ tasks' \in Seq(TaskRec)
         /\ Len(tasks) \in Nat /\ Len(tasks') \in Nat
         /\ tasks' # tasks => Len(tasks') = Len(tasks) + 1
         /\ Len(tasks) <= Len(tasks')
         /\ \A i \in 1 .. Len(tasks) : tasks'[i] = tasks[i]
<1>1. tasks \in Seq(TaskRec)
  BY DEF TypeInv, TasksOK
<1>2. CASE tasks' = tasks
  BY <1>1, <1>2
<1>3. ASSUME NEW t \in TaskRec, tasks' = Append(tasks, t)
      PROVE  /\ tasks' \in Seq(TaskRec)
             /\ Len(tasks) \in Nat /\ Len(tasks') \in Nat
             /\ Len(tasks') = Len(tasks) + 1
             /\ Len(tasks) <= Len(tasks')
             /\ \A i \in 1 .. Len(tasks) : tasks'[i] = tasks[i]
  BY <1>1, <1>3
<1> QED
  BY <1>2, <1>3 DEF Appends

LEMMA QuietStep ==
  ASSUME TypeInv, UNCHANGED <<serverVars, tasks, hostVars, refresh>>
  PROVE  /\ Appends /\ ServersOK' /\ Len(tasks') \in Nat /\ Good(run.st, Len(tasks'))
         /\ UNCHANGED <<flashed, listed, seen>> /\ lockdown' \in BOOLEAN /\ refresh' \in BOOLEAN
<1>1. ServersOK'
  BY DEF TypeInv, ServersOK, serverVars, UploadRec
<1> QED
  BY <1>1 DEF TypeInv, TasksOK, RunOK, HostOK, Appends, hostVars

LEMMA RackSteps ==
  ASSUME TypeInv, NEW v \in Server, AbortForRack(v) \/ HandToRack(v) \/ WaitForRack(v)
  PROVE  RunStep
<1> USE QuietStep
<1>1. CASE AbortForRack(v)
  <2>1. run.by # None /\ run.req.rack
    BY <1>1, HostFirmwareAssumption DEF AbortForRack, Aborts
  <2>2. Outcome(Ready, TRUE)
    BY <1>1, <2>1, ReadyGood DEF AbortForRack, Outcome
  <2>3. RunEnds
    BY <1>1, <2>1, <2>2, GoAndClearEnds DEF AbortForRack
  <2> QED
    BY <1>1, <2>3 DEF AbortForRack, RunStep
<1>2. CASE HandToRack(v)
  <2> DEFINE rc == IF RackReady(run) THEN 1 ELSE Effective(run).rc
  <2>1. run.by # None
    BY <1>2, HostFirmwareAssumption DEF HandToRack
  <2>2. rc \in Nat
    BY EffectiveGood DEF Good, StateRec
  <2>3. Good(State("rack", rc), Len(tasks')) /\ State("rack", rc).at = "rack"
    BY <1>2, <2>2, StateGood DEF HandToRack, At
  <2>4. Outcome(State("rack", rc), FALSE)
    BY <2>3, PlainOutcome
  <2>5. RunEnds
    BY <1>2, <2>1, <2>4, GoEnds DEF HandToRack
  <2> QED
    BY <1>2, <2>5 DEF HandToRack, RunStep
<1>3. CASE WaitForRack(v)
  <2>1. run.by # None /\ run.st.at = "rack"
    BY <1>3, WorksOnState DEF WaitForRack, At
  <2>2. run.req.done # None
    BY <1>3, HostFirmwareAssumption DEF WaitForRack
  <2>3. run.req.rack
    BY <2>2 DEF TypeInv, RunOK
  <2>4. run.st.rc \in Nat
    BY DEF TypeInv, RunOK, Good, StateRec
  <2>5. Outcome(Ready, TRUE)
    BY <1>3, <2>3, ReadyGood DEF WaitForRack, Outcome
  <2>6. Outcome(State("failed", run.st.rc), TRUE)
    BY <1>3, <2>3, <2>4, StateGood DEF WaitForRack, Outcome, At
  <2>7. RunEnds
    BY <1>3, <2>1, <2>5, <2>6, GoAndClearEnds DEF WaitForRack
  <2> QED
    BY <1>3, <2>7 DEF WaitForRack, RunStep
<1> QED
  BY <1>1, <1>2, <1>3

\* The checks keep the count of retries of the state they work on.
LEMMA CheckOutcome ==
  ASSUME TypeInv, NEW v \in Server, Checks(v), NEW new, Good(new, Len(tasks')),
         new.at \notin {"gone", "scout", "ready", "lockdown"}, new.rc = Effective(run).rc
  PROVE  run.by # None /\ Outcome(new, FALSE)
<1>1. ServesReset(run) \/ (run.st.at # "rack" /\ run.st.rc <= new.rc /\ run.st.at # "failed")
  BY ChecksWork
<1> QED
  BY <1>1, ChecksWork, PlainOutcome

LEMMA CheckFirstStep ==
  ASSUME TypeInv, NEW v \in Server, CheckFirst(v)
  PROVE  RunStep
<1> DEFINE e == Effective(run)
<1>1. /\ Checks(v) /\ UNCHANGED <<serverVars, tasks, hostVars, refresh>>
      /\ Go(State("manual", e.rc)) \/ Go(Recheck(e.fw, e.num, e.rc))
  BY DEF CheckFirst
<1> HIDE DEF e
<1>t. Len(tasks) \in Nat
  BY DEF TypeInv, TasksOK
<1>2. Good(e, Len(tasks)) /\ Len(tasks') \in Nat /\ run.by # None
  BY <1>1, EffectiveGood, ChecksWork, QuietStep DEF e
<1>3. e.rc \in Nat
  BY <1>2 DEF Good, StateRec
<1>4. Outcome(State("manual", e.rc), FALSE)
  <2>1. /\ Good(State("manual", e.rc), Len(tasks'))
        /\ State("manual", e.rc).at = "manual" /\ State("manual", e.rc).rc = e.rc
    BY <1>2, <1>3, StateGood DEF At
  <2> QED
    BY <1>1, <2>1, CheckOutcome DEF e
<1>5. Outcome(Recheck(e.fw, e.num, e.rc), FALSE)
  <2> DEFINE new == Recheck(e.fw, e.num, e.rc)
  <2>1. Good(new, Len(tasks')) /\ new.at = "rechecking" /\ new.rc = e.rc
    BY <1>2, RecheckSame, <1>t
  <2> HIDE DEF new
  <2>2. Outcome(new, FALSE)
    BY <1>1, <2>1, CheckOutcome DEF e
  <2> QED
    BY <2>2 DEF new
<1>6. RunEnds
  BY <1>1, <1>2, <1>4, <1>5, GoEnds
<1> QED
  BY <1>1, <1>6, QuietStep DEF RunStep

LEMMA StartScoutStep ==
  ASSUME TypeInv, NEW v \in Server, StartScout(v)
  PROVE  RunStep
<1> DEFINE new == ScoutState(Target, Len(tasks) + 1, Effective(run).rc)
<1>1. /\ Checks(v) /\ Pending # {} /\ Method[Target] = "scout"
      /\ tasks' = Append(tasks, Task(Target, 0, None, "scout"))
      /\ Go(new) /\ UNCHANGED <<serverVars, hostVars, refresh>>
  BY DEF StartScout, Selects, StartTask, ScoutState
<1>2. Target \in Component
  BY <1>1, TargetType
<1>3. Task(Target, 0, None, "scout") \in TaskRec
  BY <1>2 DEF Task, TaskRec
<1>4. Appends
  BY <1>1, <1>3 DEF Appends
<1>5. tasks \in Seq(TaskRec)
  BY DEF TypeInv, TasksOK
<1>6. Len(tasks') = Len(tasks) + 1 /\ Len(tasks) \in Nat /\ tasks' # tasks
  BY <1>1, <1>3, <1>5
<1>7. Len(tasks) + 1 \in 1 .. Len(tasks')
  BY <1>6
<1>8. run.by # None /\ Effective(run).rc \in Nat
  BY <1>1, ChecksWork
<1>9. /\ Good(new, Len(tasks')) /\ new.at = "scout" /\ new.rc = Effective(run).rc
      /\ new.result = None /\ new.task = Len(tasks')
  <2>1. Len(tasks') \in Nat
    BY <1>6
  <2> QED
    BY <1>2, <1>6, <1>7, <1>8, <2>1, ScoutStateGood
<1> HIDE DEF new
<1>10. Outcome(new, FALSE)
  <2>1. ServesReset(run) \/ (run.st.at # "rack" /\ run.st.rc <= new.rc)
    BY <1>1, <1>8, <1>9, ChecksWork
  <2> QED
    BY <1>1, <1>2, <1>6, <1>9, <2>1 DEF Outcome
<1>11. RunEnds
  BY <1>1, <1>8, <1>10, GoEnds
<1>12. ServersOK'
  <2>1. /\ up' = up /\ script' = script /\ 1 .. Len(tasks) \subseteq 1 .. Len(tasks')
        /\ up \in [Server -> UploadRec(Len(tasks))]
    BY <1>1, <1>6 DEF serverVars, TypeInv, ServersOK
  <2>2. up' \in [Server -> UploadRec(Len(tasks'))]
    BY <2>1 DEF UploadRec
  <2> QED
    BY <2>1, <2>2 DEF TypeInv, ServersOK
<1> QED
  BY <1>1, <1>4, <1>11, <1>12 DEF RunStep, hostVars, TypeInv, HostOK

LEMMA StartScriptStep ==
  ASSUME TypeInv, NEW v \in Server, StartScript(v)
  PROVE  RunStep
<1>1. /\ Checks(v) /\ Pending # {}
      /\ tasks' = Append(tasks, Task(Target, 0, v, "script"))
      /\ script' = [script EXCEPT ![v] = None] /\ up' = up
      /\ Go(State("script", Effective(run).rc)) /\ UNCHANGED <<hostVars, refresh>>
  BY DEF StartScript, Selects, StartTask
<1>2. Target \in Component
  BY <1>1, TargetType
<1>3. Task(Target, 0, v, "script") \in TaskRec
  BY <1>2 DEF Task, TaskRec
<1>4. Appends
  BY <1>1, <1>3 DEF Appends
<1>5. Len(tasks') \in Nat /\ Len(tasks) \in Nat /\ Len(tasks) <= Len(tasks')
  BY <1>4, AppendsFacts
<1>6. run.by # None /\ Effective(run).rc \in Nat
  BY <1>1, ChecksWork
<1>7. Outcome(State("script", Effective(run).rc), FALSE)
  <2> DEFINE new == State("script", Effective(run).rc)
  <2>1. Good(new, Len(tasks')) /\ new.at = "script" /\ new.rc = Effective(run).rc
    BY <1>5, <1>6, StateGood DEF At
  <2> HIDE DEF new
  <2>2. Outcome(new, FALSE)
    BY <1>1, <2>1, CheckOutcome
  <2> QED
    BY <2>2 DEF new
<1>8. RunEnds
  BY <1>1, <1>6, <1>7, GoEnds
<1>9. ServersOK'
  <2>1. 1 .. Len(tasks) \subseteq 1 .. Len(tasks')
    BY <1>5
  <2>2. up' \in [Server -> UploadRec(Len(tasks'))]
    BY <1>1, <2>1 DEF UploadRec, TypeInv, ServersOK
  <2>3. script' \in [Server -> BOOLEAN \cup {None}]
    BY <1>1 DEF TypeInv, ServersOK
  <2> QED
    BY <1>1, <2>2, <2>3 DEF TypeInv, ServersOK
<1> QED
  BY <1>1, <1>4, <1>8, <1>9 DEF RunStep, hostVars, TypeInv, HostOK

LEMMA StartResetStep ==
  ASSUME TypeInv, NEW v \in Server, StartReset(v) \/ MissingArtifact(v)
  PROVE  RunStep
<1> DEFINE rc == Effective(run).rc
<1>1. /\ Checks(v) /\ UNCHANGED <<serverVars, tasks, hostVars, refresh>>
      /\ Go([State("initial", rc) EXCEPT !.ops = 1]) \/ Go(State("failed", rc))
  BY DEF StartReset, MissingArtifact, Selects
<1>2. run.by # None /\ rc \in Nat /\ Len(tasks') \in Nat
  BY <1>1, ChecksWork, QuietStep
<1>3. Outcome([State("initial", rc) EXCEPT !.ops = 1], FALSE)
  BY <1>1, <1>2, InitialGood, CheckOutcome
<1>4. Outcome(State("failed", rc), FALSE)
  <2> DEFINE new == State("failed", rc)
  <2>1. Good(new, Len(tasks')) /\ new.at = "failed" /\ new.rc = Effective(run).rc
    BY <1>2, StateGood DEF At
  <2> HIDE DEF new
  <2>2. Outcome(new, FALSE)
    BY <1>1, <2>1, CheckOutcome
  <2> QED
    BY <2>2 DEF new
<1>5. RunEnds
  BY <1>1, <1>2, <1>3, <1>4, GoEnds
<1> QED
  BY <1>1, <1>5, QuietStep DEF RunStep

LEMMA InitiateUpdateStep ==
  ASSUME TypeInv, NEW v \in Server, InitiateUpdate(v)
  PROVE  RunStep
<1> DEFINE n == Number(Effective(run))
           new == UploadState(Target, n, Effective(run).rc)
<1>1. /\ Checks(v) /\ Pending # {}
      /\ lockdown' = FALSE /\ StartUpload(v, Target, n) /\ Go(new)
      /\ UNCHANGED <<script, flashed, listed, seen, refresh>>
  BY DEF InitiateUpdate, Selects, UploadState
<1>2. Target \in Component
  BY <1>1, TargetType
<1>3. n \in Nat /\ n < Artifacts[Target]
  <2>1. /\ Effective(run).num \in Nat
        /\ Effective(run).fw # None => Effective(run).num < Artifacts[Effective(run).fw]
    BY EffectiveGood DEF Good, StateRec
  <2>2. Artifacts[Target] \in Nat \ {0} /\ Target # None
    BY <1>2, HostFirmwareAssumption
  <2> QED
    BY <2>1, <2>2 DEF Number
<1> HIDE DEF n
<1>4. Task(Target, n, v, "uploading") \in TaskRec
  BY <1>2, <1>3 DEF Task, TaskRec
<1>5. Appends
  BY <1>1, <1>4 DEF StartUpload, StartTask, Appends
<1>6. Len(tasks') \in Nat /\ Len(tasks) \in Nat /\ Len(tasks) <= Len(tasks')
  BY <1>5, AppendsFacts
<1>7. run.by # None /\ Effective(run).rc \in Nat
  BY <1>1, ChecksWork
<1>8. Good(new, Len(tasks')) /\ new.at = "upload" /\ new.rc = Effective(run).rc
  BY <1>2, <1>3, <1>6, <1>7, UploadStateGood
<1> HIDE DEF new
<1>9. RunEnds
  BY <1>1, <1>7, <1>8, CheckOutcome, GoEnds
<1>10. ServersOK'
  <2>1. 1 .. Len(tasks) \subseteq 1 .. Len(tasks')
    BY <1>6
  <2>2. up' = up \/ up' = [up EXCEPT ![v].is = "busy"]
    BY <1>1 DEF StartUpload
  <2>3. /\ up \in [Server -> UploadRec(Len(tasks'))]
        /\ \A w \in Server : up[w].is = "done" => up[w].task # None
    BY <2>1 DEF UploadRec, TypeInv, ServersOK
  <2>4. /\ up' \in [Server -> UploadRec(Len(tasks'))]
        /\ \A w \in Server : up'[w].is = "done" => up'[w].task # None
    BY <2>2, <2>3 DEF UploadRec
  <2> QED
    BY <1>1, <2>4 DEF TypeInv, ServersOK
<1> QED
  BY <1>1, <1>5, <1>9, <1>10 DEF RunStep, TypeInv, HostOK

LEMMA FinishCheckStep ==
  ASSUME TypeInv, NEW v \in Server, FinishCheck(v)
  PROVE  RunStep
<1> DEFINE new == IF lockdown \/ DisableLockdown THEN Ready ELSE State("lockdown", 0)
<1>1. /\ Checks(v) /\ Pending = {} /\ lockdown' = (lockdown \/ ~DisableLockdown)
      /\ \/ EndCheck(new, FALSE) /\ UNCHANGED faults
         \/ NotStored /\ run' = NoRun /\ UNCHANGED <<scoutVars, userVars>>
      /\ UNCHANGED <<serverVars, tasks, flashed, listed, seen, refresh>>
  BY DEF FinishCheck, NothingLeft
<1>2. ServersOK' /\ Appends /\ Len(tasks') \in Nat
  BY <1>1 DEF TypeInv, TasksOK, ServersOK, serverVars, Appends, UploadRec
<1>3. Good(new, Len(tasks')) /\ new.at \in {"ready", "lockdown"}
  BY <1>2, ReadyGood
<1> HIDE DEF new
<1>4. Outcome(new, TRUE)
  BY <1>1, <1>3 DEF Outcome
<1>5. run.by # None
  BY <1>1, ChecksWork
<1>l. lockdown' \in BOOLEAN /\ (lockdown' \/ DisableLockdown)
  BY <1>1
<1>6. RunEnds
  BY <1>1, <1>4, <1>5, <1>l, EndCheckEnds, StoredOrNot
<1> QED
  BY <1>1, <1>2, <1>6, <1>l DEF RunStep, TypeInv, HostOK

LEMMA NoFirmwareInfoStep ==
  ASSUME TypeInv, NEW v \in Server, NoFirmwareInfo(v)
  PROVE  RunStep
<1>1. /\ Checks(v) /\ listed = NoInfo
      /\ \/ EndCheck(Ready, TRUE) /\ UNCHANGED faults
         \/ NotStored /\ run' = NoRun /\ UNCHANGED <<scoutVars, userVars>>
      /\ UNCHANGED <<serverVars, tasks, hostVars, refresh>>
  BY DEF NoFirmwareInfo
<1>2. Pending = {}
  BY <1>1, HostFirmwareAssumption DEF Pending, NoInfo, Component
<1>3. Good(Ready, Len(tasks')) /\ Ready.at = "ready"
  BY <1>1, QuietStep, ReadyGood
<1>4. Outcome(Ready, TRUE)
  BY <1>2, <1>3 DEF Outcome
<1>5. RunEnds
  BY <1>1, <1>4, ChecksWork, EndCheckEnds, StoredOrNot
<1> QED
  BY <1>1, <1>5, QuietStep DEF RunStep

LEMMA DeferStep ==
  ASSUME TypeInv, NEW v \in Server, Defer(v) \/ CannotLock(v)
  PROVE  RunStep
<1>1. /\ Checks(v) /\ Fault /\ EndCheck(run.st, TRUE)
      /\ lockdown' \in {lockdown, FALSE}
      /\ UNCHANGED <<serverVars, tasks, flashed, listed, seen, refresh>>
  BY DEF Defer, CannotLock, Selects, NothingLeft, hostVars
<1>2. ServersOK' /\ Appends /\ Good(run.st, Len(tasks')) /\ lockdown' \in BOOLEAN
  BY <1>1 DEF TypeInv, RunOK, HostOK, ServersOK, serverVars, Appends, UploadRec
<1>3. Outcome(run.st, TRUE)
  BY <1>2 DEF Outcome
<1>4. RunEnds
  BY <1>1, <1>3, ChecksWork, EndCheckEnds
<1> QED
  BY <1>1, <1>2, <1>4 DEF RunStep, TypeInv, HostOK

\* A state that waits for something keeps the count of retries, too.
LEMMA WorkOutcome ==
  ASSUME TypeInv, NEW v \in Server,
         NEW at \in At \ {"checking", "rechecking", "rack", "failed"}, Works(v, at),
         NEW new, Good(new, Len(tasks')),
         new.at \notin {"gone", "scout", "ready", "lockdown"}, new.rc = run.st.rc
  PROVE  run.by # None /\ Outcome(new, FALSE)
<1>1. run.by # None /\ run.st.at = at
  BY WorksOnState
<1>2. run.st.rc \in Nat
  BY DEF TypeInv, RunOK, Good, StateRec
<1>3. run.st.rc <= new.rc
  BY <1>2
<1> QED
  BY <1>1, <1>3, PlainOutcome

LEMMA WaitForManualStep ==
  ASSUME TypeInv, NEW v \in Server, WaitForManual(v)
  PROVE  RunStep
<1> DEFINE new == Recheck(None, 0, run.st.rc)
<1>1. /\ Works(v, "manual") /\ Go(new)
      /\ UNCHANGED <<serverVars, tasks, hostVars, refresh>>
  BY DEF WaitForManual
<1>2. run.st.rc \in Nat /\ Len(tasks') \in Nat
  BY <1>1, QuietStep DEF TypeInv, RunOK, Good, StateRec
<1>3. Good(new, Len(tasks')) /\ new.at = "rechecking" /\ new.rc = run.st.rc
  BY <1>2, FromTheStart
<1> HIDE DEF new
<1>4. RunEnds
  BY <1>1, <1>3, WorkOutcome, GoEnds DEF At
<1> QED
  BY <1>1, <1>4, QuietStep DEF RunStep

LEMMA WaitForScriptStep ==
  ASSUME TypeInv, NEW v \in Server, WaitForScript(v)
  PROVE  RunStep
<1> DEFINE new == IF script[v] THEN Recheck(None, 0, run.st.rc) ELSE State("failed", run.st.rc)
<1>1. /\ Works(v, "script") /\ Go(new) /\ script' = [script EXCEPT ![v] = None]
      /\ UNCHANGED <<up, tasks, hostVars, refresh>>
  BY DEF WaitForScript
<1>2. ServersOK' /\ Appends /\ Len(tasks') \in Nat
  BY <1>1 DEF TypeInv, TasksOK, ServersOK, Appends, UploadRec
<1>3. run.st.rc \in Nat
  BY DEF TypeInv, RunOK, Good, StateRec
<1>4. Good(new, Len(tasks')) /\ new.at \in {"rechecking", "failed"} /\ new.rc = run.st.rc
  <2>1. CASE script[v]
    BY <1>2, <1>3, <2>1, FromTheStart
  <2>2. CASE ~script[v]
    BY <1>2, <1>3, <2>2, StateGood DEF At
  <2> QED
    BY <2>1, <2>2
<1> HIDE DEF new
<1>5. RunEnds
  BY <1>1, <1>4, WorkOutcome, GoEnds DEF At
<1> QED
  BY <1>1, <1>2, <1>5 DEF RunStep, hostVars, TypeInv, HostOK

LEMMA InitialResetStep ==
  ASSUME TypeInv, NEW v \in Server, InitialReset(v)
  PROVE  RunStep
<1>1. /\ Works(v, "initial")
      /\ Go([run.st EXCEPT !.ops = 2]) \/ Go(Recheck(None, 0, run.st.rc))
      /\ UNCHANGED <<serverVars, tasks, hostVars, refresh>>
  BY DEF InitialReset
<1>2. PICK new : Go(new) /\ (new = [run.st EXCEPT !.ops = 2] \/ new = Recheck(None, 0, run.st.rc))
  BY <1>1
<1>3. run.st.rc \in Nat /\ Len(tasks') \in Nat /\ Good(run.st, Len(tasks'))
  BY <1>1, QuietStep DEF TypeInv, RunOK, Good, StateRec
<1>4. run.st.at = "initial"
  BY <1>1, WorksOnState DEF At
<1>5. Good(new, Len(tasks')) /\ new.at \in {"initial", "rechecking"} /\ new.rc = run.st.rc
  <2>1. CASE new = [run.st EXCEPT !.ops = 2]
    BY <1>3, <1>4, <2>1, OpsGood
  <2>2. CASE new = Recheck(None, 0, run.st.rc)
    BY <1>3, <2>2, FromTheStart
  <2> QED
    BY <1>2, <2>1, <2>2
<1>6. RunEnds
  BY <1>1, <1>2, <1>5, WorkOutcome, GoEnds DEF At
<1> QED
  BY <1>1, <1>6, QuietStep DEF RunStep

LEMMA WaitForUploadStep ==
  ASSUME TypeInv, NEW v \in Server, WaitForUpload(v)
  PROVE  RunStep
<1> DEFINE e == run.st
<1>1. /\ Works(v, "upload") /\ UNCHANGED <<script, tasks, hostVars, refresh>>
      /\ \/ up' = [up EXCEPT ![v] = NoUpload] /\ Go(Recheck(e.fw, e.num, e.rc))
         \/ up[v].is = "done" /\ up' = up /\ Go(TaskState(e.fw, e.num, up[v].task, e.rc))
  BY DEF WaitForUpload, TaskState
<1>2. ServersOK' /\ Appends /\ Len(tasks) \in Nat /\ Len(tasks') = Len(tasks)
  <2>1. /\ up \in [Server -> UploadRec(Len(tasks'))]
        /\ \A w \in Server : up[w].is = "done" => up[w].task # None
    BY <1>1 DEF TypeInv, ServersOK
  <2>2. NoUpload \in UploadRec(Len(tasks')) /\ NoUpload.is # "done"
    BY DEF NoUpload, UploadRec
  <2>3. /\ up' \in [Server -> UploadRec(Len(tasks'))]
        /\ \A w \in Server : up'[w].is = "done" => up'[w].task # None
    BY <1>1, <2>1, <2>2
  <2> QED
    BY <1>1, <2>3 DEF TypeInv, TasksOK, ServersOK, Appends
<1>3. run.st.at = "upload"
  BY <1>1, WorksOnState DEF At
<1>4. Good(e, Len(tasks)) /\ e.fw # None
  BY <1>3 DEF TypeInv, RunOK, Good
<1>5. RunEnds
  <2>1. CASE Go(Recheck(e.fw, e.num, e.rc))
    <3> DEFINE new == Recheck(e.fw, e.num, e.rc)
    <3>1. Good(new, Len(tasks')) /\ new.at = "rechecking" /\ new.rc = run.st.rc
      BY <1>2, <1>4, RecheckSame
    <3>2. Go(new)
      BY <2>1
    <3> HIDE DEF new
    <3> QED
      BY <1>1, <3>1, <3>2, WorkOutcome, GoEnds DEF At
  <2>2. CASE up[v].is = "done" /\ Go(TaskState(e.fw, e.num, up[v].task, e.rc))
    <3>1. up[v].task \in 1 .. Len(tasks)
      BY <2>2 DEF TypeInv, ServersOK, UploadRec
    <3>2. e.fw \in Component /\ e.num \in Nat /\ e.num < Artifacts[e.fw] /\ e.rc \in Nat
      BY <1>4 DEF Good, StateRec
    <3>3. PICK fw \in Component, num \in Nat, rc \in Nat, t \in 1 .. Len(tasks) :
            fw = e.fw /\ num = e.num /\ rc = e.rc /\ t = up[v].task
      BY <3>1, <3>2
    <3> DEFINE new == TaskState(fw, num, t, rc)
    <3>4. Good(new, Len(tasks')) /\ new.at = "task" /\ new.rc = run.st.rc
      BY <1>2, <3>2, <3>3, TaskStateGood
    <3>5. Go(new)
      BY <2>2, <3>3
    <3> HIDE DEF new
    <3> QED
      BY <1>1, <3>4, <3>5, WorkOutcome, GoEnds DEF At
  <2> QED
    BY <1>1, <2>1, <2>2
<1> QED
  BY <1>1, <1>2, <1>5 DEF RunStep, hostVars, TypeInv, HostOK

LEMMA TaskCompletedGood ==
  ASSUME NEW n \in Nat, NEW m \in Nat, NEW e, Good(e, m), e.fw # None
  PROVE  /\ Good(TaskCompleted(e), n)
         /\ TaskCompleted(e).at \in {"checking", "reset"} /\ TaskCompleted(e).rc = e.rc
<1>1. e.fw \in Component /\ e.num \in Nat /\ e.num < Artifacts[e.fw] /\ e.rc \in Nat
  BY DEF Good, StateRec
<1>2. CASE ~refresh /\ listed # NoInfo /\ e.num + 1 < Artifacts[e.fw]
  <2>1. PICK fw \in Component \cup {None}, num \in Nat, rc \in Nat :
          fw = e.fw /\ num = e.num + 1 /\ rc = e.rc
    BY <1>1
  <2>2. /\ Good(Check(fw, num, rc), n)
        /\ Check(fw, num, rc).at = "checking" /\ Check(fw, num, rc).rc = rc
    BY <1>2, <2>1, CheckGood
  <2> QED
    BY <1>2, <2>1, <2>2 DEF TaskCompleted
<1>3. CASE ~(~refresh /\ listed # NoInfo /\ e.num + 1 < Artifacts[e.fw])
  <2>1. PICK num \in Nat : num = e.num
    BY <1>1
  <2>2. /\ Good(ResetFor(e, num, 0), n)
        /\ ResetFor(e, num, 0).at = "reset" /\ ResetFor(e, num, 0).rc = e.rc
    BY <1>1, <2>1, ResetForGood
  <2> QED
    BY <1>3, <2>1, <2>2 DEF TaskCompleted
<1> QED
  BY <1>2, <1>3

LEMMA WaitForTaskStep ==
  ASSUME TypeInv, NEW v \in Server, WaitForTask(v)
  PROVE  RunStep
<1> DEFINE e == run.st
<1>1. /\ Works(v, "task") /\ UNCHANGED <<script, tasks, hostVars>>
      /\ up' = [up EXCEPT ![v] = NoUpload]
      /\ refresh' = refresh \/ refresh' = (refresh \/ st' # st)
      /\ \/ Go(TaskCompleted(e))
         \/ Go(State("failed", e.rc))
         \/ Go(Recheck(e.fw, e.num, e.rc))
         \/ GiveUp /\ UNCHANGED faults
  BY DEF WaitForTask
<1>2. ServersOK' /\ Appends /\ Len(tasks) \in Nat /\ Len(tasks') = Len(tasks)
  <2>1. /\ up \in [Server -> UploadRec(Len(tasks'))]
        /\ \A w \in Server : up[w].is = "done" => up[w].task # None
    BY <1>1 DEF TypeInv, ServersOK
  <2>2. NoUpload \in UploadRec(Len(tasks')) /\ NoUpload.is # "done"
    BY DEF NoUpload, UploadRec
  <2>3. /\ up' \in [Server -> UploadRec(Len(tasks'))]
        /\ \A w \in Server : up'[w].is = "done" => up'[w].task # None
    BY <1>1, <2>1, <2>2
  <2> QED
    BY <1>1, <2>3 DEF TypeInv, TasksOK, ServersOK, Appends
<1>3. run.st.at = "task" /\ run.by # None
  BY <1>1, WorksOnState DEF At
<1>4. Good(e, Len(tasks)) /\ e.fw # None /\ e.rc \in Nat
  BY <1>3 DEF TypeInv, RunOK, Good, StateRec
<1>5. RunEnds
  <2>1. CASE Go(TaskCompleted(e))
    BY <1>1, <1>2, <1>4, <2>1, TaskCompletedGood, WorkOutcome, GoEnds DEF At
  <2>2. CASE Go(State("failed", e.rc))
    <3> DEFINE new == State("failed", e.rc)
    <3>1. Good(new, Len(tasks')) /\ new.at = "failed" /\ new.rc = run.st.rc
      BY <1>2, <1>4, StateGood DEF At
    <3>2. Go(new)
      BY <2>2
    <3> HIDE DEF new
    <3> QED
      BY <1>1, <3>1, <3>2, WorkOutcome, GoEnds DEF At
  <2>3. CASE Go(Recheck(e.fw, e.num, e.rc))
    <3> DEFINE new == Recheck(e.fw, e.num, e.rc)
    <3>1. Good(new, Len(tasks')) /\ new.at = "rechecking" /\ new.rc = run.st.rc
      BY <1>2, <1>4, RecheckSame
    <3>2. Go(new)
      BY <2>3
    <3> HIDE DEF new
    <3> QED
      BY <1>1, <3>1, <3>2, WorkOutcome, GoEnds DEF At
  <2>4. CASE GiveUp /\ UNCHANGED faults
    BY <1>3, <2>4, GiveUpEnds
  <2> QED
    BY <1>1, <2>1, <2>2, <2>3, <2>4
<1>6. refresh' \in BOOLEAN
  BY <1>1 DEF TypeInv, HostOK
<1> QED
  BY <1>1, <1>2, <1>5, <1>6 DEF RunStep, hostVars, TypeInv, HostOK

LEMMA ResetHostStep ==
  ASSUME TypeInv, NEW v \in Server, ResetHost(v)
  PROVE  RunStep
<1> DEFINE e == run.st
           new == IF e.ops > 0 THEN [e EXCEPT !.ops = @ - 1] ELSE Reported(e, e.resets)
<1>1. /\ Works(v, "reset") /\ Go(new) /\ UNCHANGED <<serverVars, tasks, hostVars, refresh>>
  BY DEF ResetHost
<1>2. run.st.at = "reset" /\ Len(tasks') \in Nat /\ Good(e, Len(tasks'))
  BY <1>1, QuietStep, WorksOnState DEF At
<1>3. e.fw # None /\ e.ops \in Nat /\ e.resets \in 0 .. MaxResets /\ e \in StateRec
  BY <1>2 DEF Good, StateRec
<1>4. Good(new, Len(tasks')) /\ new.at \in {"reset", "reported"} /\ new.rc = run.st.rc
  <2>1. CASE e.ops > 0
    <3>1. PICK o \in Nat : o = e.ops - 1
      BY <1>3, <2>1
    <3>2. LET s == [e EXCEPT !.ops = o] IN Good(s, Len(tasks')) /\ s.at = e.at /\ s.rc = e.rc
      BY <1>2, OpsGood
    <3>3. new = [e EXCEPT !.ops = o]
      BY <2>1, <3>1
    <3> QED
      BY <1>2, <3>2, <3>3
  <2>2. CASE ~(e.ops > 0)
    <3>1. PICK r \in 0 .. MaxResets : r = e.resets
      BY <1>3
    <3>2. Good(Reported(e, r), Len(tasks')) /\ Reported(e, r).at = "reported"
          /\ Reported(e, r).rc = e.rc
      BY <1>2, <1>3, ReportedGood
    <3> QED
      BY <2>2, <3>1, <3>2
  <2> QED
    BY <2>1, <2>2
<1> HIDE DEF new
<1>5. RunEnds
  BY <1>1, <1>4, WorkOutcome, GoEnds DEF At
<1> QED
  BY <1>1, <1>5, QuietStep DEF RunStep

LEMMA WaitForReportStep ==
  ASSUME TypeInv, NEW v \in Server, WaitForReport(v)
  PROVE  RunStep
<1> DEFINE e == run.st
<1>1. /\ Works(v, "reported") /\ UNCHANGED <<serverVars, tasks, hostVars, refresh>>
      /\ \/ Go(Recheck(e.fw, e.num, e.rc))
         \/ e.resets < MaxResets /\ Go(Reported(e, e.resets + 1))
         \/ Go(State("failed", e.rc))
  BY DEF WaitForReport
<1>2. run.st.at = "reported" /\ Len(tasks') \in Nat /\ Good(e, Len(tasks'))
  BY <1>1, QuietStep, WorksOnState DEF At
<1>3. e.fw # None /\ e.rc \in Nat /\ e.resets \in 0 .. MaxResets /\ MaxResets \in Nat
  BY <1>2, HostFirmwareAssumption DEF Good, StateRec
<1>4. RunEnds
  <2>1. CASE Go(Recheck(e.fw, e.num, e.rc))
    <3> DEFINE new == Recheck(e.fw, e.num, e.rc)
    <3>1. Good(new, Len(tasks')) /\ new.at = "rechecking" /\ new.rc = run.st.rc
      BY <1>2, RecheckSame
    <3>2. Go(new)
      BY <2>1
    <3> HIDE DEF new
    <3> QED
      BY <1>1, <3>1, <3>2, WorkOutcome, GoEnds DEF At
  <2>2. CASE e.resets < MaxResets /\ Go(Reported(e, e.resets + 1))
    <3>1. PICK r \in 0 .. MaxResets : r = e.resets + 1
      BY <1>3, <2>2
    <3> DEFINE new == Reported(e, r)
    <3>2. Good(new, Len(tasks')) /\ new.at = "reported" /\ new.rc = run.st.rc
      BY <1>2, <1>3, ReportedGood
    <3>3. Go(new)
      BY <2>2, <3>1
    <3> HIDE DEF new
    <3> QED
      BY <1>1, <3>2, <3>3, WorkOutcome, GoEnds DEF At
  <2>3. CASE Go(State("failed", e.rc))
    <3> DEFINE new == State("failed", e.rc)
    <3>1. Good(new, Len(tasks')) /\ new.at = "failed" /\ new.rc = run.st.rc
      BY <1>2, <1>3, StateGood DEF At
    <3>2. Go(new)
      BY <2>3
    <3> HIDE DEF new
    <3> QED
      BY <1>1, <3>1, <3>2, WorkOutcome, GoEnds DEF At
  <2> QED
    BY <1>1, <2>1, <2>2, <2>3
<1> QED
  BY <1>1, <1>4, QuietStep DEF RunStep

LEMMA WaitForScoutStep ==
  ASSUME TypeInv, NEW v \in Server, WaitForScout(v)
  PROVE  RunStep
<1> DEFINE e == run.st
<1>1. /\ Works(v, "scout") /\ UNCHANGED <<serverVars, tasks, hostVars, refresh>>
      /\ Go(ResetFor(e, 0, 0)) \/ Go(State("failed", e.rc))
  BY DEF WaitForScout
<1>2. run.st.at = "scout" /\ Len(tasks') \in Nat /\ Good(e, Len(tasks'))
  BY <1>1, QuietStep, WorksOnState DEF At
<1>3. e.fw # None /\ e.rc \in Nat /\ 0 < Artifacts[e.fw]
  BY <1>2, HostFirmwareAssumption DEF Good, StateRec
<1>4. RunEnds
  <2>1. CASE Go(ResetFor(e, 0, 0))
    <3>1. PICK num \in Nat : num = 0
      OBVIOUS
    <3> DEFINE new == ResetFor(e, num, 0)
    <3>2. Good(new, Len(tasks')) /\ new.at = "reset" /\ new.rc = run.st.rc
      BY <1>2, <1>3, <3>1, ResetForGood
    <3>3. Go(new)
      BY <2>1, <3>1
    <3> HIDE DEF new
    <3> QED
      BY <1>1, <3>2, <3>3, WorkOutcome, GoEnds DEF At
  <2>2. CASE Go(State("failed", e.rc))
    <3> DEFINE new == State("failed", e.rc)
    <3>1. Good(new, Len(tasks')) /\ new.at = "failed" /\ new.rc = run.st.rc
      BY <1>2, <1>3, StateGood DEF At
    <3>2. Go(new)
      BY <2>2
    <3> HIDE DEF new
    <3> QED
      BY <1>1, <3>1, <3>2, WorkOutcome, GoEnds DEF At
  <2> QED
    BY <1>1, <2>1, <2>2
<1> QED
  BY <1>1, <1>4, QuietStep DEF RunStep

LEMMA RetryStep ==
  ASSUME TypeInv, NEW v \in Server, Retry(v)
  PROVE  RunStep
<1>1. /\ Works(v, "failed") /\ UNCHANGED <<serverVars, tasks, hostVars, refresh>>
      /\ \/ Go(State("rack", 1))
         \/ run.st.rc < MaxRetries /\ Go(Check(None, 0, run.st.rc + 1))
  BY DEF Retry
<1>2. run.st.at = "failed" /\ run.by # None /\ Len(tasks') \in Nat
  BY <1>1, QuietStep, WorksOnState DEF At
<1>3. run.st.rc \in Nat /\ MaxRetries \in Nat
  BY HostFirmwareAssumption DEF TypeInv, RunOK, Good, StateRec
<1>4. RunEnds
  <2>1. CASE Go(State("rack", 1))
    <3>1. Good(State("rack", 1), Len(tasks')) /\ State("rack", 1).at = "rack"
      BY <1>2, StateGood DEF At
    <3> QED
      BY <1>2, <2>1, <3>1, PlainOutcome, GoEnds
  <2>2. CASE run.st.rc < MaxRetries /\ Go(Check(None, 0, run.st.rc + 1))
    <3> DEFINE new == Check(None, 0, run.st.rc + 1)
    <3>1. Good(new, Len(tasks')) /\ new.at = "checking" /\ new.rc = run.st.rc + 1
      BY <1>2, <1>3, FromTheStart
    <3>2. Go(new)
      BY <2>2
    <3> HIDE DEF new
    <3>3. run.st.rc <= new.rc /\ new.rc <= MaxRetries
      BY <1>3, <2>2, <3>1
    <3>4. Outcome(new, FALSE)
      BY <1>2, <3>1, <3>3 DEF Outcome
    <3> QED
      BY <1>2, <3>2, <3>4, GoEnds
  <2> QED
    BY <1>1, <2>1, <2>2
<1> QED
  BY <1>1, <1>4, QuietStep DEF RunStep

LEMMA WaitStep ==
  ASSUME TypeInv, NEW v \in Server, Wait(v) \/ RunFails(v)
  PROVE  RunStep
<1>1. /\ run.by = v /\ GiveUp /\ (Fault \/ UNCHANGED faults)
      /\ UNCHANGED <<serverVars, tasks, hostVars, refresh>>
  BY DEF Wait, Works, RunFails
<1>2. run.by # None
  BY <1>1, HostFirmwareAssumption
<1> QED
  BY <1>1, <1>2, GiveUpEnds, QuietStep DEF RunStep

\* The steps of the handler, and the steps of a run that the fairness leaves out.
LEMMA HandlerStep ==
  ASSUME TypeInv, NEW v \in Server,
         Handle(v) \/ RunFails(v) \/ MissingArtifact(v) \/ Defer(v) \/ CannotLock(v)
  PROVE  RunStep
  BY RackSteps, CheckFirstStep, StartScoutStep, StartScriptStep, StartResetStep,
     InitiateUpdateStep, FinishCheckStep, NoFirmwareInfoStep, DeferStep, WaitForManualStep, WaitForScriptStep,
     InitialResetStep, WaitForUploadStep, WaitForTaskStep, ResetHostStep, WaitForReportStep,
     WaitForScoutStep, RetryStep, WaitStep
  DEF Handle

(***************************************************************************)
(* The type invariant.                                                     *)
(***************************************************************************)
LEMMA NoRunOK ==
  ASSUME NEW n \in Nat
  PROVE  /\ NoRun \in RunRec /\ Good(NoRun.st, n)
         /\ NoRun.by = None /\ NoRun.st = Ready /\ NoRun.req = NoRequest
         /\ NoRequest \in RequestRec /\ NoRequest.done = None
         /\ ~NoRequest.on /\ ~NoRequest.rack /\ ~NoRequest.reset
<1>1. Good(Ready, n) /\ Ready \in StateRec
  BY ReadyGood DEF Good
<1>2. /\ NoRequest \in RequestRec /\ NoRequest.done = None
      /\ ~NoRequest.on /\ ~NoRequest.rack /\ ~NoRequest.reset
  BY DEF NoRequest, RequestRec
<1>3. NoRun \in RunRec /\ NoRun.st = Ready /\ NoRun.req = NoRequest /\ NoRun.by = None
  BY <1>1, <1>2 DEF NoRun, RunRec
<1> QED
  BY <1>1, <1>2, <1>3

LEMMA StoredType ==
  ASSUME TypeInv, NEW new, NEW clear \in BOOLEAN, Stored(new, clear), Outcome(new, clear),
         Closes(clear), manual' \in BOOLEAN, Good(st, Len(tasks'))
  PROVE  MachineOK'
<1>1. Good(st', Len(tasks'))
  BY DEF Stored, Outcome
<1>2. req' \in RequestRec /\ (req'.done # None => req'.rack)
  <2>1. req \in RequestRec /\ (req.done # None => req.rack)
    BY DEF TypeInv, MachineOK
  <2>2. NoRequest \in RequestRec /\ NoRequest.done = None
    BY NoRunOK
  <2>3. [req EXCEPT !.reset = FALSE] \in RequestRec
        /\ [req EXCEPT !.reset = FALSE].done = req.done
        /\ [req EXCEPT !.reset = FALSE].rack = req.rack
    BY <2>1 DEF RequestRec
  <2>4. req' \in {NoRequest, [req EXCEPT !.reset = FALSE], req}
    BY DEF Stored
  <2> QED
    BY <2>1, <2>2, <2>3, <2>4
<1>3. due' \in BOOLEAN
  BY DEF Stored, TypeInv, MachineOK
<1>4. retried' \in Nat
  BY DEF Stored, TypeInv, MachineOK
<1> QED
  BY <1>1, <1>2, <1>3, <1>4 DEF MachineOK, Closes

LEMMA RunStepType ==
  ASSUME TypeInv, RunStep
  PROVE  TypeInv'
<1>1. Appends
  BY DEF RunStep
<1>2. Len(tasks) \in Nat /\ Len(tasks') \in Nat /\ Len(tasks) <= Len(tasks')
  BY <1>1, AppendsFacts
<1>3. Good(st, Len(tasks'))
  BY <1>2, GoodMonotone DEF TypeInv, MachineOK
<1>4. MachineOK'
  <2>1. CASE UNCHANGED machineVars
    BY <1>3, <2>1 DEF TypeInv, MachineOK, machineVars
  <2>2. ASSUME NEW new \in StateRec, NEW clear \in BOOLEAN,
               Stored(new, clear), Outcome(new, clear), Closes(clear), manual' \in BOOLEAN
        PROVE  MachineOK'
    BY <1>3, <2>2, StoredType
  <2> QED
    BY <2>1, <2>2 DEF RunStep, RunEnds, RunStores
<1>5. RunOK'
  BY <1>2, NoRunOK DEF RunStep, RunEnds, RunOK
<1>6. ScoutOK'
  <2>1. scout' = scout /\ report' = report
    BY DEF RunStep, RunEnds
  <2>2. report # None => Good(report, Len(tasks'))
    BY <1>2, GoodMonotone DEF TypeInv, ScoutOK
  <2>3. scout.task # None => scout.task \in 1 .. Len(tasks')
    BY <1>2 DEF TypeInv, ScoutOK
  <2> QED
    BY <2>1, <2>2, <2>3 DEF TypeInv, ScoutOK
<1>7. UsersOK'
  BY DEF RunStep, RunEnds, TypeInv, UsersOK
<1>8. TasksOK' /\ HostOK' /\ ServersOK'
  BY <1>1, AppendsFacts DEF RunStep, TasksOK, HostOK, ReportOK, TypeInv
<1> QED
  BY <1>4, <1>5, <1>6, <1>7, <1>8 DEF TypeInv

\* Steps that change tasks keep their number.
LEMMA SameTasks ==
  ASSUME TypeInv, tasks' \in Seq(TaskRec), Len(tasks') = Len(tasks),
         UNCHANGED machineVars, run' = run \/ run' = NoRun,
         ServersOK', ReportOK', lockdown' = lockdown, refresh' \in BOOLEAN,
         ScoutOK', UNCHANGED userVars, Fault \/ UNCHANGED faults
  PROVE  TypeInv'
<1>1. MachineOK'
  BY DEF TypeInv, MachineOK, machineVars
<1>2. RunOK'
  <2>1. Len(tasks') \in Nat
    OBVIOUS
  <2>2. CASE run' = run
    BY <2>2 DEF TypeInv, RunOK
  <2>3. CASE run' = NoRun
    BY <2>1, <2>3, NoRunOK DEF RunOK
  <2> QED
    BY <2>2, <2>3
<1>3. UsersOK'
  BY FaultType DEF TypeInv, UsersOK, userVars
<1>4. HostOK' /\ TasksOK'
  BY DEF TypeInv, HostOK, TasksOK
<1> QED
  BY <1>1, <1>2, <1>3, <1>4 DEF TypeInv

LEMMA EndsType ==
  ASSUME TypeInv, NEW i \in DOMAIN tasks,
         NEW state \in {"running", "odd", "completed", "failed", "missing", "dead"}, Ends(i, state)
  PROVE  /\ tasks' \in Seq(TaskRec) /\ Len(tasks') = Len(tasks)
         /\ tasks'[i].state = state
         /\ \A j \in 1 .. Len(tasks) : j # i => tasks'[j] = tasks[j]
<1>1. tasks \in Seq(TaskRec)
  BY DEF TypeInv, TasksOK
<1>2. tasks[i] \in TaskRec
  BY <1>1
<1>3. [tasks[i] EXCEPT !.state = state] \in TaskRec
      /\ [tasks[i] EXCEPT !.state = state].state = state
  BY <1>2 DEF TaskRec
<1> DEFINE t == [tasks[i] EXCEPT !.state = state]
<1>4. tasks' = [tasks EXCEPT ![i] = t]
  BY DEF Ends
<1> HIDE DEF t
<1>5. t \in TaskRec /\ t.state = state
  BY <1>3 DEF t
<1> QED
  BY <1>1, <1>4, <1>5

LEMMA ProgressType ==
  ASSUME TypeInv, NEW i \in DOMAIN tasks, Progress(i)
  PROVE  TypeInv'
<1>0. /\ tasks' \in Seq(TaskRec) /\ Len(tasks') = Len(tasks)
      /\ i \in 1 .. Len(tasks)
  BY EndsType DEF Progress, UploadEnds, TaskEnds, ScriptEnds, TypeInv, TasksOK
<1>1. ServersOK'
  <2>1. /\ up \in [Server -> UploadRec(Len(tasks'))]
        /\ script \in [Server -> BOOLEAN \cup {None}]
        /\ \A w \in Server : up[w].is = "done" => up[w].task # None
    BY <1>0 DEF TypeInv, ServersOK
  <2>2. CASE UploadEnds(i)
    <3>1. PICK u \in UploadRec(Len(tasks')) :
            up' = [up EXCEPT ![tasks[i].by] = u] /\ (u.is = "done" => u.task # None)
      <4>1. /\ [is |-> "done", task |-> i] \in UploadRec(Len(tasks'))
            /\ [is |-> "failed", task |-> None] \in UploadRec(Len(tasks'))
            /\ i # None
        BY <1>0, HostFirmwareAssumption DEF UploadRec
      <4> QED
        BY <2>2, <4>1 DEF UploadEnds
    <3>2. /\ up' \in [Server -> UploadRec(Len(tasks'))]
          /\ \A w \in Server : up'[w].is = "done" => up'[w].task # None
      BY <2>1, <3>1
    <3>3. script' = script
      BY <2>2 DEF UploadEnds
    <3> QED
      BY <2>1, <3>2, <3>3 DEF ServersOK
  <2>3. CASE TaskEnds(i)
    BY <2>1, <2>3 DEF TaskEnds, serverVars, ServersOK
  <2>4. CASE ScriptEnds(i)
    <3>1. up' = up /\ script' \in [Server -> BOOLEAN \cup {None}]
      BY <2>1, <2>4 DEF ScriptEnds
    <3> QED
      BY <2>1, <3>1 DEF ServersOK
  <2> QED
    BY <2>2, <2>3, <2>4 DEF Progress
<1>2. /\ UNCHANGED machineVars /\ run' = run /\ UNCHANGED <<listed, seen>> /\ lockdown' = lockdown
      /\ refresh' = refresh /\ scout' = scout /\ report' = report /\ UNCHANGED userVars
      /\ Fault \/ UNCHANGED faults
  BY DEF Progress, UploadEnds, TaskEnds, ScriptEnds, Installs, hostVars, scoutVars, serverVars
<1>3. ScoutOK'
  BY <1>0, <1>2 DEF TypeInv, ScoutOK
<1>4. ReportOK' /\ refresh' \in BOOLEAN
  BY <1>2 DEF TypeInv, HostOK, ReportOK
<1> QED
  BY <1>0, <1>1, <1>2, <1>3, <1>4, SameTasks

LEMMA CrashTasks ==
  ASSUME TypeInv, NEW v \in Server, Crash(v)
  PROVE  /\ tasks' \in Seq(TaskRec) /\ Len(tasks') = Len(tasks)
         /\ \A i \in 1 .. Len(tasks) :
              tasks'[i] = tasks[i] \/ tasks[i].state \in {"uploading", "script"}
<1> DEFINE Dead(i) == tasks[i].by = v /\ tasks[i].state \in {"uploading", "script"}
           t(i) == IF Dead(i) THEN [tasks[i] EXCEPT !.state = "dead"] ELSE tasks[i]
<1>1. tasks \in Seq(TaskRec) /\ DOMAIN tasks = 1 .. Len(tasks) /\ Len(tasks) \in Nat
  BY DEF TypeInv, TasksOK
<1>2. tasks' = [i \in 1 .. Len(tasks) |-> t(i)]
  BY <1>1 DEF Crash
<1>3. ASSUME NEW i \in 1 .. Len(tasks)
      PROVE  t(i) \in TaskRec /\ (t(i) = tasks[i] \/ tasks[i].state \in {"uploading", "script"})
  <2>1. tasks[i] \in TaskRec
    BY <1>1
  <2> QED
    BY <2>1 DEF TaskRec
<1> HIDE DEF t
<1>4. tasks' \in [1 .. Len(tasks) -> TaskRec]
  BY <1>2, <1>3
<1>5. tasks' \in Seq(TaskRec) /\ Len(tasks') = Len(tasks)
  BY <1>1, <1>4
<1> QED
  BY <1>2, <1>3, <1>5

LEMMA CrashType ==
  ASSUME TypeInv, NEW v \in Server, Crash(v)
  PROVE  TypeInv'
<1>1. tasks' \in Seq(TaskRec) /\ Len(tasks') = Len(tasks)
  BY CrashTasks
<1>2. ServersOK'
  <2>1. /\ up \in [Server -> UploadRec(Len(tasks'))]
        /\ \A w \in Server : up[w].is = "done" => up[w].task # None
        /\ script \in [Server -> BOOLEAN \cup {None}]
    BY <1>1 DEF TypeInv, ServersOK
  <2>2. NoUpload \in UploadRec(Len(tasks')) /\ NoUpload.is # "done"
    BY DEF NoUpload, UploadRec
  <2>3. up' = [up EXCEPT ![v] = NoUpload] /\ script' = [script EXCEPT ![v] = None]
    BY DEF Crash
  <2>4. /\ up' \in [Server -> UploadRec(Len(tasks'))]
        /\ \A w \in Server : up'[w].is = "done" => up'[w].task # None
    BY <2>1, <2>2, <2>3
  <2>5. script' \in [Server -> BOOLEAN \cup {None}]
    BY <2>1, <2>3
  <2> QED
    BY <2>4, <2>5 DEF ServersOK
<1>3. /\ UNCHANGED machineVars /\ UNCHANGED <<listed, seen>> /\ lockdown' = lockdown
      /\ refresh' = refresh /\ scout' = scout /\ report' = report /\ UNCHANGED userVars
      /\ run' = run \/ run' = NoRun
      /\ Fault
  BY DEF Crash, hostVars, scoutVars
<1>4. ScoutOK'
  BY <1>1, <1>3 DEF TypeInv, ScoutOK
<1>5. ReportOK' /\ refresh' \in BOOLEAN
  BY <1>3 DEF TypeInv, HostOK, ReportOK
<1> QED
  BY <1>1, <1>2, <1>3, <1>4, <1>5, SameTasks

LEMMA ExploreType ==
  ASSUME TypeInv, Explore
  PROVE  TypeInv'
<1>1. /\ tasks' = tasks /\ UNCHANGED machineVars /\ run' = run /\ UNCHANGED serverVars
      /\ \/ listed' \in Reports \cup {listed} /\ seen' = Installed \cap listed'
         \/ UNCHANGED <<listed, seen>>
      /\ refresh' \in BOOLEAN /\ lockdown' = lockdown
      /\ scout' = scout /\ report' = report /\ UNCHANGED userVars /\ (Fault \/ UNCHANGED faults)
  BY DEF Explore, scoutVars
<1>2. ReportOK'
  BY <1>1 DEF TypeInv, HostOK, ReportOK, Installed
<1>3. ServersOK' /\ ScoutOK'
  BY <1>1 DEF TypeInv, ServersOK, ScoutOK, serverVars
<1>4. tasks' \in Seq(TaskRec) /\ Len(tasks') = Len(tasks)
  BY <1>1 DEF TypeInv, TasksOK
<1> QED
  BY <1>1, <1>2, <1>3, <1>4, SameTasks

LEMMA UnlockType ==
  ASSUME TypeInv, UnlockHost
  PROVE  TypeInv'
<1>1. MachineOK' /\ RunOK' /\ ServersOK' /\ TasksOK'
  BY DEF UnlockHost, machineVars, serverVars, TypeInv, MachineOK, RunOK, ServersOK, TasksOK
<1>2. HostOK' /\ ScoutOK' /\ UsersOK'
  BY DEF UnlockHost, scoutVars, userVars, TypeInv, HostOK, ReportOK, ScoutOK, UsersOK
<1> QED
  BY <1>1, <1>2 DEF TypeInv

IdleOK == Idle.task = None /\ Idle.result = None
          /\ Idle \in [task : Nat \cup {None}, result : BOOLEAN \cup {None}]

LEMMA IdleType == IdleOK
  BY DEF Idle, IdleOK

LEMMA RunScoutTasks ==
  ASSUME TypeInv, RunScout
  PROVE  /\ scout.task \in 1 .. Len(tasks) /\ scout.result = None
         /\ tasks' \in Seq(TaskRec) /\ Len(tasks') = Len(tasks)
         /\ \A j \in 1 .. Len(tasks) : j # scout.task => tasks'[j] = tasks[j]
         /\ scout' \in [task : Nat \cup {None}, result : BOOLEAN \cup {None}]
         /\ scout'.task = scout.task /\ scout'.result \in BOOLEAN
         /\ scout'.result = TRUE => tasks'[scout.task].state = "completed"
         /\ scout'.result = FALSE => tasks'[scout.task].state = "failed"
<1>1. scout.task \in 1 .. Len(tasks) /\ scout.result = None
  BY DEF RunScout, TypeInv, ScoutOK
<1>2. scout.task \in DOMAIN tasks
  BY <1>1 DEF TypeInv, TasksOK
<1>3. scout \in [task : Nat \cup {None}, result : BOOLEAN \cup {None}]
  BY DEF TypeInv, ScoutOK
<1>4. CASE scout' = [scout EXCEPT !.result = TRUE] /\ Ends(scout.task, "completed")
  <2>1. /\ scout' \in [task : Nat \cup {None}, result : BOOLEAN \cup {None}]
        /\ scout'.task = scout.task /\ scout'.result = TRUE
    BY <1>3, <1>4
  <2> QED
    BY <1>1, <1>2, <1>4, <2>1, EndsType
<1>5. CASE scout' = [scout EXCEPT !.result = FALSE] /\ Ends(scout.task, "failed")
  <2>1. /\ scout' \in [task : Nat \cup {None}, result : BOOLEAN \cup {None}]
        /\ scout'.task = scout.task /\ scout'.result = FALSE
    BY <1>3, <1>5
  <2> QED
    BY <1>1, <1>2, <1>5, <2>1, EndsType
<1> QED
  BY <1>4, <1>5 DEF RunScout

LEMMA ReportScoutFacts ==
  ASSUME TypeInv, ReportScout
  PROVE  /\ scout.result # None
         /\ \/ /\ scout' = scout /\ st.at = "scout" /\ st.task = scout.task
               /\ report' # None => /\ Good(report', Len(tasks)) /\ report'.at = "scout"
                                    /\ report'.task = scout.task
                                    /\ report'.result = scout.result
            \/ scout' = Idle /\ report' = None
<1>1. CASE /\ st.at = "scout" /\ st.task = scout.task
           /\ report' = [st EXCEPT !.result = scout.result] /\ scout' = scout
  <2>1. PICK n \in Nat, b \in BOOLEAN \cup {None} : n = Len(tasks) /\ b = scout.result
    BY DEF TypeInv, TasksOK, ScoutOK
  <2>2. Good(st, n)
    BY <2>1 DEF TypeInv, MachineOK
  <2>3. LET s == [st EXCEPT !.result = b]
        IN  Good(s, n) /\ s.at = st.at /\ s.task = st.task /\ s.result = b
    BY <2>2, ResultGood
  <2> QED
    BY <1>1, <2>1, <2>3 DEF ReportScout
<1>2. CASE report' = None /\ scout' = Idle
  BY <1>2 DEF ReportScout
<1> QED
  BY <1>1, <1>2 DEF ReportScout

LEMMA ScoutType ==
  ASSUME TypeInv, Scout
  PROVE  TypeInv'
<1> USE IdleType DEF IdleOK
<1>0. tasks \in Seq(TaskRec) /\ Len(tasks) \in Nat
  BY DEF TypeInv, TasksOK
<1>1. CASE PollScout
  <2>1. /\ tasks' = tasks /\ UNCHANGED machineVars /\ run' = run /\ UNCHANGED serverVars
        /\ UNCHANGED <<listed, seen>> /\ refresh' = refresh /\ lockdown' = lockdown
        /\ report' = report /\ UNCHANGED userVars /\ UNCHANGED faults
        /\ scout' = [task |-> st.task, result |-> None] /\ st.at = "scout"
    BY <1>1 DEF PollScout, hostVars
  <2>2. st.task \in 1 .. Len(tasks)
    BY <2>1 DEF TypeInv, MachineOK, Good
  <2>3. /\ scout' \in [task : Nat \cup {None}, result : BOOLEAN \cup {None}]
        /\ scout'.task = st.task /\ scout'.result = None
    BY <1>0, <2>1, <2>2
  <2>4. ScoutOK' /\ ServersOK' /\ ReportOK' /\ refresh' \in BOOLEAN
    BY <2>1, <2>2, <2>3 DEF TypeInv, ScoutOK, ServersOK, HostOK, ReportOK, serverVars
  <2> QED
    BY <1>0, <2>1, <2>4, SameTasks
<1>2. CASE RunScout
  <2>1. /\ UNCHANGED machineVars /\ run' = run /\ UNCHANGED serverVars
        /\ UNCHANGED <<listed, seen>> /\ refresh' = refresh /\ lockdown' = lockdown
        /\ report' = report /\ UNCHANGED userVars /\ (Fault \/ UNCHANGED faults)
    BY <1>2 DEF RunScout, Installs
  <2>2. tasks' \in Seq(TaskRec) /\ Len(tasks') = Len(tasks)
    BY <1>2, RunScoutTasks
  <2>3. /\ scout' \in [task : Nat \cup {None}, result : BOOLEAN \cup {None}]
        /\ scout'.task \in 1 .. Len(tasks) /\ scout'.task # None
    BY <1>2, RunScoutTasks, HostFirmwareAssumption
  <2>4. ScoutOK'
    BY <2>1, <2>2, <2>3 DEF TypeInv, ScoutOK
  <2>5. ServersOK' /\ ReportOK' /\ refresh' \in BOOLEAN
    BY <2>1, <2>2 DEF TypeInv, ServersOK, HostOK, ReportOK, serverVars
  <2> QED
    BY <2>1, <2>2, <2>4, <2>5, SameTasks
<1>3. CASE ReportScout \/ LoseReport
  <2>1. /\ tasks' = tasks /\ UNCHANGED machineVars /\ run' = run /\ UNCHANGED serverVars
        /\ UNCHANGED <<listed, seen>> /\ refresh' = refresh /\ lockdown' = lockdown
        /\ UNCHANGED userVars /\ (Fault \/ UNCHANGED faults)
    BY <1>3 DEF ReportScout, LoseReport, hostVars
  <2>2. \/ scout' = scout /\ (report' # None => Good(report', Len(tasks)))
        \/ scout' = Idle /\ report' = None
    BY <1>3, ReportScoutFacts DEF LoseReport
  <2>3. ScoutOK'
    BY <2>1, <2>2 DEF TypeInv, ScoutOK
  <2>4. ServersOK' /\ ReportOK' /\ refresh' \in BOOLEAN
    BY <2>1 DEF TypeInv, ServersOK, HostOK, ReportOK, serverVars
  <2> QED
    BY <1>0, <2>1, <2>3, <2>4, SameTasks
<1>4. CASE StoreReport
  <2>1. /\ tasks' = tasks /\ run' = run /\ up' = up /\ script' = script
        /\ UNCHANGED <<listed, seen>>
        /\ refresh' = refresh /\ lockdown' = lockdown
        /\ rackError' = rackError /\ deleting' = deleting /\ requests' = requests
        /\ faults' = faults /\ req' = req /\ manual' = manual /\ due' = due
        /\ retried' = retried /\ cut' = cut /\ report' = None /\ scout' = Idle /\ st' \in {st, report}
        /\ report # None
    BY <1>4 DEF StoreReport, serverVars, hostVars, userVars
  <2>2. MachineOK'
    BY <2>1 DEF TypeInv, MachineOK, ScoutOK
  <2>3. ScoutOK'
    BY <2>1 DEF ScoutOK
  <2> QED
    BY <2>1, <2>2, <2>3 DEF TypeInv, RunOK, ServersOK, TasksOK, HostOK, ReportOK, UsersOK
<1> QED
  BY <1>1, <1>2, <1>3, <1>4 DEF Scout

\* Steps of users, of racks and of time change the machine and its request only.
LEMMA MachineStepType ==
  ASSUME TypeInv, UNCHANGED <<serverVars, tasks, hostVars, refresh, scoutVars, faults>>,
         MachineOK', RunOK', rackError' \in BOOLEAN, deleting' \in BOOLEAN,
         requests' \in 0 .. MaxRequests
  PROVE  TypeInv'
<1>1. ServersOK' /\ TasksOK'
  BY DEF TypeInv, ServersOK, TasksOK, serverVars
<1>2. HostOK' /\ UsersOK'
  BY DEF TypeInv, HostOK, ReportOK, UsersOK, hostVars
<1>3. ScoutOK'
  BY DEF TypeInv, ScoutOK, scoutVars
<1> QED
  BY <1>1, <1>2, <1>3 DEF TypeInv

LEMMA TimeType ==
  ASSUME TypeInv, LeaveHostInit \/ Tick \/ \E v \in Server : Load(v)
  PROVE  TypeInv'
<1>0. Len(tasks) \in Nat
  BY DEF TypeInv, TasksOK
<1>1. /\ UNCHANGED <<serverVars, tasks, hostVars, refresh, scoutVars, faults>>
      /\ UNCHANGED userVars /\ UNCHANGED <<req, manual, retried, cut>>
      /\ st' \in {st, Ready} /\ due' \in BOOLEAN
      /\ \/ run' = run
         \/ \E v \in Server : run' = [by |-> v, st |-> st, req |-> req, manual |-> manual]
  BY DEF LeaveHostInit, Tick, Load, machineVars, TypeInv, MachineOK
<1>2. rackError' \in BOOLEAN /\ deleting' \in BOOLEAN /\ requests' \in 0 .. MaxRequests
  BY <1>1 DEF TypeInv, UsersOK, userVars
<1>3. MachineOK'
  BY <1>0, <1>1, ReadyGood DEF TypeInv, MachineOK
<1>4. RunOK'
  <2>1. CASE run' = run
    BY <1>1, <2>1 DEF TypeInv, RunOK
  <2>2. ASSUME NEW v \in Server, run' = [by |-> v, st |-> st, req |-> req, manual |-> manual]
        PROVE  RunOK'
    <3>1. st \in StateRec /\ req \in RequestRec /\ manual \in BOOLEAN
      BY DEF TypeInv, MachineOK, Good
    <3>2. run' \in RunRec /\ run'.st = st /\ run'.req = req
      BY <2>2, <3>1 DEF RunRec
    <3> QED
      BY <1>1, <3>2 DEF TypeInv, MachineOK, RunOK
  <2> QED
    BY <1>1, <2>1, <2>2
<1> QED
  BY <1>1, <1>2, <1>3, <1>4, MachineStepType

LEMMA UsersType ==
  ASSUME TypeInv, Users
  PROVE  TypeInv'
<1>0. Len(tasks) \in Nat /\ requests \in 0 .. MaxRequests /\ MaxRequests \in Nat
  BY HostFirmwareAssumption DEF TypeInv, TasksOK, UsersOK
<1>1. /\ UNCHANGED <<serverVars, tasks, hostVars, refresh, scoutVars, faults>>
      /\ run' = run
  BY DEF Users, Trigger, RequestReset, ClearRequest, CompleteManual, EndRackUpgrade,
         ChangeRack, ForceDelete, RemoveMachine, otherVars
<1>2. requests' \in 0 .. MaxRequests
  <2>1. requests' = requests \/ (requests < MaxRequests /\ requests' = requests + 1)
    BY DEF Users, Trigger, RequestReset, ClearRequest, CompleteManual, EndRackUpgrade,
           ChangeRack, ForceDelete, RemoveMachine, userVars
  <2> QED
    BY <1>0, <2>1
<1>3. rackError' \in BOOLEAN /\ deleting' \in BOOLEAN
  BY DEF Users, Trigger, RequestReset, ClearRequest, CompleteManual, EndRackUpgrade,
         ChangeRack, ForceDelete, RemoveMachine, userVars, TypeInv, UsersOK
<1>4. st' \in {st, State("forcedeletion", 0), State("gone", 0)}
  BY DEF Users, Trigger, RequestReset, ClearRequest, CompleteManual, EndRackUpgrade,
         ChangeRack, ForceDelete, RemoveMachine, machineVars
<1>5. Good(st', Len(tasks'))
  BY <1>0, <1>1, <1>4, StateGood DEF TypeInv, MachineOK, At
<1>6. manual' \in BOOLEAN /\ due' \in BOOLEAN /\ retried' \in Nat /\ cut' \in BOOLEAN
  <2>1. /\ manual' \in {manual, TRUE} /\ due' = due /\ retried' \in {retried, 0}
        /\ cut' \in {cut, TRUE}
    BY DEF Users, Trigger, RequestReset, ClearRequest, CompleteManual, EndRackUpgrade,
           ChangeRack, ForceDelete, RemoveMachine, machineVars
  <2>2. manual \in BOOLEAN /\ due \in BOOLEAN /\ retried \in Nat /\ cut \in BOOLEAN
    BY DEF TypeInv, MachineOK
  <2>3. retried' \in Nat
    BY <2>1, <2>2
  <2>4. manual' \in BOOLEAN /\ due' \in BOOLEAN /\ cut' \in BOOLEAN
    BY <2>1, <2>2, Zenon
  <2> QED
    BY <2>3, <2>4
<1>7. req' \in RequestRec /\ (req'.done # None => req'.rack)
  <2>0. req \in RequestRec /\ (req.done # None => req.rack)
    BY DEF TypeInv, MachineOK
  <2>1. CASE Trigger
    <3>1. RackRequests \in BOOLEAN
      BY HostFirmwareAssumption
    <3>2. PICK r \in BOOLEAN : req' = [NoRequest EXCEPT !.on = TRUE, !.rack = r]
      BY <2>1, <3>1 DEF Trigger
    <3>3. NoRequest \in RequestRec /\ NoRequest.done = None
      BY <1>0, NoRunOK
    <3> QED
      BY <3>2, <3>3 DEF RequestRec
  <2>2. CASE RequestReset
    BY <2>0, <2>2 DEF RequestReset, RequestRec
  <2>3. CASE ClearRequest \/ RemoveMachine
    BY <1>0, <2>3, NoRunOK DEF ClearRequest, RemoveMachine
  <2>4. CASE EndRackUpgrade
    BY <2>0, <2>4 DEF EndRackUpgrade, RequestRec
  <2>5. CASE CompleteManual \/ ChangeRack \/ ForceDelete
    BY <2>0, <2>5 DEF CompleteManual, ChangeRack, ForceDelete, machineVars
  <2> QED
    BY <2>1, <2>2, <2>3, <2>4, <2>5 DEF Users
<1>8. MachineOK'
  BY <1>5, <1>6, <1>7 DEF MachineOK
<1>9. RunOK'
  BY <1>1 DEF TypeInv, RunOK
<1> QED
  BY <1>1, <1>2, <1>3, <1>8, <1>9, MachineStepType

\* What a step may be, once the runs of the handler are taken together.
StepCases ==
  \/ RunStep
  \/ \E v \in Server : Load(v) \/ Crash(v)
  \/ \E i \in DOMAIN tasks : Progress(i)
  \/ LeaveHostInit \/ Explore \/ Tick \/ Scout \/ Users \/ UnlockHost

LEMMA NextCases ==
  ASSUME TypeInv, Next
  PROVE  StepCases
  BY HandlerStep DEF Next, StepCases

LEMMA NextType ==
  ASSUME TypeInv, [Next]_vars
  PROVE  TypeInv'
<1>1. CASE Next
  BY <1>1, NextCases, RunStepType, CrashType, ProgressType, ExploreType, ScoutType, TimeType,
     UsersType, UnlockType DEF StepCases
<1>2. CASE UNCHANGED vars
  <2>1. MachineOK' /\ RunOK' /\ ServersOK' /\ TasksOK'
    BY <1>2 DEF vars, machineVars, serverVars, TypeInv, MachineOK, RunOK, ServersOK, TasksOK
  <2>2. HostOK' /\ ScoutOK' /\ UsersOK'
    BY <1>2 DEF vars, hostVars, scoutVars, userVars, TypeInv, HostOK, ReportOK, ScoutOK, UsersOK
  <2> QED
    BY <2>1, <2>2 DEF TypeInv
<1> QED
  BY <1>1, <1>2

LEMMA TypeInvariant == Spec => []TypeInv
  BY InitType, NextType, PTL DEF Spec

\* HostReprovisionState is well formed, whatever runs, reports, users and racks
\* store over each other: files are counted within their component, resets within
\* their budget, and a task that a state names was started.
THEOREM TypeCorrect == Spec => []TypeOK
  BY TypeInvariant, TypeInvImplies, PTL

(***************************************************************************)
(* Reports of scout.  A report is for the task that scout has, and what    *)
(* scout knows of that task is true; until it is done with it, no state    *)
(* has a result for it.                                                    *)
(***************************************************************************)
ReportFromScout ==
  report # None => /\ report.at = "scout" /\ report.task = scout.task
                   /\ report.result = scout.result /\ scout.result # None

ScoutKnows ==
  /\ scout.result = TRUE => tasks[scout.task].state = "completed"
  /\ scout.result = FALSE => tasks[scout.task].state = "failed"

NotYetReported ==
  scout.task # None /\ scout.result = None /\ st.at = "scout" /\ st.task = scout.task
    => st.result = None

ScoutInv == ReportFromScout /\ ScoutKnows /\ NotYetReported /\ ReportIsForItsTask

\* A task that has completed or failed stays so, unless scout reports on it.
Kept ==
  \A j \in 1 .. Len(tasks) :
    tasks[j].state \in {"completed", "failed"} => tasks'[j].state = tasks[j].state

LEMMA ProgressKeeps ==
  ASSUME TypeInv, NEW i \in DOMAIN tasks, Progress(i)
  PROVE  Kept
<1>1. tasks[i].state \in {"uploading", "running", "odd", "script"}
  BY DEF Progress, UploadEnds, TaskEnds, ScriptEnds
<1>2. \A j \in 1 .. Len(tasks) : j # i => tasks'[j] = tasks[j]
  BY EndsType DEF Progress, UploadEnds, TaskEnds, ScriptEnds
<1> QED
  BY <1>1, <1>2 DEF Kept

LEMMA KeptScoutInv ==
  ASSUME TypeInv, ScoutInv, Kept, UNCHANGED <<st, scout, report>>
  PROVE  ScoutInv'
<1>1. scout.result # None => scout.task \in 1 .. Len(tasks)
  BY DEF TypeInv, ScoutOK
<1>2. st.at = "scout" => st.task \in 1 .. Len(tasks)
  BY DEF TypeInv, MachineOK, Good
<1>3. ReportFromScout' /\ NotYetReported'
  BY DEF ScoutInv, ReportFromScout, NotYetReported
<1>4. ScoutKnows'
  BY <1>1, HostFirmwareAssumption DEF ScoutInv, ScoutKnows, Kept
<1>5. ReportIsForItsTask'
  BY <1>2 DEF ScoutInv, ReportIsForItsTask, Kept
<1> QED
  BY <1>3, <1>4, <1>5 DEF ScoutInv

LEMMA RunStepScout ==
  ASSUME TypeInv, ScoutInv, RunStep
  PROVE  ScoutInv'
<1>1. /\ Len(tasks) \in Nat /\ Len(tasks') \in Nat
      /\ \A i \in 1 .. Len(tasks) : tasks'[i] = tasks[i]
      /\ tasks' # tasks => Len(tasks') = Len(tasks) + 1
  BY AppendsFacts DEF RunStep
<1>2. Kept /\ UNCHANGED <<scout, report>>
  BY <1>1 DEF Kept, RunStep, RunEnds
<1>3. CASE st' = st
  BY <1>2, <1>3, KeptScoutInv
<1>4. CASE st'.at = "scout" => st'.result = None
  <2>1. ReportFromScout'
    BY <1>2 DEF ScoutInv, ReportFromScout
  <2>2. NotYetReported'
    BY <1>2, <1>4 DEF NotYetReported
  <2>3. ReportIsForItsTask'
    BY <1>4, HostFirmwareAssumption DEF ReportIsForItsTask
  <2>4. scout.result # None => scout.task \in 1 .. Len(tasks)
    BY DEF TypeInv, ScoutOK
  <2>5. ScoutKnows'
    BY <1>2, <2>4, HostFirmwareAssumption DEF ScoutInv, ScoutKnows, Kept
  <2> QED
    BY <2>1, <2>2, <2>3, <2>5 DEF ScoutInv
<1>5. st' = st \/ (st'.at = "scout" => st'.result = None)
  BY DEF RunStep, RunEnds, RunStores, machineVars, Stored, Outcome
<1> QED
  BY <1>3, <1>4, <1>5

LEMMA ScoutStepScout ==
  ASSUME TypeInv, ScoutInv, Scout
  PROVE  ScoutInv'
<1> USE IdleType DEF IdleOK
<1>n. None \notin BOOLEAN
  BY HostFirmwareAssumption
<1>1. CASE PollScout
  <2>1. /\ tasks' = tasks /\ st' = st /\ report' = report /\ scout = Idle
        /\ scout'.task = st.task /\ scout'.result = None /\ st.result = None
    BY <1>1 DEF PollScout, machineVars
  <2>2. report = None
    BY <2>1 DEF ScoutInv, ReportFromScout
  <2> QED
    BY <1>n, <2>1, <2>2
    DEF ScoutInv, ReportFromScout, ScoutKnows, NotYetReported, ReportIsForItsTask
<1>2. CASE RunScout
  <2>1. st' = st /\ report' = report
    BY <1>2 DEF RunScout, machineVars
  <2>2. report = None
    BY <1>2, RunScoutTasks DEF ScoutInv, ReportFromScout
  <2>3. ReportFromScout' /\ NotYetReported' /\ ScoutKnows'
    BY <1>2, <1>n, <2>1, <2>2, RunScoutTasks DEF ReportFromScout, NotYetReported, ScoutKnows
  <2>4. ReportIsForItsTask'
    <3>1. st.at = "scout" => st.task \in 1 .. Len(tasks) /\ st.task # None
      BY DEF TypeInv, MachineOK, Good
    <3>2. st.at = "scout" /\ st.task = scout.task => st.result = None
      BY <1>2, <3>1, RunScoutTasks DEF ScoutInv, NotYetReported
    <3> QED
      BY <1>2, <1>n, <2>1, <3>1, <3>2, RunScoutTasks DEF ScoutInv, ReportIsForItsTask
  <2> QED
    BY <2>3, <2>4 DEF ScoutInv
<1>3. CASE ReportScout
  <2>1. st' = st /\ tasks' = tasks
    BY <1>3 DEF ReportScout, machineVars
  <2>2. ReportFromScout'
    BY <1>3, ReportScoutFacts DEF ReportFromScout
  <2>3. ScoutKnows' /\ NotYetReported'
    BY <1>3, <1>n, <2>1, ReportScoutFacts DEF ScoutInv, ScoutKnows, NotYetReported
  <2> QED
    BY <2>1, <2>2, <2>3 DEF ScoutInv, ReportIsForItsTask
<1>4. CASE LoseReport
  <2>1. st' = st /\ tasks' = tasks /\ report' = None /\ scout' = Idle
    BY <1>4 DEF LoseReport, machineVars
  <2> QED
    BY <1>n, <2>1 DEF ScoutInv, ReportFromScout, ScoutKnows, NotYetReported, ReportIsForItsTask
<1>5. CASE StoreReport
  <2>1. st' \in {st, report} /\ report # None /\ tasks' = tasks /\ report' = None /\ scout' = Idle
    BY <1>5 DEF StoreReport
  <2>2. ReportIsForItsTask'
    BY <2>1 DEF ScoutInv, ReportFromScout, ScoutKnows, ReportIsForItsTask
  <2> QED
    BY <1>n, <2>1, <2>2 DEF ScoutInv, ReportFromScout, ScoutKnows, NotYetReported
<1> QED
  BY <1>1, <1>2, <1>3, <1>4, <1>5 DEF Scout

LEMMA NextScout ==
  ASSUME TypeInv, ScoutInv, [Next]_vars
  PROVE  ScoutInv'
<1>1. CASE RunStep
  BY <1>1, RunStepScout
<1>2. CASE \E i \in DOMAIN tasks : Progress(i)
  <2>1. Kept
    BY <1>2, ProgressKeeps
  <2>2. UNCHANGED <<st, scout, report>>
    BY <1>2 DEF Progress, UploadEnds, TaskEnds, ScriptEnds, machineVars, scoutVars
  <2> QED
    BY <2>1, <2>2, KeptScoutInv
<1>3. CASE \E v \in Server : Crash(v)
  <2>1. Kept
    BY <1>3, CrashTasks DEF Kept
  <2>2. UNCHANGED <<st, scout, report>>
    BY <1>3 DEF Crash, machineVars, scoutVars
  <2> QED
    BY <2>1, <2>2, KeptScoutInv
<1>4. CASE Explore \/ Tick \/ UnlockHost \/ (\E v \in Server : Load(v)) \/ UNCHANGED vars
  <2>1. tasks' = tasks /\ UNCHANGED <<st, scout, report>>
    BY <1>4 DEF Explore, Tick, UnlockHost, Load, vars, machineVars, scoutVars
  <2> QED
    BY <2>1, KeptScoutInv DEF Kept
<1>5. CASE Scout
  BY <1>5, ScoutStepScout
<1>6. CASE LeaveHostInit \/ Users
  <2>1. tasks' = tasks /\ UNCHANGED <<scout, report>>
    BY <1>6 DEF LeaveHostInit, Users, Trigger, RequestReset, ClearRequest, CompleteManual,
           EndRackUpgrade, ChangeRack, ForceDelete, RemoveMachine, otherVars, scoutVars
  <2>2. st' \in {st, Ready, State("forcedeletion", 0), State("gone", 0)}
    BY <1>6 DEF LeaveHostInit, Users, Trigger, RequestReset, ClearRequest, CompleteManual,
           EndRackUpgrade, ChangeRack, ForceDelete, RemoveMachine, machineVars
  <2>3. st' = st \/ st'.at # "scout"
    BY <2>2 DEF Ready, State
  <2> QED
    BY <2>1, <2>3 DEF ScoutInv, ReportFromScout, ScoutKnows, NotYetReported, ReportIsForItsTask
<1> QED
  BY <1>1, <1>2, <1>3, <1>4, <1>5, <1>6, NextCases DEF StepCases

LEMMA InitScout == Init => ScoutInv
<1> SUFFICES ASSUME Init PROVE ScoutInv
  OBVIOUS
<1>1. scout = Idle /\ report = None /\ st.at = "ready"
  BY DEF Init, Ready, State
<1> QED
  BY <1>1, IdleType, HostFirmwareAssumption
  DEF IdleOK, ScoutInv, ReportFromScout, ScoutKnows, NotYetReported, ReportIsForItsTask

LEMMA ScoutInvariant == Spec => []ScoutInv
  BY InitScout, NextScout, TypeInvariant, PTL DEF Spec

\* WaitingForScoutUpgrade never holds a result that scout did not reach for the
\* very task in the state, although report_scout_firmware_upgrade_status reads
\* the state and stores it later without a version.
THEOREM ReportsMatch == Spec => []ReportIsForItsTask
<1>1. ScoutInv => ReportIsForItsTask
  BY DEF ScoutInv
<1> QED
  BY <1>1, ScoutInvariant, PTL

(***************************************************************************)
(* The steps that leave the machine and its request alone, and the others. *)
(***************************************************************************)
OtherStep ==
  /\ UNCHANGED <<st, req, retried, cut, deleting>>
  /\ lockdown' = lockdown \/ deleting
  /\ run' = run \/ run' = NoRun \/ \E v \in Server : Load(v)
  /\ flashed \subseteq flashed' /\ seen' \subseteq seen \cup Installed

LEMMA StepKinds ==
  ASSUME TypeInv, [Next]_vars
  PROVE  RunStep \/ LeaveHostInit \/ StoreReport \/ Users \/ OtherStep
<1>1. CASE \E v \in Server : Load(v)
  BY <1>1 DEF Load, OtherStep, machineVars, hostVars, userVars
<1>2. CASE \E v \in Server : Crash(v)
  BY <1>2 DEF Crash, OtherStep, machineVars, hostVars, userVars
<1>3. CASE \E i \in DOMAIN tasks : Progress(i)
  <2>1. flashed \subseteq flashed'
    BY <1>3 DEF Progress, UploadEnds, TaskEnds, ScriptEnds, Installs, hostVars
  <2> QED
    BY <1>3, <2>1
    DEF Progress, UploadEnds, TaskEnds, ScriptEnds, OtherStep, machineVars, hostVars, userVars
<1>4. CASE Explore \/ Tick \/ UnlockHost \/ UNCHANGED vars
  BY <1>4 DEF Explore, Tick, UnlockHost, vars, OtherStep, machineVars, hostVars, userVars
<1>5. CASE PollScout \/ RunScout \/ ReportScout \/ LoseReport
  BY <1>5 DEF PollScout, RunScout, Installs, ReportScout, LoseReport, OtherStep, machineVars,
              hostVars, userVars
<1> QED
  BY <1>1, <1>2, <1>3, <1>4, <1>5, NextCases DEF StepCases, Scout

\* What a run may have done to the machine.
LEMMA RunStepCases ==
  ASSUME RunStep
  PROVE  \/ UNCHANGED machineVars
         \/ \E new \in StateRec, clear \in BOOLEAN :
              Stored(new, clear) /\ Outcome(new, clear) /\ Closes(clear)
  BY DEF RunStep, RunEnds, RunStores

(***************************************************************************)
(* A removed machine.                                                      *)
(***************************************************************************)
GoneInv == st.at = "gone" => deleting /\ ~req.on

LEMMA NextGone ==
  ASSUME TypeInv, ScoutInv, GoneInv, [Next]_vars
  PROVE  GoneInv' /\ (st.at = "gone" => st'.at = "gone" /\ ~req'.on)
<1>1. CASE RunStep
  <2>1. deleting' = deleting
    BY <1>1 DEF RunStep, RunEnds
  <2>2. CASE UNCHANGED machineVars
    BY <2>1, <2>2 DEF machineVars, GoneInv
  <2>3. ASSUME NEW new \in StateRec, NEW clear \in BOOLEAN,
               Stored(new, clear), Outcome(new, clear)
        PROVE  st.at # "gone" /\ st'.at # "gone"
    BY <2>3 DEF Stored, Outcome
  <2> QED
    BY <1>1, <2>2, <2>3, RunStepCases DEF GoneInv
<1>2. CASE LeaveHostInit
  BY <1>2, ReadyGood DEF LeaveHostInit, GoneInv, Ready, State
<1>3. CASE StoreReport
  BY <1>3 DEF StoreReport, ScoutInv, ReportFromScout, GoneInv, userVars
<1>4. CASE Users
  <2>1. NoRequest.on = FALSE
    BY DEF NoRequest
  <2>2. req \in RequestRec
    BY DEF TypeInv, MachineOK
  <2>3. CASE Trigger \/ ChangeRack \/ CompleteManual
    BY <2>3 DEF Trigger, ChangeRack, CompleteManual, machineVars, userVars, GoneInv
  <2>4. CASE RequestReset \/ ClearRequest
    BY <2>1, <2>4 DEF RequestReset, ClearRequest, userVars, GoneInv
  <2>5. CASE EndRackUpgrade
    BY <2>2, <2>5 DEF EndRackUpgrade, userVars, GoneInv, RequestRec
  <2>6. CASE ForceDelete
    BY <2>6 DEF ForceDelete, GoneInv, State
  <2>7. CASE RemoveMachine
    BY <2>1, <2>7 DEF RemoveMachine, GoneInv, State, userVars
  <2> QED
    BY <1>4, <2>3, <2>4, <2>5, <2>6, <2>7 DEF Users
<1>5. CASE OtherStep
  BY <1>5 DEF OtherStep, GoneInv
<1> QED
  BY <1>1, <1>2, <1>3, <1>4, <1>5, StepKinds

\* Neither a handler run nor a scout report that read the machine before it was
\* removed stores it again, although persist_controller_state compares no version.
THEOREM RemovedStaysRemoved == Spec => RemovedMachineIsGone
<1>1. Init => GoneInv
  BY DEF Init, GoneInv, Ready, State
<1>2. TypeInv /\ ScoutInv /\ GoneInv /\ [Next]_vars => GoneInv'
  BY NextGone
<1>3. TypeInv /\ ScoutInv /\ GoneInv /\ [Next]_vars
      => [st.at = "gone" => st'.at = "gone" /\ ~req'.on]_vars
  BY NextGone
<1> QED
  BY <1>1, <1>2, <1>3, TypeInvariant, ScoutInvariant, PTL DEF Spec, RemovedMachineIsGone

(***************************************************************************)
(* The upgrade is complete: site explorer reports what is installed, and   *)
(* files stay installed.                                                   *)
(***************************************************************************)
SeenInv == seen \subseteq Installed

LEMMA NothingPending ==
  ASSUME TypeInv, SeenInv, Pending = {}
  PROVE  listed = NoInfo \/ listed \subseteq Installed
<1>1. \A i \in 1 .. Len(Ordering) : Ordering[i] \notin listed \ seen
  BY DEF Pending
<1>2. listed = NoInfo \/ listed \subseteq Component
  BY HostFirmwareAssumption DEF TypeInv, HostOK, ReportOK
<1>3. CASE listed \subseteq Component
  <2>1. \A c \in Component : c \notin listed \ seen
    BY <1>1 DEF Component
  <2> QED
    BY <1>3, <2>1 DEF SeenInv
<1> QED
  BY <1>2, <1>3

LEMMA NextSeen ==
  ASSUME TypeInv, SeenInv, [Next]_vars
  PROVE  SeenInv'
<1>1. CASE RunStep
  BY <1>1 DEF RunStep, SeenInv, Installed
<1>2. CASE LeaveHostInit \/ StoreReport
  BY <1>2 DEF LeaveHostInit, StoreReport, SeenInv, Installed, hostVars
<1>3. CASE Users
  BY <1>3 DEF Users, Trigger, RequestReset, ClearRequest, CompleteManual, EndRackUpgrade,
              ChangeRack, ForceDelete, RemoveMachine, otherVars, hostVars, SeenInv, Installed
<1>4. CASE OtherStep
  BY <1>4 DEF OtherStep, SeenInv, Installed
<1> QED
  BY <1>1, <1>2, <1>3, <1>4, StepKinds

LEMMA CompleteStep ==
  ASSUME TypeInv, ScoutInv, SeenInv, [Next]_vars, ~run.req.rack,
         st.at \notin {"ready", "lockdown"}, st'.at \in {"ready", "lockdown"}
  PROVE  listed = NoInfo \/ listed \subseteq Installed
<1>1. CASE RunStep
  <2>1. CASE UNCHANGED machineVars
    BY <2>1 DEF machineVars
  <2>2. ASSUME NEW new \in StateRec, NEW clear \in BOOLEAN,
               Stored(new, clear), Outcome(new, clear)
        PROVE  Pending = {}
    <3>1. new # run.st /\ st' = new
      BY <2>2 DEF Stored
    <3> QED
      BY <2>2, <3>1 DEF Outcome
  <2> QED
    BY <1>1, <2>1, <2>2, RunStepCases, NothingPending
<1>2. CASE LeaveHostInit
  BY <1>2 DEF LeaveHostInit
<1>3. CASE StoreReport
  BY <1>3 DEF StoreReport, ScoutInv, ReportFromScout
<1>4. CASE Users
  <2>1. st' \in {st, State("forcedeletion", 0), State("gone", 0)}
    BY <1>4 DEF Users, Trigger, RequestReset, ClearRequest, CompleteManual, EndRackUpgrade,
                ChangeRack, ForceDelete, RemoveMachine, machineVars
  <2> QED
    BY <2>1 DEF State
<1>5. CASE OtherStep
  BY <1>5 DEF OtherStep
<1> QED
  BY <1>1, <1>2, <1>3, <1>4, <1>5, StepKinds

\* A run that serves no rack leaves reprovisioning for Ready or HostInit only when
\* every file of every component that the stored report lists is installed, or the
\* host has no firmware definition: whatever the reports omit, and with updates that
\* take no effect, failed commits, restarts, deferrals, cleared requests, racks,
\* forced deletions and late scout reports.
THEOREM UpgradeComplete == Spec => UpgradeIsComplete
<1>1. Init => SeenInv
  BY DEF Init, SeenInv
<1>2. TypeInv /\ SeenInv /\ [Next]_vars => SeenInv'
  BY NextSeen
<1>3. TypeInv /\ ScoutInv /\ SeenInv /\ [Next]_vars
      => [st.at \notin {"ready", "lockdown"} /\ st'.at \in {"ready", "lockdown"} /\ ~run.req.rack
          => listed = NoInfo \/ listed \subseteq Installed]_vars
  BY CompleteStep
<1> QED
  BY <1>1, <1>2, <1>3, TypeInvariant, ScoutInvariant, PTL DEF Spec, UpgradeIsComplete

(***************************************************************************)
(* Locked down again.  While a run is open, a host in Ready has a request, *)
(* or lost it to a user: only the run itself closes it in another way.     *)
(***************************************************************************)
LockInv ==
  /\ ReadyHostIsLockedDown
  /\ run.by # None => st.at # "lockdown" /\ (st.at = "ready" => req.on \/ cut)

LEMMA RunStepLock ==
  ASSUME TypeInv, LockInv, RunStep
  PROVE  LockInv'
<1>1. run.by # None /\ run'.by = None
  BY DEF RunStep, RunEnds, NoRun
<1>2. st.at = "ready" => req.on \/ cut
  BY <1>1 DEF LockInv
<1>3. ReadyHostIsLockedDown'
  <2>1. CASE UNCHANGED machineVars
    BY <1>2, <2>1 DEF machineVars, ReadyHostIsLockedDown
  <2>2. ASSUME NEW new \in StateRec, NEW clear \in BOOLEAN,
               Stored(new, clear), Outcome(new, clear), Closes(clear)
        PROVE  ReadyHostIsLockedDown'
    <3>1. CASE clear
      BY <2>2, <3>1 DEF Closes, ReadyHostIsLockedDown
    <3>2. CASE ~clear
      <4>1. st'.at = "ready" => st' = st
        BY <2>2, <3>2 DEF Stored, Outcome
      <4>2. req \in RequestRec
        BY DEF TypeInv, MachineOK
      <4>3. req'.on = req.on /\ cut' = cut
        BY <2>2, <3>2, <4>2 DEF Stored, Closes, RequestRec
      <4> QED
        BY <1>2, <4>1, <4>3 DEF ReadyHostIsLockedDown
    <3> QED
      BY <3>1, <3>2
  <2> QED
    BY <2>1, <2>2, RunStepCases
<1> QED
  BY <1>1, <1>3 DEF LockInv

LEMMA UsersLock ==
  ASSUME TypeInv, LockInv, Users
  PROVE  LockInv'
<1>1. run' = run /\ lockdown' = lockdown
  BY DEF Users, Trigger, RequestReset, ClearRequest, CompleteManual, EndRackUpgrade, ChangeRack,
         ForceDelete, RemoveMachine, otherVars, hostVars
<1>2. CASE Trigger \/ RequestReset \/ CompleteManual \/ EndRackUpgrade \/ ChangeRack
  <2>1. st' = st /\ cut' = cut /\ deleting' = deleting
    BY <1>2 DEF Trigger, RequestReset, CompleteManual, EndRackUpgrade, ChangeRack, machineVars,
                userVars
  <2>2. req.on => req'.on
    <3>1. req \in RequestRec
      BY DEF TypeInv, MachineOK
    <3>2. CASE Trigger
      BY <3>2 DEF Trigger, NoRequest
    <3>3. CASE RequestReset \/ EndRackUpgrade
      BY <3>1, <3>3 DEF RequestReset, EndRackUpgrade, RequestRec
    <3>4. CASE CompleteManual \/ ChangeRack
      BY <3>4 DEF CompleteManual, ChangeRack, machineVars
    <3> QED
      BY <1>2, <3>2, <3>3, <3>4
  <2> QED
    BY <1>1, <2>1, <2>2 DEF LockInv, ReadyHostIsLockedDown
<1>3. CASE ClearRequest
  BY <1>1, <1>3 DEF ClearRequest, LockInv, ReadyHostIsLockedDown
<1>4. CASE ForceDelete \/ RemoveMachine
  <2>1. st'.at \in {"forcedeletion", "gone"}
    BY <1>4 DEF ForceDelete, RemoveMachine, State
  <2> QED
    BY <2>1 DEF LockInv, ReadyHostIsLockedDown
<1> QED
  BY <1>2, <1>3, <1>4 DEF Users

LEMMA NextLock ==
  ASSUME TypeInv, ScoutInv, LockInv, [Next]_vars
  PROVE  LockInv'
<1>1. CASE RunStep
  BY <1>1, RunStepLock
<1>2. CASE LeaveHostInit
  BY <1>2 DEF LeaveHostInit, LockInv, ReadyHostIsLockedDown, hostVars
<1>3. CASE StoreReport
  BY <1>3 DEF StoreReport, ScoutInv, ReportFromScout, LockInv, ReadyHostIsLockedDown, hostVars
<1>4. CASE Users
  BY <1>4, UsersLock
<1>5. CASE OtherStep
  <2>1. CASE run' = run \/ run' = NoRun
    BY <1>5, <2>1 DEF OtherStep, LockInv, ReadyHostIsLockedDown, NoRun
  <2>2. CASE \E v \in Server : Load(v)
    BY <1>5, <2>2 DEF OtherStep, Load, LockInv, ReadyHostIsLockedDown
  <2> QED
    BY <1>5, <2>1, <2>2 DEF OtherStep
<1> QED
  BY <1>1, <1>2, <1>3, <1>4, <1>5, StepKinds

\* A host in Ready, whose last request was closed by a check that found nothing left
\* to install, is locked down, need not be, or is being deleted.
\* initiate_host_fw_update lifts the lockdown in this request and in earlier ones that
\* were deferred, cleared or taken over by a rack; uploads, scripts, scout, servers and
\* commits fail in between.
THEOREM LockedDown == Spec => []ReadyHostIsLockedDown
<1>1. Init => LockInv
  <2> SUFFICES ASSUME Init PROVE LockInv
    OBVIOUS
  <2>1. run.by = None
    BY DEF Init, NoRun
  <2>2. lockdown \/ DisableLockdown
    BY HostFirmwareAssumption, Zenon DEF Init
  <2> QED
    BY <2>1, <2>2 DEF LockInv, ReadyHostIsLockedDown
<1>2. TypeInv /\ ScoutInv /\ LockInv /\ [Next]_vars => LockInv'
  BY NextLock
<1>3. LockInv => ReadyHostIsLockedDown
  BY DEF LockInv
<1> QED
  BY <1>1, <1>2, <1>3, TypeInvariant, ScoutInvariant, PTL DEF Spec

(***************************************************************************)
(* The retries.  Every state of an upgrade carries a count that is at      *)
(* least the number of retries, and so does the state that a run loaded.   *)
(***************************************************************************)
NoScout == \A c \in Component : Method[c] # "scout"

ScoutIdle ==
  /\ st.at # "scout" /\ run.st.at # "scout"
  /\ scout.task = None /\ scout.result = None /\ report = None

RetryInv ==
  /\ retried <= MaxRetries
  /\ st.at \notin {"rack", "forcedeletion", "gone"} => retried <= st.rc
  /\ run.by # None /\ run.st.at # "rack" => retried <= run.st.rc

LEMMA NextScoutIdle ==
  ASSUME TypeInv, ScoutIdle, NoScout, [Next]_vars
  PROVE  ScoutIdle'
<1>0. Ready.at = "ready" /\ NoRun.st = Ready
  BY DEF Ready, State, NoRun
<1>1. CASE RunStep
  <2>1. scout' = scout /\ report' = report /\ run' = NoRun
    BY <1>1 DEF RunStep, RunEnds
  <2>2. st' = st \/ st'.at # "scout"
    BY <1>1, RunStepCases DEF machineVars, Stored, Outcome, NoScout
  <2> QED
    BY <1>0, <2>1, <2>2 DEF ScoutIdle
<1>2. CASE LeaveHostInit \/ Users
  <2>1. scout' = scout /\ report' = report /\ run' = run
    BY <1>2 DEF LeaveHostInit, Users, Trigger, RequestReset, ClearRequest, CompleteManual,
           EndRackUpgrade, ChangeRack, ForceDelete, RemoveMachine, otherVars, scoutVars
  <2>2. st' \in {st, Ready, State("forcedeletion", 0), State("gone", 0)}
    BY <1>2 DEF LeaveHostInit, Users, Trigger, RequestReset, ClearRequest, CompleteManual,
           EndRackUpgrade, ChangeRack, ForceDelete, RemoveMachine, machineVars
  <2>3. st'.at # "scout"
    BY <2>2 DEF Ready, State, ScoutIdle
  <2> QED
    BY <2>1, <2>3 DEF ScoutIdle
<1>3. CASE Scout
  BY <1>3 DEF Scout, PollScout, RunScout, ReportScout, LoseReport, StoreReport, ScoutIdle
<1>4. CASE \/ \E v \in Server : Load(v) \/ Crash(v)
           \/ \E i \in DOMAIN tasks : Progress(i)
           \/ Explore \/ Tick \/ UnlockHost \/ UNCHANGED vars
  <2>1. scout' = scout /\ report' = report /\ st' = st
    BY <1>4 DEF Load, Crash, Progress, UploadEnds, TaskEnds, ScriptEnds, Explore, Tick, UnlockHost, vars,
                machineVars, scoutVars
  <2>2. run' = run \/ run' = NoRun \/ run'.st = st
    <3>1. ASSUME NEW v \in Server, Load(v) PROVE run'.st = st
      BY <3>1 DEF Load
    <3>2. ASSUME NEW v \in Server, Crash(v) PROVE run' = run \/ run' = NoRun
      BY <3>2 DEF Crash
    <3>3. CASE (\E i \in DOMAIN tasks : Progress(i)) \/ Explore \/ Tick \/ UnlockHost \/ UNCHANGED vars
      BY <3>3 DEF Progress, UploadEnds, TaskEnds, ScriptEnds, Explore, Tick, UnlockHost, vars
    <3> QED
      BY <1>4, <3>1, <3>2, <3>3
  <2> QED
    BY <1>0, <2>1, <2>2 DEF ScoutIdle
<1> QED
  BY <1>1, <1>2, <1>3, <1>4, NextCases DEF StepCases

LEMMA NextRetry ==
  ASSUME TypeInv, ScoutIdle, RetryInv, [Next]_vars
  PROVE  RetryInv'
<1>0. /\ retried \in Nat /\ MaxRetries \in Nat /\ st.rc \in Nat /\ run.st.rc \in Nat
      /\ NoRun.by = None
  BY HostFirmwareAssumption DEF TypeInv, MachineOK, RunOK, Good, StateRec, NoRun
<1>1. CASE RunStep
  <2>1. run'.by = None /\ run.by # None
    BY <1>0, <1>1 DEF RunStep, RunEnds
  <2>2. CASE UNCHANGED machineVars
    BY <2>1, <2>2 DEF machineVars, RetryInv
  <2>3. ASSUME NEW new \in StateRec, NEW clear \in BOOLEAN,
               Stored(new, clear), Outcome(new, clear)
        PROVE  RetryInv'
    <3>0. new.rc \in Nat
      BY DEF StateRec
    <3>1. CASE clear \/ ServesReset(run)
      <4>1. retried' = 0 /\ st' \in {st, new}
        BY <2>3, <3>1 DEF Stored
      <4> QED
        BY <1>0, <2>1, <3>0, <4>1 DEF RetryInv
    <3>2. CASE ~clear /\ ~ServesReset(run) /\ new.at = "rack"
      <4>1. retried' = retried /\ st' \in {st, new}
        BY <2>3, <3>2 DEF Stored
      <4> QED
        BY <2>1, <3>2, <4>1 DEF RetryInv
    <3>3. CASE ~clear /\ ~ServesReset(run) /\ new.at # "rack"
      <4>1. /\ run.st.at # "rack" /\ run.st.rc <= new.rc
            /\ run.st.at = "failed" /\ new.at = "checking" =>
                 new.rc = run.st.rc + 1 /\ new.rc <= MaxRetries
        BY <2>3, <3>3 DEF Outcome
      <4>2. retried <= run.st.rc /\ retried <= MaxRetries
        BY <2>1, <4>1 DEF RetryInv
      <4>3. CASE run.st.at = "failed" /\ new.at = "checking"
        <5>1. retried' = retried + 1 /\ st' = new
          BY <2>3, <3>3, <4>3 DEF Stored
        <5> QED
          BY <1>0, <2>1, <3>0, <4>1, <4>2, <4>3, <5>1 DEF RetryInv
      <4>4. CASE ~(run.st.at = "failed" /\ new.at = "checking")
        <5>1. retried' = retried /\ st' \in {st, new}
          BY <2>3, <3>3, <4>4 DEF Stored
        <5>2. retried <= new.rc
          BY <1>0, <3>0, <4>1, <4>2
        <5> QED
          BY <2>1, <4>2, <5>1, <5>2 DEF RetryInv
      <4> QED
        BY <4>3, <4>4
    <3> QED
      BY <3>1, <3>2, <3>3
  <2> QED
    BY <1>1, <2>2, <2>3, RunStepCases
<1>2. CASE LeaveHostInit
  <2>1. retried' = retried /\ run' = run /\ st' = Ready /\ st.at = "lockdown"
    BY <1>2 DEF LeaveHostInit
  <2>2. st.rc = 0 /\ Ready.rc = 0
    BY <2>1 DEF TypeInv, MachineOK, Good, Ready, State
  <2> QED
    BY <1>0, <2>1, <2>2 DEF RetryInv
<1>3. CASE StoreReport
  BY <1>3 DEF StoreReport, ScoutIdle
<1>4. CASE Users
  <2>1. retried' \in {retried, 0} /\ run' = run
    BY <1>4 DEF Users, Trigger, RequestReset, ClearRequest, CompleteManual, EndRackUpgrade,
                ChangeRack, ForceDelete, RemoveMachine, otherVars, machineVars
  <2>2. st' \in {st, State("forcedeletion", 0), State("gone", 0)}
    BY <1>4 DEF Users, Trigger, RequestReset, ClearRequest, CompleteManual, EndRackUpgrade,
                ChangeRack, ForceDelete, RemoveMachine, machineVars
  <2>3. st' = st \/ st'.at \in {"forcedeletion", "gone"}
    BY <2>2 DEF State
  <2> QED
    BY <1>0, <2>1, <2>3 DEF RetryInv
<1>5. CASE OtherStep
  <2>1. CASE run' = run \/ run' = NoRun
    BY <1>0, <1>5, <2>1 DEF OtherStep, RetryInv
  <2>2. CASE \E v \in Server : Load(v)
    BY <1>5, <2>2 DEF OtherStep, Load, RetryInv
  <2> QED
    BY <1>5, <2>1, <2>2 DEF OtherStep
<1> QED
  BY <1>1, <1>2, <1>3, <1>4, <1>5, StepKinds

\* On a host without a component that scout installs, a failed upgrade is retried
\* at most MAX_FIRMWARE_UPGRADE_RETRIES times until somebody asks for it again,
\* racks, users, deferrals, restarts and lost commits included.
THEOREM RetriesBounded ==
  ASSUME NoScout
  PROVE  Spec => []RetriesAreBounded
<1>1. Init => ScoutIdle /\ RetryInv
  BY IdleType, HostFirmwareAssumption DEF IdleOK, Init, ScoutIdle, RetryInv, Ready, State, NoRun
<1>2. TypeInv /\ ScoutIdle /\ [Next]_vars => ScoutIdle'
  BY NextScoutIdle
<1>3. TypeInv /\ ScoutIdle /\ RetryInv /\ [Next]_vars => RetryInv'
  BY NextRetry
<1>4. RetryInv => RetriesAreBounded
  BY DEF RetryInv, RetriesAreBounded
<1> QED
  BY <1>1, <1>2, <1>3, <1>4, TypeInvariant, PTL DEF Spec
=============================================================================
