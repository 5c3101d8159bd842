----------------------------- MODULE HostFirmware ----------------------------
(***************************************************************************)
(* Host reprovisioning: the firmware upgrade of one managed host without   *)
(* an instance, driven by HostUpgradeState of                              *)
(* crates/machine-controller/src/handler.rs.                               *)
(*                                                                         *)
(* A handler run loads the machine, acts on the hardware and on the memory *)
(* of its server, and persists a transition.  The persist is unversioned   *)
(* (crates/machine-controller/src/io.rs): it overwrites what the API       *)
(* stored since the load.  That at most one run is active for a machine is *)
(* StateController's SingleDecider.  The servers share the database only;  *)
(* uploads and scripts are in the memory of the server that started them.  *)
(*                                                                         *)
(* Waiting times are one flag, due, which a step of the environment raises *)
(* in any state that has one; the delays between two power operations of a *)
(* reset are left out.                                                     *)
(***************************************************************************)
EXTENDS Naturals, Sequences

CONSTANTS
  Server,         \* api instances
  Ordering,       \* the components of the host in order of installation
  Method,         \* component -> "upload", "scout" or "script"
  Artifacts,      \* component -> number of files to install
  PreReset,       \* component -> BOOLEAN: pre_update_resets
  Drains,         \* component -> power drains after the installation
  Manual,         \* BOOLEAN: requires_manual_firmware_upgrade
  DisableLockdown,\* BOOLEAN: disable_lockdown of the host profile, or no lockdown at all
  NoResetRetries, \* the settings of no_firmware_update_reset_retries to look at
  Reports,        \* what a report may list: sets of components, or NoInfo
  Deferrals,      \* BOOLEAN: an update may be deferred
  RackRequests,   \* BOOLEAN: racks make requests, too
  Interventions,  \* BOOLEAN: users clear requests and delete the machine
  MaxRetries,     \* MAX_FIRMWARE_UPGRADE_RETRIES
  MaxResets,      \* MAX_NEW_FIRMWARE_REPORTED_RESET_RETRIES
  MaxRequests,    \* bound: requests and resets by users and racks
  MaxFaults,      \* bound: failures of hardware, calls and servers
  MaxTasks,       \* bound: uploads, scripts and scout tasks
  None

Component == {Ordering[i] : i \in 1 .. Len(Ordering)}

\* A report for which there is no firmware definition.
NoInfo == {None}

ASSUME HostFirmwareAssumption ==
  /\ Ordering \in Seq(Component)
  /\ Method \in [Component -> {"upload", "scout", "script"}]
  /\ Artifacts \in [Component -> Nat \ {0}]
  /\ PreReset \in [Component -> BOOLEAN]
  /\ Drains \in [Component -> Nat]
  /\ {Manual, DisableLockdown} \cup NoResetRetries \subseteq BOOLEAN
  /\ {Deferrals, RackRequests, Interventions} \subseteq BOOLEAN
  /\ Reports \subseteq (SUBSET Component) \cup {NoInfo}
  /\ {MaxRetries, MaxResets, MaxRequests, MaxFaults, MaxTasks} \subseteq Nat
  /\ None \notin Nat \cup Component \cup BOOLEAN \cup Server \cup {"completed", "failed"}

VARIABLES
  st,         \* the controller state of the machine
  req,        \* host_reprovisioning_requested; done: rack_fw_details for it
  manual,     \* manual_firmware_upgrade_completed is set
  run,        \* the open handler run: its server and what it loaded
  up,         \* server -> its entry in active_uploads: the task on success
  script,     \* server -> its entry in UpdateScriptManager
  tasks,      \* every upload, script and scout task that was started
  flashed,    \* the artifacts that are installed
  listed,     \* the components that the stored report lists, or NoInfo
  seen,       \* those of them at the desired version in the report
  refresh,    \* waiting_for_explorer_refresh
  lockdown,   \* the host is locked down
  due,        \* the waiting time of the state is over
  scout,      \* the task scout works on, and its result
  report,     \* what an open report_scout_firmware_upgrade_status will store
  rackError,  \* the rack is in its Error state
  deleting,   \* a force deletion was started
  noResets,   \* no_firmware_update_reset_retries of the site's configuration
  requests, faults,
  retried,    \* retries since the upgrade was requested in Ready or Failed, or reset
  cut         \* history: the last request ended otherwise than by a finished check

machineVars == <<st, req, manual, due, retried, cut>>
serverVars == <<up, script>>
hostVars == <<flashed, listed, seen, lockdown>>
scoutVars == <<scout, report>>
userVars == <<rackError, deleting, requests, noResets>>
vars == <<machineVars, run, serverVars, tasks, hostVars, refresh, scoutVars, userVars, faults>>

(***************************************************************************)
(* Controller states.  ops are the power operations that a reset has left, *)
(* or the phase of the initial reset.                                      *)
(***************************************************************************)
State(at, rc) == [at |-> at, fw |-> None, num |-> 0, task |-> None, ops |-> 0,
                  resets |-> 0, result |-> None, rc |-> rc]

Ready == State("ready", 0)
Recheck(fw, num, rc) == [State("rechecking", rc) EXCEPT !.fw = fw, !.num = num]
Check(fw, num, rc) == [State("checking", rc) EXCEPT !.fw = fw, !.num = num]

NoRequest == [on |-> FALSE, rack |-> FALSE, reset |-> FALSE, done |-> None]
NoRun == [by |-> None, st |-> Ready, req |-> NoRequest, manual |-> FALSE]
NoUpload == [is |-> "none", task |-> None]
Idle == [task |-> None, result |-> None]

Init ==
  /\ st = Ready /\ req = NoRequest /\ manual = FALSE /\ due = FALSE /\ retried = 0 /\ cut = FALSE
  /\ run = NoRun
  /\ up = [v \in Server |-> NoUpload] /\ script = [v \in Server |-> None]
  /\ tasks = << >>
  /\ flashed = {} /\ listed \in Reports /\ seen = {} /\ refresh = FALSE
  /\ lockdown \in {TRUE, ~DisableLockdown}
  /\ scout = Idle /\ report = None
  /\ rackError = FALSE /\ deleting = FALSE /\ requests = 0 /\ faults = 0
  /\ noResets \in NoResetRetries

(***************************************************************************)
(* A handler run: its load, and the common end of all that it may do.      *)
(***************************************************************************)
\* Ready has something to do with a request only; ForceDeletion has nothing.
Load(v) ==
  /\ run = NoRun
  /\ st.at \notin {"forcedeletion", "gone", "lockdown"}
  /\ st.at = "ready" => req.on
  /\ run' = [by |-> v, st |-> st, req |-> req, manual |-> manual]
  /\ UNCHANGED <<machineVars, serverVars, tasks, hostVars, refresh, scoutVars, userVars, faults>>

\* A rack request does not enter handle_host_reprovision from Ready.
RackReady(r) == r.req.rack /\ r.st.at = "ready"
Aborts(r) == r.req.rack /\ r.st.at # "ready" /\ rackError
ServesReset(r) == r.req.reset /\ ~RackReady(r) /\ ~Aborts(r)

\* The state that a run works on: a requested reset starts over, and Ready with
\* a request counts as CheckingFirmware.
Effective(r) ==
  IF ServesReset(r) THEN Recheck(None, 0, 0)
  ELSE IF r.st.at = "ready" THEN Check(None, 0, 0) ELSE r.st

RackTakes(r) == r.req.rack /\ Effective(r).at \in {"checking", "rechecking"}

\* The run of v works on a state itself.
Works(v, at) ==
  /\ run.by = v
  /\ ~Aborts(run) /\ ~RackTakes(run)
  /\ Effective(run).at = at

Fault == faults < MaxFaults /\ faults' = faults + 1

\* Mutant: a row that is gone is written again.
StoredAnyway(new, clear) ==
  /\ st' = IF new = run.st THEN st ELSE new
  /\ req' = IF clear THEN NoRequest
            ELSE IF ServesReset(run) THEN [req EXCEPT !.reset = FALSE] ELSE req
  /\ due' = (due /\ new = run.st)
  /\ retried' = IF clear \/ ServesReset(run) THEN 0
                ELSE IF run.st.at = "failed" /\ new.at = "checking" THEN retried + 1 ELSE retried

\* The transition is stored, unless it leads where the run began, together
\* with the pending write of a served reset and, when the upgrade is over, the
\* clearing of the request.
Stored(new, clear) ==
  /\ st.at # "gone"
  /\ st' = IF new = run.st THEN st ELSE new
  /\ req' = IF clear THEN NoRequest
            ELSE IF ServesReset(run) THEN [req EXCEPT !.reset = FALSE] ELSE req
  /\ due' = (due /\ new = run.st)
  /\ retried' = IF clear \/ ServesReset(run) THEN 0
                ELSE IF run.st.at = "failed" /\ new.at = "checking" THEN retried + 1 ELSE retried

\* The commit fails, or the row is gone.
NotStored ==
  /\ \/ st.at = "gone" /\ UNCHANGED faults
     \/ st.at # "gone" /\ Fault
  /\ UNCHANGED machineVars

Go(new) ==
  /\ run' = NoRun
  /\ \/ Stored(new, FALSE) /\ UNCHANGED <<manual, cut, faults>>
     \/ NotStored
  /\ UNCHANGED <<scoutVars, userVars>>

\* The run waits, or ends with an error: nothing is stored.
GiveUp ==
  /\ run' = NoRun
  /\ UNCHANGED <<machineVars, scoutVars, userVars>>

RunFails(v) ==
  /\ run.by = v
  /\ Fault
  /\ GiveUp
  /\ UNCHANGED <<serverVars, tasks, hostVars, refresh>>

(***************************************************************************)
(* The rack level.                                                         *)
(***************************************************************************)
\* clear_host_reprovisioning_request in the transaction of the transition.
GoAndClear(new) ==
  /\ run' = NoRun
  /\ \/ Stored(new, TRUE) /\ cut' = TRUE /\ UNCHANGED <<manual, faults>>
     \/ NotStored
  /\ UNCHANGED <<scoutVars, userVars>>

\* rack_failed_abort_host_reprovision_outcome: back to Ready.
AbortForRack(v) ==
  /\ run.by = v
  /\ Aborts(run)
  /\ GoAndClear(Ready)
  /\ UNCHANGED <<serverVars, tasks, hostVars, refresh>>

\* Ready, and the checking states, hand a rack request to the rack.
HandToRack(v) ==
  /\ run.by = v
  /\ ~Aborts(run) /\ RackTakes(run)
  /\ Go(State("rack", IF RackReady(run) THEN 1 ELSE Effective(run).rc))
  /\ UNCHANGED <<serverVars, tasks, hostVars, refresh>>

\* handle_waiting_for_rack_firmware_upgrade.
WaitForRack(v) ==
  /\ Works(v, "rack")
  /\ \/ run.req.done = "completed" /\ GoAndClear(Ready)
     \/ run.req.done = "failed" /\ GoAndClear(State("failed", run.st.rc))
  /\ UNCHANGED <<serverVars, tasks, hostVars, refresh>>

(***************************************************************************)
(* Checking the firmware: what to install next, and how.                   *)
(***************************************************************************)
Checks(v) == Works(v, "checking") \/ Works(v, "rechecking")

\* host_checking_fw clears the request, and the mark of a manual upgrade, with
\* every outcome that is not a transition within HostReprovision; early: before
\* the check found that nothing is left to install and the host is locked down.
EndCheck(new, early) ==
  /\ Stored(new, TRUE)
  /\ cut' = early
  /\ manual' = FALSE
  /\ run' = NoRun
  /\ UNCHANGED <<scoutVars, userVars>>

\* Mutant: only the first component is looked at.
PendingFirst == {i \in {1} : Ordering[i] \in listed \ seen}

\* need_host_fw_upgrade: the report lists the component, with another version;
\* one that it does not list needs nothing.
Pending == {i \in 1 .. Len(Ordering) : Ordering[i] \in listed \ seen}
Target == Ordering[CHOOSE i \in Pending : \A j \in Pending : i <= j]

\* The file of the target that comes next.
Number(e) == IF e.fw = Target THEN e.num ELSE 0

NeedsManual(r) == Manual /\ ~r.manual

\* A manual upgrade comes before all; then the report must be refreshed.
CheckFirst(v) ==
  /\ Checks(v)
  /\ LET e == Effective(run)
     IN \/ NeedsManual(run) /\ Go(State("manual", e.rc))
        \/ ~NeedsManual(run) /\ refresh /\ Go(Recheck(e.fw, e.num, e.rc))
  /\ UNCHANGED <<serverVars, tasks, hostVars, refresh>>

Selects(v, how) ==
  /\ Checks(v)
  /\ ~NeedsManual(run) /\ ~refresh
  /\ Pending # {} /\ Method[Target] = how

Task(fw, num, v, state) == [fw |-> fw, num |-> num, by |-> v, state |-> state]
StartTask(t) == Len(tasks) < MaxTasks /\ tasks' = Append(tasks, t)

\* A task for scout: its fresh id and its deadline go into the state.
StartScout(v) ==
  /\ Selects(v, "scout")
  /\ StartTask(Task(Target, 0, None, "scout"))
  /\ Go([State("scout", Effective(run).rc) EXCEPT !.fw = Target, !.task = Len(tasks) + 1])
  /\ UNCHANGED <<serverVars, hostVars, refresh>>

\* by_script: the script runs before the state is stored.
StartScript(v) ==
  /\ Selects(v, "script")
  /\ StartTask(Task(Target, 0, v, "script"))
  /\ script' = [script EXCEPT ![v] = None]
  /\ Go(State("script", Effective(run).rc))
  /\ UNCHANGED <<up, hostVars, refresh>>

Resets(e) == PreReset[Target] /\ e.at = "checking"

\* pre_update_resets, its first phase; a repeated check does not ask for it.
StartReset(v) ==
  /\ Selects(v, "upload")
  /\ Resets(Effective(run))
  /\ Go([State("initial", Effective(run).rc) EXCEPT !.ops = 1])
  /\ UNCHANGED <<serverVars, tasks, hostVars, refresh>>

\* start_upload: an upload of this host that the server knows is taken for it.
StartUpload(v, fw, num) ==
  IF up[v] # NoUpload THEN UNCHANGED <<up, tasks>>
  ELSE up' = [up EXCEPT ![v].is = "busy"] /\ StartTask(Task(fw, num, v, "uploading"))

\* initiate_host_fw_update: the lockdown is lifted first.
InitiateUpdate(v) ==
  /\ Selects(v, "upload")
  /\ ~Resets(Effective(run))
  /\ lockdown' = FALSE
  /\ LET n == Number(Effective(run))
     IN /\ StartUpload(v, Target, n)
        /\ Go([State("upload", Effective(run).rc) EXCEPT !.fw = Target, !.num = n])
  /\ UNCHANGED <<script, flashed, listed, seen, refresh>>

\* The file is neither there nor can it be downloaded.
MissingArtifact(v) ==
  /\ Selects(v, "upload")
  /\ ~Resets(Effective(run))
  /\ Deferrals
  /\ Go(State("failed", Effective(run).rc))
  /\ UNCHANGED <<serverVars, tasks, hostVars, refresh>>

\* The update is put off: the file is being downloaded, there are too many
\* uploads or the lockdown cannot be read or lifted; or it is lifted and the
\* host has to restart for that.
Defer(v) ==
  /\ Selects(v, "upload")
  /\ ~Resets(Effective(run))
  /\ Deferrals
  /\ Fault
  /\ lockdown' \in {lockdown, FALSE}
  /\ EndCheck(run.st, TRUE)
  /\ UNCHANGED <<serverVars, tasks, flashed, listed, seen, refresh>>

\* The check finds nothing to install.
NothingLeft(v) ==
  /\ Checks(v)
  /\ ~NeedsManual(run) /\ ~refresh
  /\ listed # NoInfo /\ Pending = {}

\* Mutant: the lockdown is not restored.
FinishCheckUnlocked(v) ==
  /\ NothingLeft(v)
  /\ EndCheck(Ready, FALSE)
  /\ UNCHANGED <<serverVars, tasks, hostVars, refresh, faults>>

\* Ready, or, if the host was not locked down and has to be, HostInit to wait
\* until it is again.
FinishCheck(v) ==
  /\ NothingLeft(v)
  /\ lockdown' = (lockdown \/ ~DisableLockdown)
  /\ LET new == IF lockdown \/ DisableLockdown THEN Ready ELSE State("lockdown", 0)
     IN \/ EndCheck(new, FALSE) /\ UNCHANGED faults
        \/ NotStored /\ run' = NoRun /\ UNCHANGED <<scoutVars, userVars>>
  /\ UNCHANGED <<serverVars, tasks, flashed, listed, seen, refresh>>

\* The lockdown can be neither read nor restored: the run waits.
CannotLock(v) ==
  /\ NothingLeft(v)
  /\ Deferrals
  /\ Fault
  /\ EndCheck(run.st, TRUE)
  /\ UNCHANGED <<serverVars, tasks, hostVars, refresh>>

\* find_fw_info_for_host knows no such host: Ready, and the lockdown stays as it
\* is.
NoFirmwareInfo(v) ==
  /\ Checks(v)
  /\ ~NeedsManual(run) /\ ~refresh
  /\ listed = NoInfo
  /\ \/ EndCheck(Ready, TRUE) /\ UNCHANGED faults
     \/ NotStored /\ run' = NoRun /\ UNCHANGED <<scoutVars, userVars>>
  /\ UNCHANGED <<serverVars, tasks, hostVars, refresh>>

\* The rest of HostInit, BOM and machine validation: Ready again.
LeaveHostInit ==
  /\ st.at = "lockdown"
  /\ lockdown
  /\ st' = Ready
  /\ UNCHANGED <<req, manual, due, retried, cut, run, serverVars, tasks, hostVars, refresh,
                 scoutVars, userVars, faults>>

(***************************************************************************)
(* Waiting for an upgrade.                                                 *)
(***************************************************************************)
WaitForManual(v) ==
  /\ Works(v, "manual")
  /\ run.manual
  /\ Go(Recheck(None, 0, run.st.rc))
  /\ UNCHANGED <<serverVars, tasks, hostVars, refresh>>

\* waiting_for_script, when its server knows the result.
WaitForScript(v) ==
  /\ Works(v, "script")
  /\ script[v] \in BOOLEAN
  /\ script' = [script EXCEPT ![v] = None]
  /\ Go(IF script[v] THEN Recheck(None, 0, run.st.rc) ELSE State("failed", run.st.rc))
  /\ UNCHANGED <<up, tasks, hostVars, refresh>>

\* pre_update_resets, later phases: power on, then wait until the host is up.
InitialReset(v) ==
  /\ Works(v, "initial")
  /\ \/ run.st.ops = 1 /\ Go([run.st EXCEPT !.ops = 2])
     \/ run.st.ops = 2 /\ due /\ Go(Recheck(None, 0, run.st.rc))
  /\ UNCHANGED <<serverVars, tasks, hostVars, refresh>>

\* waiting_for_upload: an upload that the server does not know is lost; one
\* that succeeded stays known until the next state.
WaitForUpload(v) ==
  /\ Works(v, "upload")
  /\ LET e == run.st
     IN \/ /\ up[v].is \in {"none", "failed"}
           /\ up' = [up EXCEPT ![v] = NoUpload]
           /\ Go(Recheck(e.fw, e.num, e.rc))
        \/ /\ up[v].is = "done"
           /\ up' = up
           /\ Go([State("task", e.rc) EXCEPT !.fw = e.fw, !.num = e.num, !.task = up[v].task])
  /\ UNCHANGED <<script, tasks, hostVars, refresh>>

ResetFor(e, num, resets) ==
  [State("reset", e.rc) EXCEPT !.fw = e.fw, !.num = num, !.ops = 3 * Drains[e.fw],
                               !.resets = resets]

\* Mutant: off by one at the last file.
TaskCompletedOneMore(e) ==
  IF ~refresh /\ listed # NoInfo /\ e.num + 1 <= Artifacts[e.fw]
  THEN Check(e.fw, e.num + 1, e.rc) ELSE ResetFor(e, e.num, 0)

\* What host_waiting_fw makes of the task of the BMC.
TaskCompleted(e) ==
  IF ~refresh /\ listed # NoInfo /\ e.num + 1 < Artifacts[e.fw]
  THEN Check(e.fw, e.num + 1, e.rc) ELSE ResetFor(e, e.num, 0)


\* A task that the BMC no longer knows is over when the version is right; after
\* a while it is repeated.
TaskIsOver(e) == ~refresh /\ (e.fw \in seen \/ due)

\* host_waiting_fw.  The upload is forgotten first.  A failed task asks for a
\* new exploration in the transaction of the transition; an unknown task state
\* is a failure, too, but asks for nothing.
WaitForTask(v) ==
  /\ Works(v, "task")
  /\ up' = [up EXCEPT ![v] = NoUpload]
  /\ LET e == run.st
         s == tasks[e.task].state
     IN \/ s = "completed" /\ Go(TaskCompleted(e)) /\ UNCHANGED refresh
        \/ s = "failed" /\ Go(State("failed", e.rc)) /\ refresh' = (refresh \/ st' # st)
        \/ s = "odd" /\ Go(State("failed", e.rc)) /\ UNCHANGED refresh
        \/ s = "missing" /\ TaskIsOver(e) /\ Go(Recheck(e.fw, e.num, e.rc)) /\ UNCHANGED refresh
        \/ /\ s = "running" \/ (s = "missing" /\ ~TaskIsOver(e))
           /\ GiveUp /\ UNCHANGED <<faults, refresh>>
  /\ UNCHANGED <<script, tasks, hostVars>>

Reported(e, resets) ==
  [State("reported", e.rc) EXCEPT !.fw = e.fw, !.num = e.num, !.resets = resets]

\* host_reset_for_new_firmware: the power drains, then the reset itself.
ResetHost(v) ==
  /\ Works(v, "reset")
  /\ ~refresh
  /\ Go(IF run.st.ops > 0 THEN [run.st EXCEPT !.ops = @ - 1] ELSE Reported(run.st, run.st.resets))
  /\ UNCHANGED <<serverVars, tasks, hostVars, refresh>>

\* Mutant: the failure starts with a new retry budget.
WaitForReportForgets(v) ==
  /\ Works(v, "reported")
  /\ ~refresh
  /\ LET e == run.st
         wrong == e.fw \in listed \ seen
         again == wrong /\ due /\ ~noResets
     IN \/ ~wrong /\ Go(Recheck(e.fw, e.num, e.rc))
        \/ again /\ e.resets < MaxResets /\ Go(Reported(e, e.resets + 1))
        \/ again /\ e.resets >= MaxResets /\ Go(State("failed", 0))
  /\ UNCHANGED <<serverVars, tasks, hostVars, refresh>>

\* host_new_firmware_reported_wait: a component that the report does not list,
\* or for which there is no definition, is not waited for.  The host is reset
\* again, without drains, while the version is wrong and resets are left, unless
\* the site wants no such resets.
WaitForReport(v) ==
  /\ Works(v, "reported")
  /\ ~refresh
  /\ LET e == run.st
         wrong == e.fw \in listed \ seen
         again == wrong /\ due /\ ~noResets
     IN \/ ~wrong /\ Go(Recheck(e.fw, e.num, e.rc))
        \/ again /\ e.resets < MaxResets /\ Go(Reported(e, e.resets + 1))
        \/ again /\ e.resets >= MaxResets /\ Go(State("failed", e.rc))
  /\ UNCHANGED <<serverVars, tasks, hostVars, refresh>>

\* WaitingForScoutUpgrade: a result counts before the deadline does.
WaitForScout(v) ==
  /\ Works(v, "scout")
  /\ LET e == run.st
     IN \/ e.result = TRUE /\ Go(ResetFor(e, 0, 0))
        \/ (e.result = FALSE \/ (e.result = None /\ due)) /\ Go(State("failed", e.rc))
  /\ UNCHANGED <<serverVars, tasks, hostVars, refresh>>

\* FailedFirmwareUpgrade: a rack request is taken; otherwise there are retries.
Retry(v) ==
  /\ Works(v, "failed")
  /\ \/ run.req.rack /\ Go(State("rack", 1))
     \/ ~run.req.rack /\ run.st.rc < MaxRetries /\ due /\ Go(Check(None, 0, run.st.rc + 1))
  /\ UNCHANGED <<serverVars, tasks, hostVars, refresh>>

\* The other states, when there is nothing to do yet.  (Waiting for a rack
\* without a request panics, which ends the run, too.)
HasToWait(v, e) ==
  \/ e.at = "rack" /\ run.req.done = None
  \/ e.at = "manual" /\ ~run.manual
  \/ e.at = "script" /\ script[v] = None
  \/ e.at = "initial" /\ e.ops = 2 /\ ~due
  \/ e.at = "upload" /\ up[v].is = "busy"
  \/ e.at = "reset" /\ refresh
  \/ e.at = "reported" /\ (refresh \/ (e.fw \in listed \ seen /\ (~due \/ noResets)))
  \/ e.at = "scout" /\ e.result = None /\ ~due
  \/ e.at = "failed" /\ ~run.req.rack /\ (e.rc >= MaxRetries \/ ~due)

Wait(v) ==
  /\ Works(v, Effective(run).at)
  /\ HasToWait(v, Effective(run))
  /\ GiveUp
  /\ UNCHANGED <<serverVars, tasks, hostVars, refresh, faults>>

(***************************************************************************)
(* The servers, the BMC, the host and the site explorer.                   *)
(***************************************************************************)
Ends(i, state) == tasks' = [tasks EXCEPT ![i].state = state]
Files(c) == {<<c, n>> : n \in 0 .. Artifacts[c] - 1}

\* What succeeds changes the version, or, if something is wrong, it does not.
Installs(files) ==
  \/ flashed' = flashed \cup files /\ UNCHANGED faults
  \/ UNCHANGED flashed /\ Fault

\* The thread of start_upload; it stores its result even when the entry was
\* removed meanwhile.
UploadEnds(i) ==
  /\ tasks[i].state = "uploading"
  /\ \/ /\ Ends(i, "running") /\ UNCHANGED faults
        /\ up' = [up EXCEPT ![tasks[i].by] = [is |-> "done", task |-> i]]
     \/ /\ Ends(i, "dead") /\ Fault
        /\ up' = [up EXCEPT ![tasks[i].by] = [is |-> "failed", task |-> None]]
  /\ UNCHANGED <<machineVars, run, script, hostVars, refresh, scoutVars, userVars>>

\* The task of the BMC completes, fails or is no longer known afterwards; before
\* that it may show a state that the controller does not know.
TaskEnds(i) ==
  /\ \/ /\ tasks[i].state \in {"running", "odd"}
        /\ \/ Ends(i, "completed") /\ Installs({<<tasks[i].fw, tasks[i].num>>})
           \/ /\ Ends(i, "failed") /\ Fault /\ UNCHANGED flashed
           \/ /\ Ends(i, "missing") /\ Fault
              /\ flashed' \in {flashed, flashed \cup {<<tasks[i].fw, tasks[i].num>>}}
     \/ tasks[i].state = "running" /\ Ends(i, "odd") /\ Fault /\ UNCHANGED flashed
  /\ UNCHANGED <<machineVars, run, serverVars, listed, seen, lockdown, refresh, scoutVars, userVars>>

\* The thread of by_script.
ScriptEnds(i) ==
  /\ tasks[i].state = "script"
  /\ \/ /\ Ends(i, "completed") /\ Installs(Files(tasks[i].fw))
        /\ script' = [script EXCEPT ![tasks[i].by] = TRUE]
     \/ /\ Ends(i, "failed") /\ Fault /\ UNCHANGED flashed
        /\ script' = [script EXCEPT ![tasks[i].by] = FALSE]
  /\ UNCHANGED <<machineVars, run, up, listed, seen, lockdown, refresh, scoutVars, userVars>>

\* A server restarts: its run, its memory and its threads are gone.
Crash(v) ==
  /\ Fault
  /\ run' = IF run.by = v THEN NoRun ELSE run
  /\ up' = [up EXCEPT ![v] = NoUpload]
  /\ script' = [script EXCEPT ![v] = None]
  /\ tasks' = [i \in DOMAIN tasks |->
                 IF tasks[i].by = v /\ tasks[i].state \in {"uploading", "script"}
                 THEN [tasks[i] EXCEPT !.state = "dead"] ELSE tasks[i]]
  /\ UNCHANGED <<machineVars, hostVars, refresh, scoutVars, userVars>>

Installed == {c \in Component : Files(c) \subseteq flashed}

\* The site explorer reads the versions, which may list other components than
\* before; or it fails and has to come again.
Explore ==
  /\ \/ /\ refresh' = FALSE
        /\ \/ listed' = listed /\ UNCHANGED faults
           \/ listed' \in Reports \ {listed} /\ Fault
        /\ seen' = Installed \cap listed'
     \/ refresh' = TRUE /\ Fault /\ UNCHANGED <<listed, seen>>
  /\ UNCHANGED <<machineVars, run, serverVars, tasks, flashed, lockdown, scoutVars, userVars>>

Tick ==
  /\ ~due
  /\ st.at \in {"initial", "task", "reported", "scout", "failed"}
  /\ due' = TRUE
  /\ UNCHANGED <<st, req, manual, retried, cut, run, serverVars, tasks, hostVars, refresh,
                 scoutVars, userVars, faults>>

\* scout asks the API what to do, and gets the task of a host without instance.
PollScout ==
  /\ scout = Idle
  /\ st.at = "scout" /\ st.result = None
  /\ scout' = [task |-> st.task, result |-> None]
  /\ UNCHANGED <<machineVars, run, serverVars, tasks, hostVars, refresh, report, userVars, faults>>

RunScout ==
  /\ scout.task # None /\ scout.result = None
  /\ \/ /\ scout' = [scout EXCEPT !.result = TRUE]
        /\ Ends(scout.task, "completed") /\ Installs(Files(tasks[scout.task].fw))
     \/ /\ scout' = [scout EXCEPT !.result = FALSE] /\ Fault
        /\ Ends(scout.task, "failed") /\ UNCHANGED flashed
  /\ UNCHANGED <<machineVars, run, serverVars, listed, seen, lockdown, refresh, report, userVars>>

\* Mutant: the id of the task is not compared.
ReportScoutForAny ==
  /\ scout.result # None /\ report = None
  /\ \/ /\ st.at = "scout"
        /\ report' = [st EXCEPT !.result = scout.result] /\ scout' = scout
     \/ /\ st.at # "scout"
        /\ report' = None /\ scout' = Idle
  /\ UNCHANGED <<machineVars, run, serverVars, tasks, hostVars, refresh, userVars, faults>>

\* report_scout_firmware_upgrade_status: a report for another task is refused.
\* The state is read here and stored by the next action.
ReportScout ==
  /\ scout.result # None /\ report = None
  /\ \/ /\ st.at = "scout" /\ st.task = scout.task
        /\ report' = [st EXCEPT !.result = scout.result] /\ scout' = scout
     \/ /\ ~(st.at = "scout" /\ st.task = scout.task)
        /\ report' = None /\ scout' = Idle
  /\ UNCHANGED <<machineVars, run, serverVars, tasks, hostVars, refresh, userVars, faults>>

\* The call fails; scout does not repeat it.
LoseReport ==
  /\ scout.result # None /\ report = None
  /\ Fault
  /\ scout' = Idle
  /\ UNCHANGED <<machineVars, run, serverVars, tasks, hostVars, refresh, report, userVars>>

StoreReport ==
  /\ report # None
  /\ report' = None
  /\ scout' = Idle
  /\ st' = IF st.at = "gone" THEN st ELSE report
  /\ UNCHANGED <<req, manual, due, retried, cut, run, serverVars, tasks, hostVars, refresh,
                 userVars, faults>>

(***************************************************************************)
(* Users and racks.                                                        *)
(***************************************************************************)
otherVars == <<run, serverVars, tasks, hostVars, refresh, scoutVars, faults>>

\* trigger_host_reprovisioning_request: a new request replaces any other.
Trigger ==
  /\ requests < MaxRequests
  /\ st.at # "gone"
  /\ requests' = requests + 1
  /\ \E r \in {FALSE, RackRequests} : req' = [NoRequest EXCEPT !.on = TRUE, !.rack = r]
  /\ retried' = IF st.at \in {"ready", "failed"} THEN 0 ELSE retried
  /\ UNCHANGED <<st, manual, due, cut, rackError, deleting, noResets, otherVars>>

\* reset_host_reprovisioning_request on behalf of a user.
RequestReset ==
  /\ requests < MaxRequests
  /\ req.on
  /\ requests' = requests + 1
  /\ req' = [req EXCEPT !.reset = TRUE]
  /\ UNCHANGED <<st, manual, due, retried, cut, rackError, deleting, noResets, otherVars>>

\* trigger_host_reprovisioning, Mode::Clear.
ClearRequest ==
  /\ Interventions
  /\ req.on
  /\ req' = NoRequest
  /\ cut' = TRUE
  /\ UNCHANGED <<st, manual, due, retried, userVars, otherVars>>

CompleteManual ==
  /\ st.at = "manual"
  /\ manual' = TRUE
  /\ UNCHANGED <<st, req, due, retried, cut, userVars, otherVars>>

\* The rack controller ends its upgrade, and it fails and recovers as a whole.
EndRackUpgrade ==
  /\ req.rack /\ req.done = None
  /\ \E d \in {"completed", "failed"} : req' = [req EXCEPT !.done = d]
  /\ UNCHANGED <<st, manual, due, retried, cut, userVars, otherVars>>

ChangeRack ==
  /\ RackRequests
  /\ rackError' = ~rackError
  /\ UNCHANGED <<machineVars, deleting, requests, noResets, otherVars>>

\* admin_force_delete_machine: the state is stored first, then the host is
\* unlocked if its BMC allows it, and the rows go last.
ForceDelete ==
  /\ Interventions
  /\ ~deleting
  /\ deleting' = TRUE
  /\ st' = State("forcedeletion", 0)
  /\ UNCHANGED <<req, manual, due, retried, cut, rackError, requests, noResets, otherVars>>

UnlockHost ==
  /\ deleting /\ st.at # "gone"
  /\ lockdown
  /\ lockdown' = FALSE
  /\ UNCHANGED <<machineVars, userVars, run, serverVars, tasks, flashed, listed, seen, refresh,
                 scoutVars, faults>>

RemoveMachine ==
  /\ deleting
  /\ st.at # "gone"
  /\ st' = State("gone", 0)
  /\ req' = NoRequest
  /\ UNCHANGED <<manual, due, retried, cut, userVars, otherVars>>

Handle(v) ==
  \/ AbortForRack(v) \/ HandToRack(v) \/ WaitForRack(v)
  \/ CheckFirst(v) \/ StartScout(v) \/ StartScript(v) \/ StartReset(v)
  \/ InitiateUpdate(v) \/ FinishCheck(v) \/ NoFirmwareInfo(v)
  \/ WaitForManual(v) \/ WaitForScript(v) \/ InitialReset(v) \/ WaitForUpload(v)
  \/ WaitForTask(v) \/ ResetHost(v) \/ WaitForReport(v) \/ WaitForScout(v) \/ Retry(v)
  \/ Wait(v)

Progress(i) == UploadEnds(i) \/ TaskEnds(i) \/ ScriptEnds(i)
Scout == PollScout \/ RunScout \/ ReportScout \/ LoseReport \/ StoreReport
Users == Trigger \/ RequestReset \/ ClearRequest \/ CompleteManual \/ EndRackUpgrade
         \/ ChangeRack \/ ForceDelete \/ RemoveMachine

Next ==
  \/ \E v \in Server : Load(v) \/ Handle(v) \/ RunFails(v) \/ Crash(v)
  \/ \E v \in Server : MissingArtifact(v) \/ Defer(v) \/ CannotLock(v)
  \/ \E i \in DOMAIN tasks : Progress(i)
  \/ LeaveHostInit \/ Explore \/ Tick \/ Scout \/ Users \/ UnlockHost

Spec == Init /\ [][Next]_vars

(***************************************************************************)
(* Fairness: the state controller comes back to the host as long as there  *)
(* is something to do, its runs end, uploads and tasks end, site explorer  *)
(* returns, and scout polls and answers.                                   *)
(***************************************************************************)
LiveSpec ==
  /\ Spec
  /\ WF_vars(\E v \in Server : Load(v))
  /\ WF_vars(\E v \in Server : Handle(v))
  /\ WF_vars(\E i \in DOMAIN tasks : Progress(i))
  /\ WF_vars(Explore) /\ WF_vars(Tick) /\ WF_vars(LeaveHostInit) /\ WF_vars(Scout)

(***************************************************************************)
(* Properties.                                                             *)
(***************************************************************************)
At == {"ready", "rack", "checking", "rechecking", "manual", "script", "initial", "upload",
       "task", "reset", "reported", "scout", "failed", "lockdown", "forcedeletion", "gone"}

StateOK(s) ==
  /\ s.at \in At
  /\ s.fw \in Component \cup {None}
  /\ s.at \in {"upload", "task", "reset", "reported", "scout"} =>
       s.fw \in Component /\ s.num < Artifacts[s.fw]
  /\ s.at \in {"task", "scout"} <=> s.task # None
  /\ s.task \in DOMAIN tasks \cup {None}
  /\ s.ops \in Nat /\ s.resets \in 0 .. MaxResets /\ s.rc \in Nat
  /\ s.result \in BOOLEAN \cup {None}

\* The stored state, and those that a run or a report carries, are states of
\* HostReprovisionState: files are counted within their component, a task is
\* one that was started, and resets stay within their budget.
TypeOK ==
  /\ StateOK(st) /\ StateOK(run.st) /\ (report # None => StateOK(report))
  /\ up \in [Server -> [is : {"none", "busy", "failed", "done"}, task : DOMAIN tasks \cup {None}]]
  /\ script \in [Server -> BOOLEAN \cup {None}]
  /\ listed \in Reports /\ seen \subseteq listed \cap Component
  /\ scout.task \in DOMAIN tasks \cup {None}
  /\ faults \in 0 .. MaxFaults /\ requests \in 0 .. MaxRequests

\* A result that WaitingForScoutUpgrade acts on is the one scout reached for the
\* task in that very state, however late scout polls or reports and however
\* often the upgrade was started again (upgrade_task_id).
ReportIsForItsTask ==
  /\ st.at = "scout" /\ st.result = TRUE => tasks[st.task].state = "completed"
  /\ st.at = "scout" /\ st.result = FALSE => tasks[st.task].state = "failed"

\* A host in Ready, whose last request was ended by a check that found nothing
\* left to install, is locked down, unless its profile says otherwise or it is
\* being deleted: although every update lifts the lockdown, and servers, commits,
\* racks, deferrals and users interfere, before and during that check.
ReadyHostIsLockedDown ==
  st.at = "ready" /\ ~req.on /\ ~cut /\ ~deleting => lockdown \/ DisableLockdown

\* Host reprovisioning that no rack asked for is left only when every file of
\* every component that the report lists is installed, or when there is no
\* firmware definition for the host.
UpgradeIsComplete ==
  [][st.at \notin {"ready", "lockdown"} /\ st'.at \in {"ready", "lockdown"} /\ ~run.req.rack
     => listed = NoInfo \/ listed \subseteq Installed]_vars

\* A failed upgrade is retried MAX_FIRMWARE_UPGRADE_RETRIES times and no more
\* until somebody asks for it again: no path through uploads, tasks, resets and
\* rechecks loses the count.
RetriesAreBounded == retried <= MaxRetries


\* A machine that was removed stays removed: neither a handler run nor a scout
\* report that read it before brings its state or its request back, although
\* persist_controller_state compares no version.
RemovedMachineIsGone ==
  [][st.at = "gone" => st'.at = "gone" /\ ~req'.on]_vars
==============================================================================
