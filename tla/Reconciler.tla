----------------------------- MODULE Reconciler -----------------------------
(***************************************************************************)
(* The desired-state reconciler of obacht-agent (internal/reconciler):     *)
(* the rows of the SQLite table `instances`, the Docker objects that the   *)
(* container and compose drivers manage, and the goroutines that act on    *)
(* both: the reconcile pass, the serial apply worker, the IPC handlers and *)
(* the environment.  SQLite runs on one connection, so a statement is one  *)
(* step; everything between two statements or Docker calls interleaves.    *)
(***************************************************************************)
EXTENDS Naturals, FiniteSets, Sequences

CONSTANTS
    Inst,            \* instance ids
    None,            \* "no instance": workActive = ""
    Cfg,             \* contents of config_json, told apart by their hash
    BadCfg,          \* the ones ParseSpec rejects
    NoCfg,           \* no config: no container, no compose file
    RuntimesOf,      \* the runtimes an instance may be installed with
    HardDeletable,   \* instances that DELETE /instances/{id}?hard=1 may name
    DownMayFail,     \* `compose down` and the removal by label may both fail
    Ticking,         \* the 30s ticker (off: only Trigger starts a pass)
    MaxOps, MaxFaults, MaxCrashes  \* bounds: requests, failures, crashes

Runtime == {"container", "compose"}
Desired == {"installed", "stopped", "removed"}
CtrState == {"none", "created", "running", "exited"}
Observed == {"", "installing", "installed", "error", "created", "exited"}

ASSUME ConstantsAssumption ==
    /\ None \notin Inst
    /\ BadCfg \subseteq Cfg
    /\ NoCfg \notin Cfg
    /\ RuntimesOf \in [Inst -> SUBSET Runtime]
    /\ HardDeletable \subseteq Inst
    /\ DownMayFail \in BOOLEAN
    /\ Ticking \in BOOLEAN
    /\ MaxOps \in Nat
    /\ MaxFaults \in Nat
    /\ MaxCrashes \in Nat

VARIABLES
    row,      \* the instances table
    ctr,      \* the container obacht-<id>
    proj,     \* the compose project: its workspace file and what is up
    tsec,     \* instances with rows in template_secrets (no foreign key)
    trigger,  \* the trigger channel, capacity 1
    queue,    \* workQueue
    pending,  \* workPending
    active,   \* workActive
    kick,     \* the workKick channel, capacity 1
    wpc,      \* where the apply worker is
    wrow,     \* the row applyOne read
    wobs,     \* the job's entry of observedByInstance
    ppc,      \* where the reconcile pass is
    pdes,     \* the pass's ListInstances snapshot
    pobs,     \* the pass's docker.List snapshot
    ptodo,    \* instances the current loop of the pass still visits
    rid,      \* the instance the pass is tearing down, or None
    rstep,    \* where that teardown is
    req,      \* an IPC read-modify-write between its read and its write
    ops, faults, crashes  \* what is left of the bounds

durable == <<row, ctr, proj, tsec>>
shared  == <<trigger, queue, pending, active, kick>>
worker  == <<wpc, wrow, wobs>>
pass    == <<ppc, pdes, pobs, ptodo, rid, rstep>>
bounds  == <<ops, faults, crashes>>
vars    == <<durable, shared, worker, pass, req, bounds>>

NoRow  == [desired |-> "absent", runtime |-> "none", cfg |-> NoCfg,
           obs |-> "", svc |-> FALSE]
NoCtr  == [state |-> "none", cfg |-> NoCfg]
NoProj == [ws |-> NoCfg, up |-> NoCfg]
NoReq  == [id |-> None, desired |-> "absent", runtime |-> "none", cfg |-> NoCfg]

Row == [desired : Desired \union {"absent"}, runtime : Runtime \union {"none"},
        cfg : Cfg \union {NoCfg}, obs : Observed, svc : BOOLEAN]
Container == [state : CtrState, cfg : Cfg \union {NoCfg}]
Project == [ws : Cfg \union {NoCfg}, up : Cfg \union {NoCfg}]
RowWrite == [id : Inst \union {None}, desired : Desired \union {"absent"},
             runtime : Runtime \union {"none"}, cfg : Cfg \union {NoCfg}]
Job == [id : Inst, obs : CtrState]
WorkerPc == {"idle", "drain", "read", "parse", "mark", "find", "create",
             "start", "write", "up", "svc", "obs", "fresh", "finish"}
PassPc == {"idle", "list", "observe", "each", "kick", "gcctr", "gccmp"}
TeardownStep == {"none", "ctr", "drop", "down", "clean", "delete"}

Present(i) == row[i].desired # "absent"

\* A definition named X_Fault is X with a plausible bug; nothing else uses it.
\* It stands before X to show which properties that bug would break.
Busy_IgnoresQueue(i) == active = i

\* The id is queued or being applied: workerBusyWith.
Busy(i) == active = i \/ i \in pending

-----------------------------------------------------------------------------
\* The agent starts with an empty database and runs one pass at once.
Init ==
    /\ row = [i \in Inst |-> NoRow]
    /\ ctr = [i \in Inst |-> NoCtr]
    /\ proj = [i \in Inst |-> NoProj]
    /\ tsec = {}
    /\ trigger = FALSE
    /\ queue = <<>>
    /\ pending = {}
    /\ active = None
    /\ kick = FALSE
    /\ wpc = "idle" /\ wrow = NoRow /\ wobs = "none"
    /\ ppc = "list"
    /\ pdes = [i \in Inst |-> NoRow]
    /\ pobs = [i \in Inst |-> "none"]
    /\ ptodo = {}
    /\ rid = None /\ rstep = "none"
    /\ req = NoReq
    /\ ops = MaxOps /\ faults = MaxFaults /\ crashes = MaxCrashes

Fault == faults > 0 /\ faults' = faults - 1

-----------------------------------------------------------------------------
(* Requests: obachtctl over IPC, and the signed mutations that mirror it.  *)

Request == ops > 0 /\ ops' = ops - 1

\* UpsertInstance leaves the observed columns and the services alone.
Written(i, d, rt, c) ==
    [row EXCEPT ![i] = [@ EXCEPT !.desired = d, !.runtime = rt, !.cfg = c]]

\* instance.upsert: install, reconfigure or revive an instance; the request
\* names the desired state, installed by default.
Upsert(i, d, rt, c) ==
    /\ Request
    /\ rt \in RuntimesOf[i]
    /\ row' = Written(i, d, rt, c)
    /\ trigger' = TRUE
    /\ UNCHANGED <<ctr, proj, tsec, queue, pending, active, kick, worker, pass,
                   req, faults, crashes>>

\* set_state and the soft delete read the whole row first ...
SetStateRead(i, d) ==
    /\ Request
    /\ req = NoReq
    /\ Present(i)
    /\ row[i].desired # d
    /\ req' = [id |-> i, desired |-> d, runtime |-> row[i].runtime,
               cfg |-> row[i].cfg]
    /\ UNCHANGED <<durable, shared, worker, pass, faults, crashes>>

\* ... and write the whole row back, in a second statement.
SetStateWrite ==
    /\ req # NoReq
    /\ row' = Written(req.id, req.desired, req.runtime, req.cfg)
    /\ trigger' = TRUE
    /\ req' = NoReq
    /\ UNCHANGED <<ctr, proj, tsec, queue, pending, active, kick, worker, pass,
                   bounds>>

\* DeleteInstance at once; services, locks and bindings cascade.
HardDelete(i) ==
    /\ i \in HardDeletable
    /\ Request
    /\ Present(i)
    /\ row' = [row EXCEPT ![i] = NoRow]
    /\ trigger' = TRUE
    /\ UNCHANGED <<ctr, proj, tsec, queue, pending, active, kick, worker, pass,
                   req, faults, crashes>>

-----------------------------------------------------------------------------
(* The apply worker: runApplyWorker and applyOne.                          *)

WorkerGoto(pc) == wpc' = pc /\ UNCHANGED <<wrow, wobs>>
WorkerOnly == UNCHANGED <<queue, pending, active, kick, pass, req, ops, crashes>>

\* UPDATE ... WHERE id: no effect once the row is gone.
SetObserved(i, s) ==
    row' = IF Present(i) THEN [row EXCEPT ![i].obs = s] ELSE row

WorkerWake ==
    /\ wpc = "idle" /\ kick
    /\ kick' = FALSE
    /\ WorkerGoto("drain")
    /\ UNCHANGED <<durable, trigger, queue, pending, active, pass, req, bounds>>

WorkerDrained ==
    /\ wpc = "drain" /\ queue = <<>>
    /\ WorkerGoto("idle")
    /\ UNCHANGED <<durable, shared, pass, req, bounds>>

WorkerPop_KeepsPending ==
    /\ wpc = "drain" /\ queue # <<>>
    /\ queue' = Tail(queue)
    /\ active' = Head(queue).id
    /\ wobs' = Head(queue).obs
    /\ wpc' = "read"
    /\ UNCHANGED <<durable, trigger, pending, kick, wrow, pass, req, bounds>>

WorkerPop ==
    /\ wpc = "drain" /\ queue # <<>>
    /\ queue' = Tail(queue)
    /\ pending' = pending \ {Head(queue).id}
    /\ active' = Head(queue).id
    /\ wobs' = Head(queue).obs
    /\ wpc' = "read"
    /\ UNCHANGED <<durable, trigger, kick, wrow, pass, req, bounds>>

\* applyOne re-reads the row: gone, flipped while queued, or still to apply.
WorkerRead ==
    /\ wpc = "read"
    /\ IF row[active].desired = "installed"
       THEN wpc' = "parse" /\ wrow' = row[active] /\ wobs' = wobs
       ELSE WorkerGoto("finish")
    /\ trigger' = (trigger \/ row[active].desired \in {"stopped", "removed"})
    /\ UNCHANGED <<durable, faults>> /\ WorkerOnly

\* ParseSpec; for a container also injectIPC (its secret row needs the
\* instance row) and ExpandSecrets.  Only compose records a parse error.
WorkerParse ==
    /\ wpc = "parse"
    /\ IF wrow.cfg \in BadCfg
       THEN /\ IF wrow.runtime = "compose" THEN SetObserved(active, "error")
                                           ELSE row' = row
            /\ tsec' = tsec
            /\ WorkerGoto("fresh")
       ELSE /\ row' = row
            /\ \/ wrow.runtime = "compose" /\ tsec' = tsec /\ WorkerGoto("mark")
               \/ /\ wrow.runtime = "container" /\ Present(active)
                  /\ tsec' = tsec \union {active} /\ WorkerGoto("mark")
               \/ /\ wrow.runtime = "container" /\ ~Present(active)
                  /\ tsec' = tsec /\ WorkerGoto("fresh")
    /\ UNCHANGED <<ctr, proj, trigger, faults>> /\ WorkerOnly

\* markInstalling: only a first install shows the transient state.
WorkerMark ==
    /\ wpc = "mark"
    /\ IF wrow.obs = "" THEN SetObserved(active, "installing") ELSE row' = row
    /\ WorkerGoto(IF wrow.runtime = "container" THEN "find" ELSE "write")
    /\ UNCHANGED <<ctr, proj, tsec, trigger, faults>> /\ WorkerOnly

WorkerFind_IgnoresHash ==
    /\ wpc = "find"
    /\ IF ctr[active].state = "running"
       THEN ctr' = ctr /\ WorkerGoto("svc")
       ELSE ctr' = [ctr EXCEPT ![active] = NoCtr] /\ WorkerGoto("create")
    /\ UNCHANGED <<row, proj, tsec, trigger, faults>> /\ WorkerOnly

WorkerFind_IgnoresState ==
    /\ wpc = "find"
    /\ IF ctr[active].cfg = wrow.cfg
       THEN ctr' = ctr /\ WorkerGoto("svc")
       ELSE ctr' = [ctr EXCEPT ![active] = NoCtr] /\ WorkerGoto("create")
    /\ UNCHANGED <<row, proj, tsec, trigger, faults>> /\ WorkerOnly

\* docker.Apply: keep a running container with the wanted hash, else remove it.
WorkerFind ==
    /\ wpc = "find"
    /\ IF ctr[active] = [state |-> "running", cfg |-> wrow.cfg]
       THEN ctr' = ctr /\ WorkerGoto("svc")
       ELSE ctr' = [ctr EXCEPT ![active] = NoCtr] /\ WorkerGoto("create")
    /\ UNCHANGED <<row, proj, tsec, trigger, faults>> /\ WorkerOnly

\* pullIfMissing and create.
WorkerCreate ==
    /\ wpc = "create"
    /\ ctr' = [ctr EXCEPT ![active] = [state |-> "created", cfg |-> wrow.cfg]]
    /\ WorkerGoto("start")
    /\ UNCHANGED <<row, proj, tsec, trigger, faults>> /\ WorkerOnly

\* start; a container removed meanwhile answers 404, an apply error.
WorkerStart ==
    /\ wpc = "start"
    /\ IF ctr[active].state # "none"
       THEN /\ ctr' = [ctr EXCEPT ![active].state = "running"]
            /\ row' = row /\ WorkerGoto("svc")
       ELSE /\ ctr' = ctr
            /\ SetObserved(active, "error") /\ WorkerGoto("fresh")
    /\ UNCHANGED <<proj, tsec, trigger, faults>> /\ WorkerOnly

WorkerWrite_RereadsRow ==
    /\ wpc = "write"
    /\ tsec' = tsec \union {active}
    /\ proj' = [proj EXCEPT ![active].ws = row[active].cfg]
    /\ WorkerGoto("up")
    /\ UNCHANGED <<row, ctr, trigger, faults>> /\ WorkerOnly

\* compose.Apply: renderBody (template secrets) and the compose file.
WorkerWrite ==
    /\ wpc = "write"
    /\ tsec' = tsec \union {active}
    /\ proj' = [proj EXCEPT ![active].ws = wrow.cfg]
    /\ WorkerGoto("up")
    /\ UNCHANGED <<row, ctr, trigger, faults>> /\ WorkerOnly

\* `compose up -d` on every apply; it fails when the file is gone.
WorkerUp ==
    /\ wpc = "up"
    /\ IF proj[active].ws # NoCfg
       THEN /\ proj' = [proj EXCEPT ![active].up = proj[active].ws]
            /\ row' = row /\ WorkerGoto("svc")
       ELSE /\ proj' = proj
            /\ SetObserved(active, "error") /\ WorkerGoto("fresh")
    /\ UNCHANGED <<ctr, tsec, trigger, faults>> /\ WorkerOnly

\* A call of the apply fails: a transient Docker error (and an injectIPC one)
\* leaves the observed state untouched, any other is recorded.  A failed
\* `compose up` may leave services running.
WorkerApplyFails ==
    /\ \/ wpc \in {"find", "create", "start", "write", "up"}
       \/ wpc = "parse" /\ wrow.runtime = "container"
    /\ Fault
    /\ \/ row' = row
       \/ SetObserved(active, "error")
    /\ \/ proj' = proj
       \/ /\ wpc = "up" /\ proj[active].ws # NoCfg
          /\ proj' = [proj EXCEPT ![active].up = proj[active].ws]
    /\ WorkerGoto("fresh")
    /\ UNCHANGED <<ctr, tsec, trigger>> /\ WorkerOnly

\* UpsertService; its foreign key refuses a missing row, which is only logged.
WorkerService ==
    /\ wpc = "svc"
    /\ row' = IF Present(active) THEN [row EXCEPT ![active].svc = TRUE] ELSE row
    /\ WorkerGoto("obs")
    /\ UNCHANGED <<ctr, proj, tsec, trigger, faults>> /\ WorkerOnly

Reported_AnyState ==
    IF wrow.runtime = "container" /\ wobs # "none" THEN wobs ELSE "installed"

\* The state reported for a container comes from the enqueueing pass's
\* snapshot, not from the container just applied.
Reported ==
    IF wrow.runtime = "container" /\ wobs \in {"created", "exited"}
    THEN wobs ELSE "installed"

WorkerObserve ==
    /\ wpc = "obs"
    /\ SetObserved(active, Reported)
    /\ WorkerGoto("fresh")
    /\ UNCHANGED <<ctr, proj, tsec, trigger, faults>> /\ WorkerOnly

\* The second read of applyOne: catch a flip that happened during the apply.
WorkerFresh ==
    /\ wpc = "fresh"
    /\ trigger' = (trigger \/ row[active].desired \in {"stopped", "removed"})
    /\ WorkerGoto("finish")
    /\ UNCHANGED <<durable, faults>> /\ WorkerOnly

WorkerFinish_StopsDraining ==
    /\ wpc = "finish"
    /\ active' = None
    /\ wpc' = "idle" /\ wrow' = NoRow /\ wobs' = "none"
    /\ UNCHANGED <<durable, trigger, queue, pending, kick, pass, req, bounds>>

WorkerFinish ==
    /\ wpc = "finish"
    /\ active' = None
    /\ wpc' = "drain" /\ wrow' = NoRow /\ wobs' = "none"
    /\ UNCHANGED <<durable, trigger, queue, pending, kick, pass, req, bounds>>

WorkerStep ==
    \/ WorkerWake \/ WorkerDrained \/ WorkerPop \/ WorkerRead \/ WorkerParse
    \/ WorkerMark \/ WorkerFind \/ WorkerCreate \/ WorkerStart \/ WorkerWrite
    \/ WorkerUp \/ WorkerApplyFails \/ WorkerService \/ WorkerObserve
    \/ WorkerFresh \/ WorkerFinish

-----------------------------------------------------------------------------
(* The reconcile pass: one goroutine, passes never overlap.                *)

PassGoto(pc) == ppc' = pc /\ UNCHANGED <<pdes, pobs, ptodo, rid, rstep>>
PassOnly == UNCHANGED <<active, worker, req, ops, crashes>>

\* Run's select: the trigger channel ...
PassTriggered ==
    /\ ppc = "idle" /\ trigger
    /\ trigger' = FALSE
    /\ PassGoto("list")
    /\ UNCHANGED <<durable, queue, pending, kick, faults>> /\ PassOnly

\* ... or the ticker.
PassTick ==
    /\ Ticking /\ ppc = "idle"
    /\ PassGoto("list")
    /\ UNCHANGED <<durable, trigger, queue, pending, kick, faults>> /\ PassOnly

PassList ==
    /\ ppc = "list"
    /\ pdes' = row
    /\ ppc' = "observe"
    /\ UNCHANGED <<pobs, ptodo, rid, rstep>>
    /\ UNCHANGED <<durable, trigger, queue, pending, kick, faults>> /\ PassOnly

PassObserve ==
    /\ ppc = "observe"
    /\ pobs' = [i \in Inst |-> ctr[i].state]
    /\ ptodo' = {i \in Inst : pdes[i].desired # "absent"}
    /\ ppc' = "each"
    /\ UNCHANGED <<pdes, rid, rstep>>
    /\ UNCHANGED <<durable, trigger, queue, pending, kick, faults>> /\ PassOnly

\* The pass forgets its snapshots when it returns.
PassReturn ==
    /\ ppc' = "idle"
    /\ pdes' = [i \in Inst |-> NoRow]
    /\ pobs' = [i \in Inst |-> "none"]
    /\ ptodo' = {}
    /\ UNCHANGED <<rid, rstep>>

\* docker.List failed: reconcile returns before it touched anything.
PassObserveFails ==
    /\ ppc = "observe"
    /\ Fault
    /\ PassReturn
    /\ UNCHANGED <<durable, trigger, queue, pending, kick>> /\ PassOnly

\* enqueueApply, deduplicated against queued and in-flight work.
PassEnqueue(i) ==
    /\ ppc = "each" /\ rid = None /\ i \in ptodo
    /\ pdes[i].desired = "installed"
    /\ ptodo' = ptodo \ {i}
    /\ IF Busy(i)
       THEN UNCHANGED <<queue, pending, ppc>>
       ELSE /\ queue' = Append(queue, [id |-> i, obs |-> pobs[i]])
            /\ pending' = pending \union {i}
            /\ ppc' = "kick"
    /\ UNCHANGED <<pdes, pobs, rid, rstep>>
    /\ UNCHANGED <<durable, trigger, kick, faults>> /\ PassOnly

\* The kick follows after workMu is released.
PassKick ==
    /\ ppc = "kick"
    /\ kick' = TRUE
    /\ PassGoto("each")
    /\ UNCHANGED <<durable, trigger, queue, pending, faults>> /\ PassOnly

\* Stop or remove is deferred to a later pass while the worker holds i.
PassDefer(i) ==
    /\ ppc = "each" /\ rid = None /\ i \in ptodo
    /\ pdes[i].desired \in {"stopped", "removed"}
    /\ Busy(i)
    /\ ptodo' = ptodo \ {i}
    /\ UNCHANGED <<ppc, pdes, pobs, rid, rstep>>
    /\ UNCHANGED <<durable, trigger, queue, pending, kick, faults>> /\ PassOnly

PassDown_Unguarded(i) ==
    /\ ppc = "each" /\ rid = None /\ i \in ptodo
    /\ pdes[i].desired \in {"stopped", "removed"}
    /\ ptodo' = ptodo \ {i}
    /\ rid' = i
    /\ rstep' = IF pdes[i].runtime = "container" THEN "ctr" ELSE "down"
    /\ UNCHANGED <<ppc, pdes, pobs>>
    /\ UNCHANGED <<durable, trigger, queue, pending, kick, faults>> /\ PassOnly

\* reconcileContainerDown and reconcileComposeDown begin.
PassDown(i) ==
    /\ ppc = "each" /\ rid = None /\ i \in ptodo
    /\ pdes[i].desired \in {"stopped", "removed"}
    /\ ~Busy(i)
    /\ ptodo' = ptodo \ {i}
    /\ rid' = i
    /\ rstep' = IF pdes[i].runtime = "container" THEN "ctr" ELSE "down"
    /\ UNCHANGED <<ppc, pdes, pobs>>
    /\ UNCHANGED <<durable, trigger, queue, pending, kick, faults>> /\ PassOnly

PassOrphans_OnlyStopped ==
    /\ ppc = "each" /\ rid = None /\ ptodo = {}
    /\ ppc' = "gcctr"
    /\ ptodo' = {i \in Inst : pobs[i] = "exited" /\ pdes[i].desired = "absent"}
    /\ UNCHANGED <<pdes, pobs, rid, rstep>>
    /\ UNCHANGED <<durable, trigger, queue, pending, kick, faults>> /\ PassOnly

\* Orphans are judged by the two snapshots; the worker is not asked.
PassOrphans ==
    /\ ppc = "each" /\ rid = None /\ ptodo = {}
    /\ ppc' = "gcctr"
    /\ ptodo' = {i \in Inst : pobs[i] # "none" /\ pdes[i].desired = "absent"}
    /\ UNCHANGED <<pdes, pobs, rid, rstep>>
    /\ UNCHANGED <<durable, trigger, queue, pending, kick, faults>> /\ PassOnly

\* compose.List reads the workspaces now, the rows are those of the snapshot.
PassComposeOrphans ==
    /\ ppc = "gcctr" /\ rid = None /\ ptodo = {}
    /\ ppc' = "gccmp"
    /\ ptodo' = {i \in Inst : proj[i].ws # NoCfg /\ pdes[i].desired = "absent"}
    /\ UNCHANGED <<pdes, pobs, rid, rstep>>
    /\ UNCHANGED <<durable, trigger, queue, pending, kick, faults>> /\ PassOnly

PassCollect(i) ==
    /\ ppc \in {"gcctr", "gccmp"} /\ rid = None /\ i \in ptodo
    /\ ptodo' = ptodo \ {i}
    /\ rid' = i
    /\ rstep' = IF ppc = "gcctr" THEN "ctr" ELSE "down"
    /\ UNCHANGED <<ppc, pdes, pobs>>
    /\ UNCHANGED <<durable, trigger, queue, pending, kick, faults>> /\ PassOnly

PassEnd ==
    /\ ppc = "gccmp" /\ rid = None /\ ptodo = {}
    /\ PassReturn
    /\ UNCHANGED <<durable, trigger, queue, pending, kick, faults>> /\ PassOnly

-----------------------------------------------------------------------------
(* Tearing one instance down, step by step, inside the pass.               *)

TeardownGoto(step) ==
    /\ rstep' = step
    /\ rid' = IF step = "none" THEN None ELSE rid
    /\ UNCHANGED <<ppc, pdes, pobs, ptodo>>

\* Rows are deleted for desired = removed only; orphans have none.
Forgets == ppc = "each" /\ pdes[rid].desired = "removed"

\* docker.Remove.
TeardownContainer ==
    /\ rstep = "ctr"
    /\ ctr' = [ctr EXCEPT ![rid] = NoCtr]
    /\ TeardownGoto(IF Forgets THEN "drop" ELSE "none")
    /\ UNCHANGED <<row, proj, tsec, trigger, queue, pending, kick, faults>>
    /\ PassOnly

TeardownFails_GoesOn ==
    /\ rstep \in {"ctr", "clean"}
    /\ Fault
    /\ TeardownGoto(IF Forgets THEN "delete" ELSE "none")
    /\ UNCHANGED <<durable, trigger, queue, pending, kick>> /\ PassOnly

\* docker.Remove, compose.Remove or DeleteInstance failed: the instance is left
\* as it is for a later pass.  compose.Remove fails before or after it deleted
\* the workspace.
TeardownFails ==
    /\ rstep \in {"ctr", "clean", "delete"}
    /\ Fault
    /\ \/ proj' = proj
       \/ rstep = "clean" /\ proj' = [proj EXCEPT ![rid].ws = NoCfg]
    /\ TeardownGoto("none")
    /\ UNCHANGED <<row, ctr, tsec, trigger, queue, pending, kick>> /\ PassOnly

\* DropTemplateSecrets of a container; an error is only logged.
TeardownDropSecrets ==
    /\ rstep = "drop"
    /\ \/ tsec' = tsec \ {rid} /\ faults' = faults
       \/ tsec' = tsec /\ Fault
    /\ TeardownGoto("delete")
    /\ UNCHANGED <<row, ctr, proj, trigger, queue, pending, kick>>
    /\ PassOnly

TeardownDown_Skipped ==
    /\ rstep = "down"
    /\ TeardownGoto("clean")
    /\ UNCHANGED <<durable, trigger, queue, pending, kick, faults>> /\ PassOnly

\* compose.Remove, first half: `down -v`, else the removal by label.  When both
\* fail that is only logged: compose.Remove goes on.
TeardownDown ==
    /\ rstep = "down"
    /\ \E failed \in {FALSE, DownMayFail} :
          /\ IF failed THEN Fault ELSE faults' = faults
          /\ proj' = IF failed THEN proj ELSE [proj EXCEPT ![rid].up = NoCfg]
    /\ TeardownGoto("clean")
    /\ UNCHANGED <<row, ctr, tsec, trigger, queue, pending, kick>> /\ PassOnly

\* compose.Remove, second half: the workspace and the template secrets.
TeardownClean ==
    /\ rstep = "clean"
    /\ proj' = [proj EXCEPT ![rid].ws = NoCfg]
    /\ tsec' = tsec \ {rid}
    /\ TeardownGoto(IF Forgets THEN "delete" ELSE "none")
    /\ UNCHANGED <<row, ctr, trigger, queue, pending, kick, faults>>
    /\ PassOnly

\* ReleaseLocksForInstance and DeleteInstance, by id: the row as it is now.
TeardownDelete ==
    /\ rstep = "delete"
    /\ row' = [row EXCEPT ![rid] = NoRow]
    /\ TeardownGoto("none")
    /\ UNCHANGED <<ctr, proj, tsec, trigger, queue, pending, kick, faults>>
    /\ PassOnly

TeardownStepNext ==
    \/ TeardownContainer \/ TeardownFails \/ TeardownDropSecrets
    \/ TeardownDown \/ TeardownClean \/ TeardownDelete

PassStep ==
    \/ PassList \/ PassObserve \/ PassObserveFails \/ PassKick
    \/ \E i \in Inst : \/ PassEnqueue(i) \/ PassDefer(i)
                       \/ PassDown(i) \/ PassCollect(i)
    \/ PassOrphans \/ PassComposeOrphans \/ PassEnd
    \/ TeardownStepNext

-----------------------------------------------------------------------------
(* The environment.                                                        *)

\* The app in the container exits.
ContainerExit(i) ==
    /\ ctr[i].state = "running"
    /\ Fault
    /\ ctr' = [ctr EXCEPT ![i].state = "exited"]
    /\ UNCHANGED <<row, proj, tsec, shared, worker, pass, req, ops, crashes>>

\* The agent dies and is restarted: SQLite and Docker keep what they have,
\* queues, snapshots and half-done requests are gone, Run starts with a pass.
Crash ==
    /\ crashes > 0 /\ crashes' = crashes - 1
    /\ trigger' = FALSE
    /\ queue' = <<>> /\ pending' = {} /\ active' = None /\ kick' = FALSE
    /\ wpc' = "idle" /\ wrow' = NoRow /\ wobs' = "none"
    /\ ppc' = "list"
    /\ pdes' = [i \in Inst |-> NoRow]
    /\ pobs' = [i \in Inst |-> "none"]
    /\ ptodo' = {}
    /\ rid' = None /\ rstep' = "none"
    /\ req' = NoReq
    /\ UNCHANGED <<durable, ops, faults>>

Next ==
    \/ \E i \in Inst, d \in Desired, rt \in Runtime, c \in Cfg : Upsert(i, d, rt, c)
    \/ \E i \in Inst, d \in Desired : SetStateRead(i, d)
    \/ SetStateWrite
    \/ \E i \in Inst : HardDelete(i) \/ ContainerExit(i)
    \/ WorkerStep
    \/ PassTriggered
    \/ PassTick
    \/ PassStep
    \/ Crash

Spec == Init /\ [][Next]_vars

\* The goroutines run, a request handler finishes what it began, and the
\* select of Run neither starves the ticker nor the trigger channel.
FairSpec ==
    /\ Spec
    /\ WF_vars(WorkerStep)
    /\ WF_vars(PassStep)
    /\ WF_vars(PassTriggered)
    /\ WF_vars(PassTick)
    /\ WF_vars(SetStateWrite)

-----------------------------------------------------------------------------
(* Properties.                                                             *)

\* Every variable of the model has its type.
TypeOK ==
    /\ row \in [Inst -> Row]
    /\ ctr \in [Inst -> Container]
    /\ proj \in [Inst -> Project]
    /\ tsec \subseteq Inst
    /\ trigger \in BOOLEAN
    /\ queue \in Seq(Job)
    /\ pending \subseteq Inst
    /\ active \in Inst \union {None}
    /\ kick \in BOOLEAN
    /\ wpc \in WorkerPc /\ wrow \in Row /\ wobs \in CtrState
    /\ ppc \in PassPc
    /\ pdes \in [Inst -> Row]
    /\ pobs \in [Inst -> CtrState]
    /\ ptodo \subseteq Inst
    /\ rid \in Inst \union {None}
    /\ rstep \in TeardownStep
    /\ req \in RowWrite
    /\ ops \in Nat /\ faults \in Nat /\ crashes \in Nat

\* The deduplication of enqueueApply and the worker's pop keep workQueue and
\* workPending in step: an instance has at most one job, queued or in flight.
OneJobPerInstance ==
    /\ pending = {queue[k].id : k \in DOMAIN queue}
    /\ \A j, k \in DOMAIN queue : j # k => queue[j].id # queue[k].id
    /\ active \notin pending

\* A job appended while the worker goes to sleep is not forgotten: the
\* coalescing kick channel holds a token, or the pass is about to put one in.
NoLostKick ==
    queue # <<>> /\ wpc = "idle" => kick \/ ppc = "kick"

\* Instances that nobody hard-deletes: only the pass deletes their rows.
Soft == Inst \ HardDeletable

\* The ones of them that keep the runtime they were installed with.
Steady == {i \in Soft : \A s, t \in RuntimesOf[i] : s = t}

\* "Apply and Remove can never run concurrently for one instance": the pass
\* tears an instance down only while the worker neither applies it nor has it
\* queued (workerBusyWith, loop.go).  A hard delete of the same instance, not
\* of another one, makes it an orphan under the worker's hands.
NoApplyRemoveOverlap == rid \in Soft => ~Busy(rid)

\* A compose project that is up has its workspace on disk.  compose.List, the
\* source of the orphan collection, only sees workspaces: a project without
\* one is never torn down again once its row is gone.
ProjectFindable == \A i \in Soft : proj[i].up # NoCfg => proj[i].ws # NoCfg

\* The row goes last: when reconcileContainerDown or reconcileComposeDown have
\* deleted it, no container or workspace is left, and no template secret of a
\* compose instance, even when Docker could not take its project down.  The
\* template secrets of a container may stay: reconcileContainerDown only logs
\* that it could not drop them and deletes the row.
UninstallLeavesNothing ==
    \A i \in Steady :
        ~Present(i) => /\ ctr[i] = NoCtr /\ proj[i].ws = NoCfg
                       /\ "compose" \in RuntimesOf[i] => i \notin tsec

\* The orphan collection takes no instance for a stranger that only the pass
\* forgets: it works from rows and containers read at different moments and
\* does not ask the worker, and still tears down nothing that a request or an
\* apply brought in since, nor what a failed or interrupted teardown left.
OrphansAreStrangers == rid \in Steady => ppc = "each"

\* applyContainer and applyCompose write observed_state = installed only over
\* a container or project that their own apply brought up and that nothing
\* tore down since (it may have exited by itself).
InstalledIsEarned ==
    [][\A i \in Soft :
         row[i].obs # "installed" /\ row'[i].obs = "installed" =>
            \/ wrow.runtime = "container" /\ ctr[i].cfg = wrow.cfg
            \/ wrow.runtime = "compose" /\ proj[i].up = wrow.cfg]_vars

\* The instances that the abstract specification speaks of: not a compose
\* project that `compose down` may leave running.
Kept == {i \in Steady : DownMayFail => "compose" \notin RuntimesOf[i]}

\* Where the worker has read the row it applies and not yet given up on it.
Applying == {"parse", "mark", "find", "create", "start", "write", "up", "svc", "obs"}

Wanted(r) == [state |-> r.desired, cfg |-> r.cfg]

Doing(i) ==
    IF active = i /\ wpc \in Applying
    THEN [kind |-> "apply", cfg |-> wrow.cfg]
    ELSE [kind |-> IF rid = i THEN "down" ELSE "none", cfg |-> NoCfg]

Held(i) == IF ctr[i].cfg # NoCfg THEN ctr[i].cfg ELSE proj[i].up

D == INSTANCE Deployment WITH
        Inst <- Kept,
        want <- [i \in Kept |-> Wanted(row[i])],
        seen <- [i \in Kept |-> pdes[i].desired],
        job  <- [i \in Kept |-> Doing(i)],
        up   <- [i \in Kept |-> Held(i)],
        told <- [i \in Kept |-> row[i].obs = "installed"]

\* Whatever failures, restarts and interleavings it takes, the loop, the worker
\* and the drivers treat an instance as Deployment says: apply and teardown are
\* one job each, an apply brings up the configuration it read and reports
\* nothing else, and a row goes only when Docker holds nothing any more.
DeploysAsAsked == D!Spec

\* What the loop owes an instance once requests and failures have stopped.
Up(i) == \/ /\ row[i].runtime = "container"
            /\ ctr[i] = [state |-> "running", cfg |-> row[i].cfg]
         \/ /\ row[i].runtime = "compose"
            /\ proj[i] = [ws |-> row[i].cfg, up |-> row[i].cfg]

Down(i) == ctr[i] = NoCtr /\ proj[i] = NoProj

\* A stopped compose instance keeps nothing either: compose.Remove deletes its
\* workspace and its secrets, whatever the comment at loop.go:1095 says.
Settled(i) ==
    \/ row[i].desired = "absent" /\ Down(i)
    \/ row[i].desired = "stopped" /\ Down(i)
    \/ row[i].desired = "installed" /\ row[i].cfg \in BadCfg
    \/ row[i].desired = "installed" /\ Up(i) /\ row[i].obs = "installed" /\ row[i].svc

\* "Desired state in SQLite is the SSOT, the next start converges": after the
\* last request, failure and crash every instance reaches what its row asks
\* for, observed state and services included, and stays there.
Converges == \A i \in Inst : <>[]Settled(i)

\* A job that was queued is taken by the worker, whatever runs before it.
QueuedIsServed == \A i \in Inst : i \in pending ~> i \notin pending

-----------------------------------------------------------------------------
(* A statement of the repository's comments that the code does not keep.   *)

\* "Desired state in SQLite is the SSOT": the pass deletes a row only while
\* that row asks for it.
OnlyRemovedRowsDeleted ==
    [][rstep = "delete" /\ row[rid].desired \in {"installed", "stopped"}
         => row'[rid].desired # "absent"]_vars
=============================================================================
