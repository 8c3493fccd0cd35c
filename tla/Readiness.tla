----------------------------- MODULE Readiness -----------------------------
(***************************************************************************)
(* The readiness signal of one container instance (internal/readiness and  *)
(* the reconciler's calls into it): service_ready in the instance row, the *)
(* Prober's maps, the starting goroutines, and the two goroutines of the   *)
(* reconciler that begin, forget, reset and re-probe.  What the apply      *)
(* worker and the pass do to the instance is reduced to what readiness     *)
(* reads; the module Reconciler has them in full.                          *)
(***************************************************************************)
EXTENDS Naturals

CONSTANTS
    Run,             \* identities of starting goroutines, reused once ended
    None,            \* no run registered, no address known
    Addr,            \* addresses on obacht-edge
    Bindings,        \* whether the instance has a domain: a set of Booleans
    UnhealthyAfter,  \* unhealthyAfter
    MaxDisturbances  \* bound: requests, errors, app failures and crashes

ASSUME ReadinessAssumption ==
    /\ None \notin Run \union Addr
    /\ Bindings \subseteq BOOLEAN
    /\ UnhealthyAfter \in Nat \ {0}
    /\ MaxDisturbances \in Nat

VARIABLES
    row,        \* the instance row; `installed`: observed_state = "installed"
    ctr,        \* the container obacht-<id>; `stale`: not of the row's config
    bound,      \* a domain is bound: the probe goes through Caddy
    active,     \* active[id]: the registered run
    cancelled,  \* runs whose context is cancelled
    failures,   \* failures[id], counted up to UnhealthyAfter
    ips,        \* ips[container]
    rpc,        \* where each run is
    wpc, wexited, wbegin,         \* the worker; the job's snapshot; begin or not
    ppc, prow, cur,               \* the pass: its row and RunSteady's state
    left                          \* what is left of the bound

prober == <<active, cancelled, failures, ips>>
worker == <<wpc, wexited, wbegin>>
pass   == <<ppc, prow, cur>>
vars   == <<row, ctr, bound, prober, rpc, worker, pass, left>>

State == {"", "starting", "ready", "unhealthy"}
RunPc == {"off", "worker", "pass", "probe", "passed", "failed",
          "wait", "mark+", "mark-", "set+", "set-"}
WorkerPc == {"idle", "queued", "observe", "begin", "called"}
PassPc == {"idle", "each", "collect", "begin", "called", "forget", "reset",
           "states", "owner", "probe", "passed", "failed", "set+", "set-"}
Row == [desired : {"absent", "installed", "stopped", "removed"},
        installed : BOOLEAN, ready : State]
Container == [state : {"none", "exited", "booting", "serving"},
              stale : BOOLEAN, addr : Addr]

NoRow == [desired |-> "absent", installed |-> FALSE, ready |-> ""]
Running == ctr.state \in {"booting", "serving"}

\* The agent starts, for the first time or after it died at some point: the
\* row and the container are as they were left.  (Exited containers and other
\* configurations come with AppFails and Upsert.)
Init ==
    /\ row \in Row /\ row.desired \in {"installed", "stopped"}
    /\ ctr \in Container /\ ~ctr.stale /\ ctr.state # "exited"
    /\ bound \in Bindings
    /\ active = None /\ cancelled = {} /\ failures = 0 /\ ips = None
    /\ rpc = [r \in Run |-> "off"]
    /\ wpc = "idle" /\ wexited = FALSE /\ wbegin = FALSE
    /\ ppc = "idle" /\ prow = NoRow /\ cur = ""
    /\ left = MaxDisturbances

Disturbed == left > 0 /\ left' = left - 1

-----------------------------------------------------------------------------
(* Writing the row.  An UPDATE of a deleted row changes nothing.           *)

SetServiceReady(s) ==
    row' = IF row.desired = "absent" THEN row ELSE [row EXCEPT !.ready = s]

\* Set reads the row, returns when the state is the wanted one, else writes it.
\* Whatever happens between the two statements, the outcome is that of one
\* write: at the time of the read when it returned, else at the time of the
\* write.  An error of either is logged and the state is not recorded.
Set(s) ==
    \/ SetServiceReady(s) /\ left' = left
    \/ row' = row /\ Disturbed

-----------------------------------------------------------------------------
(* The starting phase.                                                     *)

\* A definition named X_Fault is X with a plausible bug; nothing else uses it.

Cancels == cancelled' = cancelled \union ({active} \ {None})

\* Begin, up to its call of Set: the run registered before is cancelled.
Begin(r, caller) ==
    /\ rpc[r] = "off"
    /\ rpc' = [rpc EXCEPT ![r] = caller]
    /\ Cancels
    /\ active' = r /\ failures' = 0 /\ ips' = None

\* The rest of Begin: Set, with the run's own context, then the goroutine is
\* started and Begin returns to the worker or the pass.
BeginSet(r) ==
    /\ rpc[r] \in {"worker", "pass"}
    /\ IF r \in cancelled THEN UNCHANGED <<row, left>> ELSE Set("starting")
    /\ rpc' = [rpc EXCEPT ![r] = "probe"]
    /\ IF rpc[r] = "worker" THEN wpc' = "idle" /\ UNCHANGED ppc
                            ELSE ppc' = "idle" /\ UNCHANGED wpc
    /\ UNCHANGED <<ctr, bound, prober, wexited, wbegin, prow, cur>>

MarkDone_Anyone(r) == active' = None
MarkDone_LeavesNil(r) == active' = IF active = r THEN "" ELSE active

\* markDone: a replaced run leaves its successor registered.
MarkDone(r) == active' = IF active = r THEN None ELSE active

Forget == Cancels /\ active' = None /\ failures' = 0 /\ ips' = None

\* probe, in one step: through Caddy when a domain is bound; else, or when Caddy
\* cannot be reached, at the address of the running container.  containerIP
\* prefers the cached address and caches the one of Inspect.  At an address that
\* is not the container's nothing answers.  (A failing Inspect, or an answer that
\* came too late, counts as an app that did not answer.)
Dialled == IF ips # None THEN ips ELSE ctr.addr
Probe ==
    (IF bound THEN {[ok |-> ctr.state = "serving", ip |-> ips]} ELSE {})
    \union
    (IF Running THEN {[ok |-> ctr.state = "serving" /\ Dialled = ctr.addr, ip |-> Dialled]}
                ELSE {[ok |-> FALSE, ip |-> ips]})

RunGoto(r, pc) == rpc' = [rpc EXCEPT ![r] = pc]
RunOnly == UNCHANGED <<ctr, bound, worker, pass>>

RunProbe(r) ==
    /\ rpc[r] = "probe"
    /\ \E o \in Probe : RunGoto(r, IF o.ok THEN "passed" ELSE "failed") /\ ips' = o.ip
    /\ UNCHANGED <<row, active, cancelled, failures, left>> /\ RunOnly

\* runStarting returns: the deferred cancel and markDone.
RunReturns(r) ==
    /\ MarkDone(r)
    /\ RunGoto(r, "off")
    /\ cancelled' = cancelled \ {r}

\* The context is looked at once, after the probe.
RunJudge(r, result, pc) ==
    /\ rpc[r] = result /\ r \notin cancelled
    /\ RunGoto(r, pc)
    /\ UNCHANGED <<row, prober, left>> /\ RunOnly

RunPasses(r) == RunJudge(r, "passed", "mark+")
RunTimesOut(r) == RunJudge(r, "failed", "mark-")
RunWaits(r) == RunJudge(r, "failed", "wait")

\* A cancelled run notices after a probe or while it waits.
RunCancelled(r) ==
    /\ rpc[r] \in {"passed", "failed", "wait"} /\ r \in cancelled
    /\ RunReturns(r)
    /\ UNCHANGED <<row, failures, ips, left>> /\ RunOnly

\* The tick.
RunWake(r) ==
    /\ rpc[r] = "wait"
    /\ RunGoto(r, "probe")
    /\ UNCHANGED <<row, prober, left>> /\ RunOnly

\* markDone, so that the next tick treats the instance as settled ...
RunMark(r) ==
    /\ rpc[r] \in {"mark+", "mark-"}
    /\ MarkDone(r)
    /\ RunGoto(r, IF rpc[r] = "mark+" THEN "set+" ELSE "set-")
    /\ UNCHANGED <<row, cancelled, failures, ips, left>> /\ RunOnly

\* ... and the verdict, with the background context: nothing stops it now.
RunSet(r) ==
    /\ rpc[r] \in {"set+", "set-"}
    /\ Set(IF rpc[r] = "set+" THEN "ready" ELSE "unhealthy")
    /\ RunReturns(r)
    /\ UNCHANGED <<failures, ips>> /\ RunOnly

RunStep(r) ==
    \/ BeginSet(r) \/ RunProbe(r) \/ RunPasses(r) \/ RunTimesOut(r)
    \/ RunWaits(r) \/ RunCancelled(r) \/ RunWake(r) \/ RunMark(r) \/ RunSet(r)

-----------------------------------------------------------------------------
(* The apply worker: applyOne, as far as readiness is concerned.           *)

WorkerOnly == UNCHANGED <<bound, prober, rpc, pass>>
WorkerIdle == wpc' = "idle" /\ wexited' = FALSE /\ wbegin' = FALSE
Kept == Running /\ ~ctr.stale

\* An uninstall while the job was queued is honoured.
WorkerSkip ==
    /\ wpc = "queued" /\ row.desired # "installed"
    /\ WorkerIdle
    /\ UNCHANGED <<row, ctr, left>> /\ WorkerOnly

\* docker.Apply keeps a running container of the wanted config.  The state
\* reported later is that of the pass's snapshot.
WorkerApply ==
    /\ wpc = "queued" /\ row.desired = "installed"
    /\ IF Kept THEN ctr' = ctr
       ELSE \E a \in Addr : ctr' = [state |-> "booting", stale |-> FALSE, addr |-> a]
    /\ wbegin' = (~Kept \/ (~wexited /\ ~row.installed))
    /\ wpc' = "observe"
    /\ UNCHANGED <<row, wexited, left>> /\ WorkerOnly

\* A failed apply did nothing, or left no container that runs, and is recorded
\* unless the error is transient.
WorkerApplyFails ==
    /\ wpc = "queued" /\ row.desired = "installed" /\ Disturbed
    /\ ctr' \in {ctr} \union (IF Kept THEN {} ELSE {[ctr EXCEPT !.state = "none"]})
    /\ row' \in {row, [row EXCEPT !.installed = FALSE]}
    /\ WorkerIdle
    /\ WorkerOnly

\* SetObservedState.
WorkerObserve ==
    /\ wpc = "observe"
    /\ row' = IF row.desired = "absent" THEN row
              ELSE [row EXCEPT !.installed = ~wexited]
    /\ IF wbegin THEN wpc' = "begin" /\ wexited' = FALSE /\ wbegin' = FALSE
                 ELSE WorkerIdle
    /\ UNCHANGED <<ctr, left>> /\ WorkerOnly

\* beginReadiness.
WorkerBegin ==
    /\ wpc = "begin"
    /\ \E r \in Run : Begin(r, "worker")
    /\ wpc' = "called"
    /\ UNCHANGED <<row, ctr, bound, wexited, wbegin, pass, left>>

WorkerStep == \/ WorkerSkip \/ WorkerApply \/ WorkerApplyFails \/ WorkerObserve
              \/ WorkerBegin

-----------------------------------------------------------------------------
(* The reconcile pass, started by the ticker or a trigger at any time.     *)

\* A step of the pass that changes nothing but its own variables.
PassMove == UNCHANGED <<bound, row, ctr, prober, rpc, worker, left>>

\* The pass goes on; its row is forgotten where the code has no more use for it.
PassGoto(pc) ==
    /\ ppc' = pc
    /\ prow' = IF pc \in {"idle", "begin", "states"} THEN NoRow ELSE prow

PassList ==
    /\ ppc = "idle"
    /\ ppc' = "each"
    /\ prow' = row
    /\ UNCHANGED cur /\ PassMove

\* Without a row a container is an orphan.
PassOrphan ==
    /\ ppc = "each" /\ prow.desired = "absent"
    /\ \/ ctr' = [ctr EXCEPT !.state = "none"] /\ left' = left
       \/ ctr' = ctr /\ Disturbed
    /\ PassGoto("idle")
    /\ UNCHANGED <<bound, row, prober, rpc, worker, cur>>

\* docker.List and enqueueApply: one job per instance.
PassEnqueue ==
    /\ ppc = "each" /\ prow.desired = "installed"
    /\ IF wpc = "idle" THEN wpc' = "queued" /\ wexited' = (ctr.state = "exited")
                       ELSE UNCHANGED <<wpc, wexited>>
    /\ PassGoto("collect")
    /\ UNCHANGED <<bound, row, ctr, prober, rpc, wbegin, cur, left>>

CollectReadiness_TrustsStarting ==
    /\ ppc = "collect"
    /\ PassGoto(CASE ~prow.installed -> "idle"
                  [] prow.installed /\ prow.ready \in {"ready", "unhealthy"} -> "states"
                  [] prow.installed /\ prow.ready = "" /\ active = None -> "begin"
                  [] OTHER -> "idle")
    /\ UNCHANGED cur /\ PassMove

\* collectReadiness: by the snapshot; Active is asked now.
CollectReadiness ==
    /\ ppc = "collect"
    /\ PassGoto(CASE ~prow.installed -> "idle"
                  [] prow.installed /\ prow.ready \in {"ready", "unhealthy"} -> "states"
                  [] prow.installed /\ prow.ready \in {"", "starting"}
                        /\ active = None -> "begin"
                  [] OTHER -> "idle")
    /\ UNCHANGED cur /\ PassMove

PassBegin ==
    /\ ppc = "begin"
    /\ \E r \in Run : Begin(r, "pass")
    /\ PassGoto("called")
    /\ UNCHANGED <<bound, row, ctr, worker, cur, left>>

\* Stop and remove wait for the worker to let go of the instance.
PassDefer ==
    /\ ppc = "each" /\ prow.desired \in {"stopped", "removed"}
    /\ wpc # "idle"
    /\ PassGoto("idle")
    /\ UNCHANGED cur /\ PassMove

\* docker.Remove; an error leaves the instance to the next pass.
PassDown ==
    /\ ppc = "each" /\ prow.desired \in {"stopped", "removed"}
    /\ wpc = "idle"
    /\ \/ ctr' = [ctr EXCEPT !.state = "none"] /\ PassGoto("forget") /\ left' = left
       \/ Disturbed /\ ctr' = ctr /\ PassGoto("idle")
    /\ UNCHANGED <<bound, row, prober, rpc, worker, cur>>

PassForget ==
    /\ ppc = "forget"
    /\ Forget
    /\ PassGoto("reset")
    /\ UNCHANGED <<bound, row, ctr, rpc, worker, cur, left>>

ResetReadiness_OnlyRemoved ==
    IF prow.desired = "removed" /\ prow.ready # ""
    THEN SetServiceReady("") ELSE row' = row

\* resetReadiness after Forget: only the row of a stopped instance, and only
\* when the snapshot had a signal.
ResetReadiness ==
    IF prow.desired = "stopped" /\ prow.ready # ""
    THEN SetServiceReady("") ELSE row' = row

\* A removed instance then loses its row.
PassReset ==
    /\ ppc = "reset"
    /\ \/ prow.desired = "removed" /\ row' = NoRow /\ left' = left
       \/ prow.desired # "removed" /\ ResetReadiness /\ left' = left
       \/ row' = row /\ Disturbed
    /\ PassGoto("idle")
    /\ UNCHANGED <<bound, ctr, prober, rpc, worker, cur>>

-----------------------------------------------------------------------------
(* RunSteady, at the end of the pass.                                      *)

\* ListInstances.  Only a settled state is re-probed; after an error none is known.
SteadyList ==
    /\ ppc = "states"
    /\ \/ /\ row.ready \in {"ready", "unhealthy"}
          /\ cur' = row.ready /\ PassGoto("owner") /\ left' = left
       \/ /\ row.ready \notin {"ready", "unhealthy"}
          /\ cur' = cur /\ PassGoto("idle") /\ left' = left
       \/ cur' = cur /\ PassGoto("idle") /\ Disturbed
    /\ UNCHANGED <<bound, row, ctr, prober, rpc, worker>>

\* Active: "starting goroutine owns it".
SteadyOwner ==
    /\ ppc = "owner"
    /\ IF active = None THEN cur' = cur /\ PassGoto("probe")
                        ELSE cur' = "" /\ PassGoto("idle")
    /\ PassMove

SteadyProbe ==
    /\ ppc = "probe"
    /\ \E o \in Probe : PassGoto(IF o.ok THEN "passed" ELSE "failed") /\ ips' = o.ip
    /\ UNCHANGED <<bound, row, ctr, active, cancelled, failures, rpc, worker, cur, left>>

\* The counter under the lock: consecutive failed probes.
Misses == IF ppc = "passed" THEN 0
          ELSE IF failures < UnhealthyAfter THEN failures + 1 ELSE failures

\* The flap rules, by the state read at the start.
SteadyCount ==
    /\ ppc \in {"passed", "failed"}
    /\ failures' = Misses
    /\ PassGoto(CASE ppc = "passed" /\ cur = "unhealthy" -> "set+"
                  [] ppc = "failed" /\ cur = "ready" /\ Misses >= UnhealthyAfter -> "set-"
                  [] OTHER -> "idle")
    /\ cur' = ""
    /\ UNCHANGED <<bound, row, ctr, active, cancelled, ips, rpc, worker, left>>

SteadySet ==
    /\ ppc \in {"set+", "set-"}
    /\ Set(IF ppc = "set+" THEN "ready" ELSE "unhealthy")
    /\ PassGoto("idle")
    /\ UNCHANGED <<bound, ctr, prober, rpc, worker, cur>>

PassStep ==
    \/ PassList \/ PassOrphan \/ PassEnqueue \/ CollectReadiness
    \/ PassBegin \/ PassDefer \/ PassDown \/ PassForget \/ PassReset
    \/ SteadyList \/ SteadyOwner \/ SteadyProbe \/ SteadyCount \/ SteadySet

-----------------------------------------------------------------------------
(* Requests, the app and Docker, and crashes of the agent.                 *)

EnvOnly == UNCHANGED <<bound, prober, rpc, worker, pass>>

\* instance.upsert keeps the observed state and the signal of a row.
Upsert(changed) ==
    /\ Disturbed
    /\ row' = [row EXCEPT !.desired = "installed"]
    /\ ctr' = [ctr EXCEPT !.stale = changed]
    /\ EnvOnly

\* Start, stop and soft delete; Reconciler has their read and write apart.
SetState(d) ==
    /\ Disturbed
    /\ row.desired \notin {"absent", d}
    /\ row' = [row EXCEPT !.desired = d]
    /\ UNCHANGED ctr /\ EnvOnly

HardDelete ==
    /\ Disturbed
    /\ row' = NoRow
    /\ UNCHANGED ctr /\ EnvOnly

AppAnswers ==
    /\ ctr.state = "booting"
    /\ ctr' = [ctr EXCEPT !.state = "serving"]
    /\ UNCHANGED <<row, left>> /\ EnvOnly

\* The app hangs, or its process exits.
AppFails(state) ==
    /\ Running /\ ctr.state # state
    /\ Disturbed
    /\ ctr' = [ctr EXCEPT !.state = state]
    /\ UNCHANGED row /\ EnvOnly

\* Restart policy unless-stopped: the same container, an address of Docker's
\* choice.
DockerRestarts ==
    /\ ctr.state = "exited"
    /\ \E a \in Addr : ctr' = [ctr EXCEPT !.state = "booting", !.addr = a]
    /\ UNCHANGED <<row, left>> /\ EnvOnly

\* The agent dies and is started again: only the row and Docker survive.
Crash ==
    /\ Disturbed
    /\ active' = None /\ cancelled' = {} /\ failures' = 0 /\ ips' = None
    /\ rpc' = [r \in Run |-> "off"]
    /\ wpc' = "idle" /\ wexited' = FALSE /\ wbegin' = FALSE
    /\ ppc' = "idle" /\ prow' = NoRow /\ cur' = ""
    /\ UNCHANGED <<row, ctr, bound>>

Environment ==
    \/ \E changed \in BOOLEAN : Upsert(changed)
    \/ \E d \in {"installed", "stopped", "removed"} : SetState(d)
    \/ HardDelete \/ AppAnswers \/ DockerRestarts
    \/ \E s \in {"booting", "exited"} : AppFails(s)
    \/ Crash

Next ==
    \/ PassStep \/ WorkerStep \/ Environment
    \/ \E r \in Run : RunStep(r)

\* Goroutines run, the ticker ticks, and a run that keeps failing is one day
\* judged after its deadline; nothing is asked of the app, Docker or the user.
Fairness ==
    /\ WF_vars(PassStep) /\ WF_vars(WorkerStep)
    /\ \A r \in Run : WF_vars(RunStep(r)) /\ SF_vars(RunTimesOut(r))

Spec == Init /\ [][Next]_vars /\ Fairness

-----------------------------------------------------------------------------
(* Properties.                                                             *)

TypeOK ==
    /\ row \in Row /\ ctr \in Container /\ bound \in BOOLEAN
    /\ active \in Run \union {None} /\ cancelled \subseteq Run
    /\ failures \in 0 .. UnhealthyAfter /\ ips \in Addr \union {None}
    /\ rpc \in [Run -> RunPc]
    /\ wpc \in WorkerPc /\ wexited \in BOOLEAN /\ wbegin \in BOOLEAN
    /\ ppc \in PassPc /\ prow \in Row
    /\ cur \in State
    /\ left \in 0 .. MaxDisturbances

Starting(r) == rpc[r] \in RunPc \ {"off", "set+", "set-"}

\* The registration and the goroutines agree: the registered run is the one
\* starting goroutine that is not cancelled.  A second one would race for the
\* verdict, and a registration left behind would keep every later pass from
\* beginning or re-probing the instance (Begin, Forget, markDone).
Ownership ==
    \A r \in Run : active = r <=> Starting(r) /\ r \notin cancelled

\* While Docker leaves the address alone, an app that keeps answering is
\* reported ready again and again, and from some time on never unhealthy; for
\* one that keeps failing it is the other way round; whatever stops,
\* recreations, restarts and lost verdicts came before (runStarting, RunSteady,
\* collectReadiness).  "starting" may come back: a pass whose snapshot predates
\* the verdict begins once more.
Truthful ==
    /\ <>[](row.desired = "installed" /\ ctr.state = "serving")
         => []<>(row.ready = "ready") /\ <>[](row.ready # "unhealthy")
    /\ <>[](row.desired = "installed" /\ ctr.state = "booting")
         => []<>(row.ready = "unhealthy") /\ <>[](row.ready # "ready")

\* A stopped instance ends up without a signal, although a verdict that was
\* already on its way may be written after the reset (resetReadiness).
StoppedIsCleared ==
    <>[](row.desired = "stopped") => <>[](row.ready = "")
=============================================================================
