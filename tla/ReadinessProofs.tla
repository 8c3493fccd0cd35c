-------------------------- MODULE ReadinessProofs --------------------------
(* Proofs about Readiness, for any number of starting goroutines.          *)
EXTENDS Readiness, TLAPS

-----------------------------------------------------------------------------
(* What the operators that the actions share return.                       *)

\* The empty row is a row.
LEMMA NoRowType == NoRow \in Row
BY DEF NoRow, Row, State

\* Set leaves the row well formed, whether or not it could write.
LEMMA SetType ==
    ASSUME TypeOK, NEW s \in State, Set(s)
    PROVE  row' \in Row /\ left' \in 0 .. MaxDisturbances
BY ReadinessAssumption DEF TypeOK, Set, SetServiceReady, Disturbed, Row

\* The pass keeps or drops its snapshot.
LEMMA PassGotoType ==
    ASSUME TypeOK, NEW pc \in PassPc, PassGoto(pc)
    PROVE  ppc' \in PassPc /\ prow' \in Row
BY NoRowType DEF TypeOK, PassGoto

\* A probe caches an address or leaves the cache alone.
LEMMA ProbeType ==
    ASSUME TypeOK, NEW o \in Probe
    PROVE  o.ip \in Addr \union {None}
<1>1. ips \in Addr \union {None} /\ Dialled \in Addr \union {None}
  BY DEF TypeOK, Dialled, Container
<1>2. \/ o = [ok |-> ctr.state = "serving", ip |-> ips]
      \/ o = [ok |-> ctr.state = "serving" /\ Dialled = ctr.addr, ip |-> Dialled]
      \/ o = [ok |-> FALSE, ip |-> ips]
  BY Zenon DEF Probe
<1>3. ASSUME NEW b, NEW a, o = [ok |-> b, ip |-> a] PROVE o.ip = a
  BY <1>3
<1>4. CASE o = [ok |-> ctr.state = "serving", ip |-> ips]
  BY <1>1, <1>3, <1>4
<1>5. CASE o = [ok |-> ctr.state = "serving" /\ Dialled = ctr.addr, ip |-> Dialled]
  BY <1>1, <1>3, <1>5
<1>6. CASE o = [ok |-> FALSE, ip |-> ips]
  BY <1>1, <1>3, <1>6
<1> QED BY <1>2, <1>4, <1>5, <1>6

\* A disturbance uses up the bound.
LEMMA DisturbedType ==
    ASSUME TypeOK, Disturbed
    PROVE  left' \in 0 .. MaxDisturbances
BY ReadinessAssumption DEF TypeOK, Disturbed

\* A container keeps its type when its state changes.
LEMMA ContainerType ==
    ASSUME TypeOK, NEW s \in {"none", "exited", "booting", "serving"}
    PROVE  [ctr EXCEPT !.state = s] \in Container
BY DEF TypeOK, Container

\* Begin registers a run.
LEMMA BeginType ==
    ASSUME TypeOK, NEW r \in Run, NEW caller \in {"worker", "pass"},
           Begin(r, caller)
    PROVE  /\ active' \in Run \union {None} /\ cancelled' \subseteq Run
           /\ failures' \in 0 .. UnhealthyAfter /\ ips' \in Addr \union {None}
           /\ rpc' \in [Run -> RunPc]
BY ReadinessAssumption DEF TypeOK, Begin, Cancels, RunPc

-----------------------------------------------------------------------------
(* Type correctness.                                                       *)

\* The agent starts well typed.
LEMMA InitType == Init => TypeOK
<1> SUFFICES ASSUME Init PROVE TypeOK OBVIOUS
<1>1. row \in Row /\ ctr \in Container /\ prow \in Row /\ cur \in State
  BY NoRowType DEF Init, State
<1>2. bound \in BOOLEAN
  <2>1. bound \in Bindings /\ Bindings \subseteq BOOLEAN
    BY ReadinessAssumption DEF Init
  <2> QED BY <2>1, Zenon
<1>3. /\ failures \in 0 .. UnhealthyAfter /\ left \in 0 .. MaxDisturbances
      /\ active \in Run \union {None} /\ cancelled \subseteq Run
      /\ ips \in Addr \union {None}
  <2>1. /\ failures = 0 /\ left = MaxDisturbances /\ active = None
        /\ cancelled = {} /\ ips = None
    BY Zenon DEF Init
  <2>2. UnhealthyAfter \in Nat /\ MaxDisturbances \in Nat
    BY ReadinessAssumption, Zenon
  <2> QED BY <2>1, <2>2
<1>4. rpc \in [Run -> RunPc] /\ wpc \in WorkerPc /\ ppc \in PassPc
  BY DEF Init, RunPc, WorkerPc, PassPc
<1>5. wexited \in BOOLEAN /\ wbegin \in BOOLEAN
  BY DEF Init
<1> QED BY <1>1, <1>2, <1>3, <1>4, <1>5 DEF TypeOK

\* A step of a starting goroutine.
LEMMA RunTypeStep ==
    ASSUME TypeOK, NEW r \in Run, RunStep(r)
    PROVE  TypeOK'
<1>1. CASE BeginSet(r)
  <2>1. row' \in Row /\ left' \in 0 .. MaxDisturbances
    BY <1>1, SetType DEF BeginSet, State, TypeOK
  <2>2. rpc' \in [Run -> RunPc] /\ wpc' \in WorkerPc /\ ppc' \in PassPc
    BY <1>1 DEF BeginSet, TypeOK, RunPc, WorkerPc, PassPc
  <2> QED BY <1>1, <2>1, <2>2 DEF BeginSet, prober, TypeOK
<1>2. CASE RunProbe(r)
  <2>1. ips' \in Addr \union {None}
    BY <1>2, ProbeType DEF RunProbe
  <2>2. rpc' \in [Run -> RunPc]
    BY <1>2 DEF RunProbe, RunGoto, RunPc, TypeOK
  <2> QED BY <1>2, <2>1, <2>2 DEF RunProbe, RunOnly, worker, pass, TypeOK
<1>3. CASE RunPasses(r) \/ RunTimesOut(r) \/ RunWaits(r)
  <2>1. rpc' \in [Run -> RunPc]
    BY <1>3 DEF RunPasses, RunTimesOut, RunWaits, RunJudge, RunGoto, RunPc, TypeOK
  <2> QED
    BY <1>3, <2>1 DEF RunPasses, RunTimesOut, RunWaits, RunJudge, RunOnly,
       prober, worker, pass, TypeOK
<1>4. CASE RunCancelled(r)
  <2>1. /\ rpc' \in [Run -> RunPc] /\ active' \in Run \union {None}
        /\ cancelled' \subseteq Run
    BY <1>4 DEF RunCancelled, RunReturns, MarkDone, RunGoto, RunPc, TypeOK
  <2> QED BY <1>4, <2>1 DEF RunCancelled, RunOnly, worker, pass, TypeOK
<1>5. CASE RunWake(r)
  <2>1. rpc' \in [Run -> RunPc]
    BY <1>5 DEF RunWake, RunGoto, RunPc, TypeOK
  <2> QED BY <1>5, <2>1 DEF RunWake, RunOnly, prober, worker, pass, TypeOK
<1>6. CASE RunMark(r)
  <2>1. rpc' \in [Run -> RunPc] /\ active' \in Run \union {None}
    BY <1>6 DEF RunMark, MarkDone, RunGoto, RunPc, TypeOK
  <2> QED BY <1>6, <2>1 DEF RunMark, RunOnly, worker, pass, TypeOK
<1>7. CASE RunSet(r)
  <2>1. row' \in Row /\ left' \in 0 .. MaxDisturbances
    BY <1>7, SetType DEF RunSet, State
  <2>2. /\ rpc' \in [Run -> RunPc] /\ active' \in Run \union {None}
        /\ cancelled' \subseteq Run
    BY <1>7 DEF RunSet, RunReturns, MarkDone, RunGoto, RunPc, TypeOK
  <2> QED BY <1>7, <2>1, <2>2 DEF RunSet, RunOnly, worker, pass, TypeOK
<1> QED BY <1>1, <1>2, <1>3, <1>4, <1>5, <1>6, <1>7 DEF RunStep

\* A step of the apply worker.
LEMMA WorkerTypeStep ==
    ASSUME TypeOK, WorkerStep
    PROVE  TypeOK'
<1>1. CASE WorkerSkip
  BY <1>1 DEF WorkerSkip, WorkerIdle, WorkerOnly, WorkerPc, prober, pass, TypeOK
<1>2. CASE WorkerApply
  <2>1. ctr' \in Container
    <3>1. ctr \in Container
      BY DEF TypeOK
    <3>2. ASSUME NEW a \in Addr,
                 ctr' = [state |-> "booting", stale |-> FALSE, addr |-> a]
          PROVE  ctr' \in Container
      BY <3>2 DEF Container
    <3>3. \/ ctr' = ctr
          \/ \E a \in Addr : ctr' = [state |-> "booting", stale |-> FALSE, addr |-> a]
      BY <1>2, Zenon DEF WorkerApply
    <3> QED BY <3>1, <3>2, <3>3, Zenon
  <2>2. wbegin' \in BOOLEAN /\ wpc' \in WorkerPc
    BY <1>2 DEF WorkerApply, WorkerPc
  <2> QED BY <1>2, <2>1, <2>2 DEF WorkerApply, WorkerOnly, prober, pass, TypeOK
<1>3. CASE WorkerApplyFails
  <2>1. ctr' \in Container
    BY <1>3, ContainerType DEF WorkerApplyFails, TypeOK
  <2>2. row' \in Row
    BY <1>3 DEF WorkerApplyFails, TypeOK, Row
  <2>3. left' \in 0 .. MaxDisturbances
    BY <1>3, DisturbedType DEF WorkerApplyFails
  <2> QED
    BY <1>3, <2>1, <2>2, <2>3
       DEF WorkerApplyFails, WorkerIdle, WorkerOnly, WorkerPc, prober, pass, TypeOK
<1>4. CASE WorkerObserve
  <2>1. row' \in Row
    BY <1>4 DEF WorkerObserve, TypeOK, Row
  <2> QED
    BY <1>4, <2>1
       DEF WorkerObserve, WorkerIdle, WorkerOnly, WorkerPc, prober, pass, TypeOK
<1>5. CASE WorkerBegin
  BY <1>5, BeginType DEF WorkerBegin, WorkerPc, pass, TypeOK
<1> QED BY <1>1, <1>2, <1>3, <1>4, <1>5 DEF WorkerStep

\* A step of the reconcile pass.
LEMMA PassTypeStep ==
    ASSUME TypeOK, PassStep
    PROVE  TypeOK'
<1>1. CASE PassList
  BY <1>1 DEF PassList, PassMove, PassPc, prober, worker, TypeOK
<1>2. CASE PassOrphan
  <2>1. ctr' \in Container /\ left' \in 0 .. MaxDisturbances
    BY <1>2, ContainerType, DisturbedType DEF PassOrphan, TypeOK
  <2>2. ppc' \in PassPc /\ prow' \in Row
    BY <1>2, PassGotoType DEF PassOrphan, PassPc
  <2> QED BY <1>2, <2>1, <2>2 DEF PassOrphan, prober, worker, TypeOK
<1>3. CASE PassEnqueue
  <2>1. ppc' \in PassPc /\ prow' \in Row
    BY <1>3, PassGotoType DEF PassEnqueue, PassPc
  <2>2. wpc' \in WorkerPc /\ wexited' \in BOOLEAN
    BY <1>3 DEF PassEnqueue, WorkerPc, TypeOK
  <2> QED BY <1>3, <2>1, <2>2 DEF PassEnqueue, prober, TypeOK
<1>4. CASE CollectReadiness
  <2>1. ppc' \in PassPc /\ prow' \in Row
    BY <1>4, PassGotoType DEF CollectReadiness, PassPc
  <2> QED BY <1>4, <2>1 DEF CollectReadiness, PassMove, prober, worker, TypeOK
<1>5. CASE PassBegin
  <2>1. ppc' \in PassPc /\ prow' \in Row
    BY <1>5, PassGotoType DEF PassBegin, PassPc
  <2> QED BY <1>5, <2>1, BeginType DEF PassBegin, worker, TypeOK
<1>6. CASE PassDefer
  <2>1. ppc' \in PassPc /\ prow' \in Row
    BY <1>6, PassGotoType DEF PassDefer, PassPc
  <2> QED BY <1>6, <2>1 DEF PassDefer, PassMove, prober, worker, TypeOK
<1>7. CASE PassDown
  <2>1. ctr' \in Container /\ left' \in 0 .. MaxDisturbances
    BY <1>7, ContainerType, DisturbedType DEF PassDown, TypeOK
  <2>2. ppc' \in PassPc /\ prow' \in Row
    BY <1>7, PassGotoType DEF PassDown, PassPc
  <2> QED BY <1>7, <2>1, <2>2 DEF PassDown, prober, worker, TypeOK
<1>8. CASE PassForget
  <2>1. ppc' \in PassPc /\ prow' \in Row
    BY <1>8, PassGotoType DEF PassForget, PassPc
  <2>2. /\ active' \in Run \union {None} /\ cancelled' \subseteq Run
        /\ failures' \in 0 .. UnhealthyAfter /\ ips' \in Addr \union {None}
    BY <1>8, ReadinessAssumption DEF PassForget, Forget, Cancels, TypeOK
  <2> QED BY <1>8, <2>1, <2>2 DEF PassForget, worker, TypeOK
<1>9. CASE PassReset
  <2>1. row' \in Row
    BY <1>9, NoRowType DEF PassReset, ResetReadiness, SetServiceReady, TypeOK, Row, State
  <2>2. left' \in 0 .. MaxDisturbances
    BY <1>9, DisturbedType DEF PassReset, TypeOK
  <2>3. ppc' \in PassPc /\ prow' \in Row
    BY <1>9, PassGotoType DEF PassReset, PassPc
  <2> QED BY <1>9, <2>1, <2>2, <2>3 DEF PassReset, prober, worker, TypeOK
<1>10. CASE SteadyList
  <2>1. cur' \in State /\ left' \in 0 .. MaxDisturbances
    BY <1>10, DisturbedType DEF SteadyList, TypeOK, State, Row
  <2>2. ppc' \in PassPc /\ prow' \in Row
    BY <1>10, PassGotoType DEF SteadyList, PassPc
  <2> QED BY <1>10, <2>1, <2>2 DEF SteadyList, prober, worker, TypeOK
<1>11. CASE SteadyOwner
  <2>1. cur' \in State
    BY <1>11 DEF SteadyOwner, TypeOK, State
  <2>2. ppc' \in PassPc /\ prow' \in Row
    BY <1>11, PassGotoType DEF SteadyOwner, PassPc
  <2> QED BY <1>11, <2>1, <2>2 DEF SteadyOwner, PassMove, prober, worker, TypeOK
<1>12. CASE SteadyProbe
  <2>1. PICK o \in Probe :
          PassGoto(IF o.ok THEN "passed" ELSE "failed") /\ ips' = o.ip
    BY <1>12 DEF SteadyProbe
  <2>2. ips' \in Addr \union {None}
    BY <2>1, ProbeType
  <2>3. ppc' \in PassPc /\ prow' \in Row
    <3>1. (IF o.ok THEN "passed" ELSE "failed") \in PassPc
      BY DEF PassPc
    <3> QED BY <2>1, <3>1, PassGotoType
  <2> QED BY <1>12, <2>2, <2>3 DEF SteadyProbe, worker, TypeOK
<1>13. CASE SteadyCount
  <2>1. failures' \in 0 .. UnhealthyAfter
    <3>1. failures' = Misses /\ failures \in 0 .. UnhealthyAfter
      BY <1>13, Zenon DEF SteadyCount, TypeOK
    <3>2. UnhealthyAfter \in Nat
      BY ReadinessAssumption, Zenon
    <3> QED BY <3>1, <3>2 DEF Misses
  <2>2. ppc' \in PassPc /\ prow' \in Row /\ cur' \in State
    BY <1>13, PassGotoType DEF SteadyCount, PassPc, State
  <2> QED BY <1>13, <2>1, <2>2 DEF SteadyCount, worker, TypeOK
<1>14. CASE SteadySet
  <2>1. row' \in Row /\ left' \in 0 .. MaxDisturbances
    BY <1>14, SetType DEF SteadySet, State
  <2>2. ppc' \in PassPc /\ prow' \in Row
    BY <1>14, PassGotoType DEF SteadySet, PassPc
  <2> QED BY <1>14, <2>1, <2>2 DEF SteadySet, prober, worker, TypeOK
<1> QED
  BY <1>1, <1>2, <1>3, <1>4, <1>5, <1>6, <1>7, <1>8, <1>9, <1>10, <1>11, <1>12,
     <1>13, <1>14 DEF PassStep

\* A request, an event of the app or of Docker, or a crash.
LEMMA EnvironmentTypeStep ==
    ASSUME TypeOK, Environment
    PROVE  TypeOK'
<1> USE DEF EnvOnly, prober, worker, pass
<1>1. ASSUME NEW changed \in BOOLEAN, Upsert(changed) PROVE TypeOK'
  <2>1. row' \in Row
    BY <1>1 DEF Upsert, TypeOK, Row
  <2>2. ctr' \in Container
    BY <1>1 DEF Upsert, TypeOK, Container
  <2> QED BY <1>1, <2>1, <2>2, DisturbedType DEF Upsert, TypeOK
<1>2. ASSUME NEW d \in {"installed", "stopped", "removed"}, SetState(d) PROVE TypeOK'
  <2>1. row' \in Row
    BY <1>2 DEF SetState, TypeOK, Row
  <2> QED BY <1>2, <2>1, DisturbedType DEF SetState, TypeOK
<1>3. CASE HardDelete
  BY <1>3, NoRowType, DisturbedType DEF HardDelete, TypeOK
<1>4. CASE AppAnswers
  BY <1>4, ContainerType DEF AppAnswers, TypeOK
<1>5. CASE DockerRestarts
  <2>1. ctr' \in Container
    BY <1>5 DEF DockerRestarts, TypeOK, Container
  <2> QED BY <1>5, <2>1 DEF DockerRestarts, TypeOK
<1>6. ASSUME NEW s \in {"booting", "exited"}, AppFails(s) PROVE TypeOK'
  BY <1>6, ContainerType, DisturbedType DEF AppFails, TypeOK
<1>7. CASE Crash
  <2>1. /\ active' \in Run \union {None} /\ cancelled' \subseteq Run
        /\ failures' \in 0 .. UnhealthyAfter /\ ips' \in Addr \union {None}
        /\ rpc' \in [Run -> RunPc]
    <3>1. /\ active' = None /\ cancelled' = {} /\ failures' = 0 /\ ips' = None
          /\ rpc' = [r \in Run |-> "off"]
      BY <1>7, Zenon DEF Crash
    <3>2. UnhealthyAfter \in Nat
      BY ReadinessAssumption, Zenon
    <3> QED BY <3>1, <3>2 DEF RunPc
  <2>2. wpc' \in WorkerPc /\ ppc' \in PassPc /\ prow' \in Row /\ cur' \in State
    BY <1>7, NoRowType DEF Crash, WorkerPc, PassPc, State
  <2> QED BY <1>7, <2>1, <2>2, DisturbedType DEF Crash, TypeOK
<1> QED BY <1>1, <1>2, <1>3, <1>4, <1>5, <1>6, <1>7 DEF Environment

\* Every step keeps the types.
LEMMA TypeStep == TypeOK /\ [Next]_vars => TypeOK'
<1> SUFFICES ASSUME TypeOK, [Next]_vars PROVE TypeOK' OBVIOUS
<1>1. CASE UNCHANGED vars
  BY <1>1 DEF vars, prober, worker, pass, TypeOK
<1> QED
  BY <1>1, RunTypeStep, WorkerTypeStep, PassTypeStep, EnvironmentTypeStep DEF Next

\* Every reachable state is well typed: the rows, the Prober's maps and the
\* positions of the goroutines of readiness/probe.go and reconciler/loop.go.
THEOREM TypeCorrect == Spec => []TypeOK
BY InitType, TypeStep, PTL DEF Spec

-----------------------------------------------------------------------------
(* One owner of the verdict.  Ownership is not inductive on its own: Begin *)
(* reuses the identity of a run that ended, so a context cancelled must    *)
(* not outlive its run, and Begin and Forget cancel a run that exists.     *)

\* A run that ended has left no cancelled context behind (runStarting's defer).
Quiet == \A r \in Run : rpc[r] = "off" => r \notin cancelled

OwnerInv == TypeOK /\ Ownership /\ Quiet

\* A step that leaves the registration and the goroutines alone.
LEMMA OwnerUnchanged ==
    ASSUME OwnerInv, UNCHANGED <<active, cancelled, rpc>>
    PROVE  Ownership' /\ Quiet'
BY DEF OwnerInv, Ownership, Quiet, Starting

\* Begin registers its run and cancels the one that was registered.
LEMMA OwnerBegin ==
    ASSUME OwnerInv, NEW r \in Run, NEW caller \in {"worker", "pass"},
           Begin(r, caller)
    PROVE  Ownership' /\ Quiet'
<1>1. /\ rpc[r] = "off" /\ rpc \in [Run -> RunPc]
      /\ rpc' = [rpc EXCEPT ![r] = caller]
      /\ cancelled' = cancelled \union ({active} \ {None}) /\ active' = r
  BY DEF Begin, Cancels, OwnerInv, TypeOK
<1>2. r # None /\ r \notin cancelled /\ active # r
  BY <1>1, ReadinessAssumption DEF OwnerInv, Ownership, Quiet, Starting
<1>3. ASSUME NEW q \in Run
      PROVE  /\ active' = q <=> Starting(q)' /\ q \notin cancelled'
             /\ rpc'[q] = "off" => q \notin cancelled'
  <2>1. CASE q = r
    BY <1>1, <1>2, <2>1 DEF Starting, RunPc
  <2>2. CASE q # r
    <3>1. rpc'[q] = rpc[q] /\ q # None
      BY <1>1, <2>2, ReadinessAssumption
    <3>2. active = q <=> Starting(q) /\ q \notin cancelled
      BY DEF OwnerInv, Ownership
    <3>3. rpc[q] = "off" => q \notin cancelled
      BY DEF OwnerInv, Quiet
    <3> QED BY <1>1, <2>2, <3>1, <3>2, <3>3 DEF Starting
  <2> QED BY <2>1, <2>2
<1> QED BY <1>3 DEF Ownership, Quiet

\* A run goes on without touching the registration.
LEMMA OwnerMoves ==
    ASSUME OwnerInv, NEW r \in Run, NEW pc \in RunPc \ {"off", "set+", "set-"},
           Starting(r), rpc' = [rpc EXCEPT ![r] = pc],
           UNCHANGED <<active, cancelled>>
    PROVE  Ownership' /\ Quiet'
<1>1. rpc \in [Run -> RunPc]
  BY DEF OwnerInv, TypeOK
<1> QED BY <1>1 DEF OwnerInv, Ownership, Quiet, Starting, RunPc

\* A run that ends frees the registration if it still holds it.
LEMMA OwnerReturns ==
    ASSUME OwnerInv, NEW r \in Run, RunReturns(r)
    PROVE  Ownership' /\ Quiet'
<1>1. /\ rpc \in [Run -> RunPc] /\ rpc' = [rpc EXCEPT ![r] = "off"]
      /\ active' = (IF active = r THEN None ELSE active)
      /\ cancelled' = cancelled \ {r}
  BY DEF OwnerInv, TypeOK, RunReturns, RunGoto, MarkDone
<1>2. ASSUME NEW q \in Run PROVE q # None
  BY ReadinessAssumption
<1> QED BY <1>1, <1>2 DEF OwnerInv, Ownership, Quiet, Starting, RunPc

\* Every step of a starting goroutine.
LEMMA OwnerRun ==
    ASSUME OwnerInv, NEW r \in Run, RunStep(r)
    PROVE  Ownership' /\ Quiet'
<1>1. CASE BeginSet(r)
  <2>1. /\ Starting(r) /\ rpc' = [rpc EXCEPT ![r] = "probe"]
        /\ UNCHANGED <<active, cancelled>>
    BY <1>1 DEF BeginSet, Starting, RunPc, prober
  <2> QED BY <2>1, OwnerMoves DEF RunPc
<1>2. CASE RunProbe(r)
  <2>1. /\ Starting(r) /\ UNCHANGED <<active, cancelled>>
        /\ \/ rpc' = [rpc EXCEPT ![r] = "passed"]
           \/ rpc' = [rpc EXCEPT ![r] = "failed"]
    BY <1>2 DEF RunProbe, RunGoto, Starting, RunPc
  <2> QED BY <2>1, OwnerMoves DEF RunPc
<1>3. CASE RunPasses(r) \/ RunTimesOut(r) \/ RunWaits(r)
  <2>1. /\ Starting(r) /\ UNCHANGED <<active, cancelled>>
        /\ \E pc \in {"mark+", "mark-", "wait"} : rpc' = [rpc EXCEPT ![r] = pc]
    BY <1>3 DEF RunPasses, RunTimesOut, RunWaits, RunJudge, RunGoto, Starting,
       RunPc, prober
  <2> QED BY <2>1, OwnerMoves DEF RunPc
<1>4. CASE RunCancelled(r)
  BY <1>4, OwnerReturns DEF RunCancelled
<1>5. CASE RunWake(r)
  <2>1. /\ Starting(r) /\ rpc' = [rpc EXCEPT ![r] = "probe"]
        /\ UNCHANGED <<active, cancelled>>
    BY <1>5 DEF RunWake, RunGoto, Starting, RunPc, prober
  <2> QED BY <2>1, OwnerMoves DEF RunPc
<1>6. CASE RunMark(r)
  <2>1. /\ rpc \in [Run -> RunPc] /\ cancelled' = cancelled
        /\ active' = (IF active = r THEN None ELSE active)
        /\ rpc[r] # "off"
        /\ \/ rpc' = [rpc EXCEPT ![r] = "set+"]
           \/ rpc' = [rpc EXCEPT ![r] = "set-"]
    BY <1>6 DEF RunMark, MarkDone, RunGoto, OwnerInv, TypeOK
  <2>2. ASSUME NEW q \in Run PROVE q # None
    BY ReadinessAssumption
  <2> QED BY <2>1, <2>2 DEF OwnerInv, Ownership, Quiet, Starting, RunPc
<1>7. CASE RunSet(r)
  BY <1>7, OwnerReturns DEF RunSet
<1> QED BY <1>1, <1>2, <1>3, <1>4, <1>5, <1>6, <1>7 DEF RunStep

\* Every step of the pass; all but PassBegin and PassForget leave it alone.
LEMMA OwnerPass ==
    ASSUME OwnerInv, PassStep
    PROVE  Ownership' /\ Quiet'
<1>1. CASE PassBegin
  BY <1>1, OwnerBegin DEF PassBegin
<1>2. CASE PassForget
  <2>1. /\ cancelled' = cancelled \union ({active} \ {None}) /\ active' = None
        /\ rpc' = rpc
    BY <1>2 DEF PassForget, Forget, Cancels
  <2>2. ASSUME NEW q \in Run PROVE q # None
    BY ReadinessAssumption
  <2> QED BY <2>1, <2>2 DEF OwnerInv, Ownership, Quiet, Starting
<1>3. CASE ~PassBegin /\ ~PassForget
  <2>1. UNCHANGED <<active, cancelled, rpc>>
    BY <1>3 DEF PassStep, PassList, PassOrphan, PassEnqueue, CollectReadiness,
       PassDefer, PassDown, PassReset, SteadyList, SteadyOwner, SteadyProbe, SteadyCount,
       SteadySet, PassMove, prober
  <2> QED BY <2>1, OwnerUnchanged
<1> QED BY <1>1, <1>2, <1>3

\* Every step keeps the invariant.
LEMMA OwnerStep == OwnerInv /\ [Next]_vars => OwnerInv'
<1> SUFFICES ASSUME OwnerInv, [Next]_vars PROVE OwnerInv' OBVIOUS
<1>1. TypeOK'
  BY TypeStep DEF OwnerInv
<1>2. CASE UNCHANGED vars
  <2>1. UNCHANGED <<active, cancelled, rpc>>
    BY <1>2 DEF vars, prober
  <2> QED BY <1>1, <2>1, OwnerUnchanged DEF OwnerInv
<1>3. CASE PassStep
  BY <1>1, <1>3, OwnerPass DEF OwnerInv
<1>4. CASE WorkerStep
  <2>1. CASE WorkerBegin
    BY <1>1, <2>1, OwnerBegin DEF WorkerBegin, OwnerInv
  <2>2. CASE ~WorkerBegin
    <3>1. UNCHANGED <<active, cancelled, rpc>>
      BY <1>4, <2>2 DEF WorkerStep, WorkerSkip, WorkerApply, WorkerApplyFails,
         WorkerObserve, WorkerOnly, prober
    <3> QED BY <1>1, <3>1, OwnerUnchanged DEF OwnerInv
  <2> QED BY <2>1, <2>2
<1>5. CASE Environment
  <2>1. CASE Crash
    <3>1. active' = None /\ cancelled' = {} /\ rpc' = [r \in Run |-> "off"]
      BY <2>1, Zenon DEF Crash
    <3>2. ASSUME NEW q \in Run PROVE q # None
      BY ReadinessAssumption
    <3>3. Ownership' /\ Quiet'
      BY <3>1, <3>2 DEF Ownership, Quiet, Starting
    <3> QED BY <1>1, <3>3 DEF OwnerInv
  <2>2. CASE ~Crash
    <3>1. UNCHANGED <<active, cancelled, rpc>>
      BY <1>5, <2>2 DEF Environment, Upsert, SetState, HardDelete, AppAnswers,
         DockerRestarts, AppFails, EnvOnly, prober
    <3> QED BY <1>1, <3>1, OwnerUnchanged DEF OwnerInv
  <2> QED BY <2>1, <2>2
<1>6. ASSUME NEW r \in Run, RunStep(r) PROVE OwnerInv'
  BY <1>1, <1>6, OwnerRun DEF OwnerInv
<1> QED BY <1>2, <1>3, <1>4, <1>5, <1>6 DEF Next

\* However many starting goroutines there are, and however Begin, Forget and
\* markDone interleave, the run registered in Prober.active is exactly the one
\* that is starting and not cancelled.
THEOREM OneOwner == Spec => []Ownership
<1>1. Init => OwnerInv
  <2> SUFFICES ASSUME Init PROVE OwnerInv OBVIOUS
  <2>1. active = None /\ cancelled = {} /\ rpc = [r \in Run |-> "off"]
    BY Zenon DEF Init
  <2>2. ASSUME NEW q \in Run PROVE q # None
    BY ReadinessAssumption
  <2>3. Ownership /\ Quiet
    BY <2>1, <2>2 DEF Ownership, Quiet, Starting
  <2> QED BY <2>3, InitType DEF OwnerInv
<1>2. OwnerInv => Ownership
  BY DEF OwnerInv
<1> QED BY <1>1, <1>2, OwnerStep, PTL DEF Spec

=============================================================================
