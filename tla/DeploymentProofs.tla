-------------------------- MODULE DeploymentProofs --------------------------
(***************************************************************************)
(* The proof that Reconciler implements Deployment, for any instances,     *)
(* configurations and bounds.                                              *)
(***************************************************************************)
EXTENDS ReconcilerProofs

-----------------------------------------------------------------------------
(* From instances to functions: a step of Reconciler that changes what     *)
(* Deployment sees of at most one instance.                                *)

\* Deployment sees no difference in instance j, its last read wish aside.
Same(j) ==
    /\ Wanted(row[j])' = Wanted(row[j])
    /\ Doing(j)' = Doing(j)
    /\ Held(j)' = Held(j)
    /\ (row[j].obs = "installed")' = (row[j].obs = "installed")

SameRead == \A j \in Kept : pdes'[j].desired = pdes[j].desired

\* No difference in any instance is a stuttering step.
LEMMA StutterMaps ==
    ASSUME \A j \in Kept : Same(j), SameRead
    PROVE  UNCHANGED D!vars
BY DEF D!vars, Same, SameRead

\* A changed wish.
LEMMA AskMaps ==
    ASSUME NEW k \in Kept, \A j \in Kept : j # k => Same(j), SameRead,
           Wanted(row[k])' \in D!Wish, Doing(k)' = Doing(k), Held(k)' = Held(k),
           (row[k].obs = "installed")' = (row[k].obs = "installed")
    PROVE  D!Next
<1>1. D!Ask(k, Wanted(row[k])')
  BY DEF D!Ask, Same, SameRead
<1> QED BY <1>1 DEF D!Next

\* The start of an apply.
LEMMA BeginApplyMaps ==
    ASSUME NEW k \in Kept, \A j \in Kept : j # k => Same(j), SameRead,
           Doing(k) = D!NoJob, \A j \in Kept : Doing(j).kind # "apply",
           row[k].desired = "installed", Doing(k)' = D!ApplyOf(row[k].cfg),
           UNCHANGED row, Held(k)' = Held(k)
    PROVE  D!Next
<1>1. D!BeginApply(k)
  BY DEF D!BeginApply, D!NoneIs, Same, SameRead, Wanted
<1> QED BY <1>1 DEF D!Next

\* A step of an apply.
LEMMA ApplyMaps ==
    ASSUME NEW k \in Kept, \A j \in Kept : j # k => Same(j), SameRead,
           Doing(k).kind = "apply", Wanted(row[k])' = Wanted(row[k]),
           Held(k)' \in {Held(k), NoCfg, Doing(k).cfg},
           \/ (row[k].obs = "installed")' = (row[k].obs = "installed")
           \/ (row[k].obs = "installed")' = FALSE,
           Doing(k)' \in {Doing(k), D!NoJob}
    PROVE  D!Next
<1>1. D!Apply(k)
  BY DEF D!Apply, Same, SameRead
<1> QED BY <1>1 DEF D!Next

\* The report of one.
LEMMA ReportMaps ==
    ASSUME NEW k \in Kept, \A j \in Kept : j # k => Same(j), SameRead,
           Doing(k).kind = "apply", Wanted(row[k])' = Wanted(row[k]),
           Held(k)' = Held(k), Held(k) = Doing(k).cfg,
           (row[k].obs = "installed")', Doing(k)' = D!NoJob
    PROVE  D!Next
<1>1. D!Report(k)
  BY DEF D!Report, Same, SameRead
<1> QED BY <1>1 DEF D!Next

\* The start of a teardown.
LEMMA BeginDownMaps ==
    ASSUME NEW k \in Kept, \A j \in Kept : j # k => Same(j), SameRead,
           Doing(k) = D!NoJob, \A j \in Kept : Doing(j).kind # "down",
           pdes[k].desired \in {"stopped", "removed"}, Doing(k)' = D!TakeDown,
           UNCHANGED row, Held(k)' = Held(k)
    PROVE  D!Next
<1>1. D!BeginDown(k)
  BY DEF D!BeginDown, D!NoneIs, Same, SameRead
<1> QED BY <1>1 DEF D!Next

\* A step of a teardown.
LEMMA DownMaps ==
    ASSUME NEW k \in Kept, \A j \in Kept : j # k => Same(j), SameRead,
           Doing(k) = D!TakeDown, UNCHANGED row,
           Held(k)' \in {Held(k), NoCfg}, Doing(k)' \in {D!TakeDown, D!NoJob}
    PROVE  D!Next
<1>1. D!Down(k)
  BY DEF D!Down, Same, SameRead
<1> QED BY <1>1 DEF D!Next

\* The end of one that deletes the row.
LEMMA ForgetMaps ==
    ASSUME NEW k \in Kept, \A j \in Kept : j # k => Same(j), SameRead,
           Doing(k) = D!TakeDown, pdes[k].desired = "removed", Held(k) = NoCfg,
           row'[k] = NoRow, Held(k)' = NoCfg, Doing(k)' = D!NoJob
    PROVE  D!Next
<1>0. row'[k].desired = "absent" /\ row'[k].cfg = NoCfg /\ row'[k].obs = ""
  <2>1. NoRow.desired = "absent" /\ NoRow.cfg = NoCfg /\ NoRow.obs = "" BY DEF NoRow
  <2> QED BY <2>1
<1>1. Wanted(row[k])' = D!NoWish BY <1>0 DEF Wanted, D!NoWish
<1>2. (row[k].obs = "installed")' = FALSE BY <1>0
<1>3. D!Forget(k)
  BY <1>1, <1>2 DEF D!Forget, Same, SameRead
<1> QED BY <1>3 DEF D!Next

\* The pass reads the wishes, or forgets what it has read.
LEMMA LookMaps ==
    ASSUME \A j \in Kept : Same(j), \A j \in Kept : Doing(j).kind # "down",
           \/ \A j \in Kept : pdes'[j].desired = row[j].desired
           \/ \A j \in Kept : pdes'[j].desired = "absent"
    PROVE  D!Next
<1>1. D!Look
  BY DEF D!Look, D!NoneIs, Same, Wanted
<1> QED BY <1>1 DEF D!Next

-----------------------------------------------------------------------------
(* What else the refinement rests on.                                      *)

\* A teardown that will delete the row has read that the row is to be removed.
ReadInv == rstep \in {"drop", "delete"} => pdes[rid].desired = "removed"

\* The orphan collection never finds a steady instance: one that has no row in
\* the snapshot has nothing in Docker and no workspace, and nobody gives it any
\* before the pass is over.
OrphanInv ==
    ppc \notin {"idle", "list"} =>
        \A i \in Steady : pdes[i].desired = "absent" =>
            /\ ctr[i] = NoCtr /\ proj[i].ws = NoCfg
            /\ ppc # "observe" => pobs[i] = "none"
            /\ ppc \in {"gcctr", "gccmp"} => i \notin ptodo

RefineInv ==
    DeployInv /\ FindInv /\ CleanInv /\ ReadInv /\ OrphanInv

\* Every step keeps ReadInv.
LEMMA ReadStep ==
    ASSUME TypeInv, TeardownInv, ReadInv, [Next]_vars
    PROVE  ReadInv'
<1> USE DEF ReadInv
<1>1. ASSUME UNCHANGED <<rid, rstep, pdes>> PROVE ReadInv'
  BY <1>1
<1>2. CASE TeardownStepNext
  BY <1>2 DEF TeardownStepNext, TeardownContainer, TeardownFails,
     TeardownDropSecrets, TeardownDown, TeardownClean, TeardownDelete, TeardownGoto,
     Forgets
<1>3. CASE (PassStep \/ PassTriggered \/ PassTick) /\ ~TeardownStepNext
  <2>1. \/ rstep' \in {"ctr", "down"}
        \/ UNCHANGED <<rid, rstep, pdes>>
        \/ rid = None /\ UNCHANGED <<rid, rstep>>
    BY <1>3 DEF PassStep, PassTriggered, PassTick, PassList, PassObserve,
       PassObserveFails, PassKick, PassEnqueue, PassDefer, PassDown, PassCollect,
       PassOrphans, PassComposeOrphans, PassEnd, PassGoto, PassReturn, TeardownInv
  <2> QED BY <1>1, <2>1 DEF TypeInv, PcInv
<1>4. CASE WorkerStep \/ UNCHANGED vars
  <2>1. UNCHANGED pass
    BY <1>4 DEF vars, WorkerStep, WorkerWake, WorkerDrained, WorkerPop, WorkerRead,
       WorkerParse, WorkerMark, WorkerFind, WorkerCreate, WorkerStart, WorkerWrite,
       WorkerUp, WorkerApplyFails, WorkerService, WorkerObserve, WorkerFresh,
       WorkerFinish, WorkerOnly
  <2> QED BY <1>1, <2>1 DEF pass
<1>5. CASE \/ \E i \in Inst, d \in Desired, rt \in Runtime, c \in Cfg : Upsert(i, d, rt, c)
           \/ \E i \in Inst, d \in Desired : SetStateRead(i, d)
           \/ SetStateWrite
           \/ \E i \in Inst : HardDelete(i) \/ ContainerExit(i)
  BY <1>1, <1>5 DEF Upsert, SetStateRead, SetStateWrite, HardDelete, ContainerExit,
     pass
<1>6. CASE Crash BY <1>6 DEF Crash
<1> QED BY <1>2, <1>3, <1>4, <1>5, <1>6 DEF Next

\* Every step keeps OrphanInv.
LEMMA OrphanStep ==
    ASSUME TypeInv, DeployInv, OrphanInv, [Next]_vars
    PROVE  OrphanInv'
<1>0. ASSUME UNCHANGED <<ppc, pdes, pobs>>, ptodo' \subseteq ptodo,
             \A i \in Steady : ctr[i] = NoCtr /\ proj[i].ws = NoCfg /\ ~Busy(i)
                                  => ctr'[i] = NoCtr /\ proj'[i].ws = NoCfg
      PROVE  OrphanInv'
  <2>1. \A i \in Steady : ppc \notin {"idle", "list"} /\ pdes[i].desired = "absent"
          => ~Busy(i)
    BY DEF DeployInv, Exclusion, BusyInv, Steady
  <2> QED BY <1>0, <2>1 DEF OrphanInv
<1>1. CASE WorkerStep
  <2>1. UNCHANGED <<ppc, pdes, pobs, ptodo>>
    BY <1>1, WorkerRows DEF pass, DeployInv
  <2>2. \A i \in Steady : ~Busy(i) => ctr'[i] = ctr[i] /\ proj'[i] = proj[i]
    BY <1>1, WorkerTouches DEF Busy, Steady, Soft
  <2> QED BY <1>0, <2>1, <2>2
<1>2. CASE \/ \E i \in Inst, d \in Desired, rt \in Runtime, c \in Cfg : Upsert(i, d, rt, c)
           \/ \E i \in Inst, d \in Desired : SetStateRead(i, d)
           \/ SetStateWrite
           \/ \E i \in Inst : HardDelete(i)
           \/ UNCHANGED vars
  <2>1. UNCHANGED <<ppc, pdes, pobs, ptodo, ctr, proj>>
    BY <1>2 DEF Upsert, SetStateRead, SetStateWrite, HardDelete, vars, durable, pass
  <2> QED BY <1>0, <2>1
<1>3. ASSUME NEW i \in Inst, ContainerExit(i) PROVE OrphanInv'
  <2>1. UNCHANGED <<ppc, pdes, pobs, ptodo, proj>> /\ ctr[i] # NoCtr
    BY <1>3 DEF ContainerExit, pass, NoCtr
  <2>2. \A j \in Inst : j # i => ctr'[j] = ctr[j]
    BY <1>3 DEF ContainerExit, TypeInv, TypeOK
  <2> QED BY <1>0, <2>1, <2>2 DEF Steady, Soft
<1>4. CASE TeardownStepNext
  <2>1. UNCHANGED <<ppc, pdes, pobs, ptodo>>
    BY <1>4 DEF TeardownStepNext, TeardownContainer, TeardownFails,
       TeardownDropSecrets, TeardownDown, TeardownClean, TeardownDelete, TeardownGoto
  <2>2. \A i \in Inst : /\ ctr'[i] \in {ctr[i], NoCtr}
                        /\ proj'[i].ws \in {proj[i].ws, NoCfg}
    BY <1>4 DEF TeardownStepNext, TeardownContainer, TeardownFails,
       TeardownDropSecrets, TeardownDown, TeardownClean, TeardownDelete, durable,
       TypeInv, TypeOK, Project
  <2> QED BY <1>0, <2>1, <2>2 DEF Steady, Soft
<1>5. CASE PassList
  <2>1. \A i \in Steady : row[i].desired = "absent" => ctr[i] = NoCtr /\ proj[i].ws = NoCfg
    BY DEF DeployInv, LeaveInv, UninstallLeavesNothing, Present
  <2> QED BY <1>5, <2>1 DEF PassList, OrphanInv, durable
<1>6. CASE PassObserve
  <2>1. \A i \in Steady : ctr[i] = NoCtr => pobs'[i] = "none"
    BY <1>6 DEF PassObserve, NoCtr, Steady, Soft
  <2> QED BY <1>6, <2>1 DEF PassObserve, OrphanInv, durable
<1>7. CASE PassOrphans BY <1>7 DEF PassOrphans, OrphanInv, durable
<1>8. CASE PassComposeOrphans BY <1>8 DEF PassComposeOrphans, OrphanInv, durable
<1>9. CASE PassKick \/ \E i \in Inst : PassEnqueue(i)
  BY <1>9 DEF PassKick, PassEnqueue, PassGoto, OrphanInv, durable
<1>10. CASE \E i \in Inst : PassDefer(i) \/ PassDown(i) \/ PassCollect(i)
  BY <1>10 DEF PassDefer, PassDown, PassCollect, OrphanInv, durable
<1>11. CASE PassTriggered \/ PassTick \/ PassObserveFails \/ PassEnd
  BY <1>11 DEF PassTriggered, PassTick, PassObserveFails, PassEnd, PassGoto,
     PassReturn, OrphanInv
<1>12. CASE Crash BY <1>12 DEF Crash, OrphanInv
<1> QED
  BY <1>1, <1>2, <1>3, <1>4, <1>5, <1>6, <1>7, <1>8, <1>9, <1>10, <1>11, <1>12
  DEF Next, PassStep

\* All of it holds at the start.
LEMMA RefineInit == Init => RefineInv
<1> SUFFICES ASSUME Init PROVE RefineInv
  OBVIOUS
<1>1. DeployInv BY DeployInit
<1>2. FindInv /\ CleanInv
  BY DEF Init, NoProj, FindInv, CleanInv, Removable, Soft
<1>3. ReadInv /\ OrphanInv BY DEF Init, ReadInv, OrphanInv
<1> QED BY <1>1, <1>2, <1>3 DEF RefineInv

\* And every step keeps it.
LEMMA RefineStep == TypeInv /\ RefineInv /\ [Next]_vars => RefineInv'
<1> SUFFICES ASSUME TypeInv, RefineInv, [Next]_vars PROVE RefineInv'
  OBVIOUS
<1> USE DEF RefineInv
<1>1. DeployInv' BY DeployStep
<1>2. FindInv' /\ CleanInv' BY FindableStep DEF DeployInv, Exclusion
<1>3. ReadInv' BY ReadStep DEF DeployInv, Exclusion
<1>4. OrphanInv' BY OrphanStep
<1> QED BY <1>1, <1>2, <1>3, <1>4

-----------------------------------------------------------------------------
(* The worker.                                                             *)

\* A kept instance has one runtime, and only the objects of that one.
LEMMA KeptKinds ==
    ASSUME TypeInv, RefineInv, NEW k \in Kept
    PROVE  /\ k \in Inst /\ k \in Soft /\ k \in Steady
           /\ "container" \in RuntimesOf[k] => proj[k].up = NoCfg
           /\ "compose" \in RuntimesOf[k] => ctr[k].cfg = NoCfg
<1>1. k \in Inst /\ k \in Soft /\ k \in Steady /\ k \in Removable
  BY DEF Kept, Steady, Soft, Removable
<1>2. ~("container" \in RuntimesOf[k] /\ "compose" \in RuntimesOf[k])
  BY <1>1 DEF Steady
<1>3. "container" \in RuntimesOf[k] => proj[k].up = NoCfg
  BY <1>1, <1>2 DEF RefineInv, DeployInv, LeaveInv, FindInv
<1>4. "compose" \in RuntimesOf[k] => ctr[k].cfg = NoCfg
  BY <1>1, <1>2 DEF RefineInv, DeployInv, LeaveInv, NoCtr
<1> QED BY <1>1, <1>3, <1>4

\* The worker and the pass never hold the same kept instance.
LEMMA KeptApart ==
    ASSUME RefineInv, NEW k \in Kept, active = k
    PROVE  rid # k
BY DEF RefineInv, DeployInv, Exclusion, NoApplyRemoveOverlap, Busy, Kept, Steady

\* SetObservedState changes nothing else of the table.
LEMMA ObservedOnly ==
    ASSUME TypeInv, NEW s, SetObserved(active, s)
    PROVE  \A j \in Inst : /\ row'[j].desired = row[j].desired
                           /\ row'[j].cfg = row[j].cfg
                           /\ j # active => row'[j] = row[j]
                           /\ row'[j].obs \in {row[j].obs, s}
BY DEF SetObserved, TypeInv, TypeOK, Row

\* What a step inside an apply may change.
LEMMA ApplyFrame ==
    ASSUME TypeInv, wpc \in Applying, WorkerStep
    PROVE  /\ UNCHANGED <<active, wrow, pass>>
           /\ wpc' \in Applying \union {"fresh"}
           /\ \A j \in Inst : /\ row'[j].desired = row[j].desired
                              /\ row'[j].cfg = row[j].cfg
                              /\ j # active => row'[j] = row[j]
                              /\ \/ row'[j].obs = row[j].obs
                                 \/ row'[j].obs # "installed"
                                 \/ WorkerObserve
<1>1. UNCHANGED <<active, wrow, pass>> /\ wpc' \in Applying \union {"fresh"}
  BY DEF WorkerStep, WorkerWake, WorkerDrained, WorkerPop, WorkerRead, WorkerParse,
     WorkerMark, WorkerFind, WorkerCreate, WorkerStart, WorkerWrite, WorkerUp,
     WorkerApplyFails, WorkerService, WorkerObserve, WorkerFresh, WorkerFinish,
     WorkerOnly, WorkerGoto, Applying
<1>2. \/ row' = row
      \/ row' = [row EXCEPT ![active].svc = TRUE]
      \/ SetObserved(active, "error") \/ SetObserved(active, "installing")
      \/ WorkerObserve /\ SetObserved(active, Reported)
  BY DEF WorkerStep, WorkerWake, WorkerDrained, WorkerPop, WorkerRead, WorkerParse,
     WorkerMark, WorkerFind, WorkerCreate, WorkerStart, WorkerWrite, WorkerUp,
     WorkerApplyFails, WorkerService, WorkerObserve, WorkerFresh, WorkerFinish,
     durable
<1>3. ASSUME row' = [row EXCEPT ![active].svc = TRUE], NEW j \in Inst
      PROVE  /\ row'[j].desired = row[j].desired
             /\ row'[j].cfg = row[j].cfg
             /\ j # active => row'[j] = row[j]
             /\ row'[j].obs = row[j].obs
  BY <1>3 DEF TypeInv, TypeOK, Row
<1>4. CASE SetObserved(active, "error") \/ SetObserved(active, "installing")
  BY <1>1, <1>4, ObservedOnly
<1>5. CASE WorkerObserve /\ SetObserved(active, Reported)
  BY <1>1, <1>5, ObservedOnly
<1> QED BY <1>1, <1>2, <1>3, <1>4, <1>5

\* What a step inside the apply of a kept instance may leave in Docker: what
\* was there, nothing, or what it applies.
LEMMA ApplyHolds ==
    ASSUME TypeInv, RefineInv, NEW k \in Kept, active = k, wpc \in Applying,
           WorkerStep
    PROVE  Held(k)' \in {Held(k), NoCfg, wrow.cfg}
<1> USE DEF Held
<1>1. /\ k \in Inst /\ wrow.runtime \in RuntimesOf[k]
      /\ "container" \in RuntimesOf[k] => proj[k].up = NoCfg
      /\ "compose" \in RuntimesOf[k] => ctr[k].cfg = NoCfg
  BY KeptKinds DEF RefineInv, DeployInv, KindInv
<1>2. EarnedInv /\ k \in Soft
  BY KeptKinds DEF RefineInv, DeployInv
<1>3. ASSUME ctr'[k].cfg = ctr[k].cfg, proj'[k].up = proj[k].up
      PROVE  Held(k)' = Held(k)
  BY <1>3
<1>4. CASE WorkerFind
  <2>1. wrow.runtime = "container" /\ UNCHANGED proj
        /\ (ctr'[k] = ctr[k] \/ ctr'[k] = NoCtr)
    BY <1>1, <1>2, <1>4 DEF WorkerFind, EarnedInv, TypeInv, TypeOK
  <2> QED BY <1>1, <2>1 DEF NoCtr
<1>5. CASE WorkerCreate
  <2>1. wrow.runtime = "container" /\ UNCHANGED proj /\ ctr'[k].cfg = wrow.cfg
    BY <1>1, <1>2, <1>5 DEF WorkerCreate, EarnedInv, TypeInv, TypeOK
  <2> QED BY <1>1, <2>1
<1>6. CASE WorkerStart
  <2>1. UNCHANGED proj /\ ctr'[k].cfg = ctr[k].cfg
    BY <1>1, <1>6 DEF WorkerStart, TypeInv, TypeOK, Container
  <2> QED BY <1>3, <2>1
<1>7. CASE WorkerWrite
  <2>1. UNCHANGED ctr /\ proj'[k].up = proj[k].up
    BY <1>1, <1>7 DEF WorkerWrite, TypeInv, TypeOK, Project
  <2> QED BY <1>3, <2>1
<1>8. CASE WorkerUp \/ WorkerApplyFails
  <2>1. /\ UNCHANGED ctr
        /\ \/ UNCHANGED proj
           \/ wpc = "up" /\ proj' = [proj EXCEPT ![k].up = proj[k].ws]
    BY <1>8 DEF WorkerUp, WorkerApplyFails
  <2>2. CASE UNCHANGED proj BY <1>3, <2>1, <2>2
  <2>3. CASE wpc = "up" /\ proj' = [proj EXCEPT ![k].up = proj[k].ws]
    <3>1. wrow.runtime = "compose" /\ proj[k].ws = wrow.cfg
      BY <1>2, <2>3 DEF EarnedInv
    <3>2. proj'[k].up = wrow.cfg
      BY <1>1, <2>3, <3>1 DEF TypeInv, TypeOK, Project
    <3> QED BY <1>1, <2>1, <3>1, <3>2
  <2> QED BY <2>1, <2>2, <2>3
<1>9. CASE \/ WorkerWake \/ WorkerDrained \/ WorkerPop \/ WorkerRead \/ WorkerParse
           \/ WorkerMark \/ WorkerService \/ WorkerObserve \/ WorkerFresh
           \/ WorkerFinish
  <2>1. UNCHANGED <<ctr, proj>>
    BY <1>9 DEF WorkerWake, WorkerDrained, WorkerPop, WorkerRead, WorkerParse,
       WorkerMark, WorkerService, WorkerObserve, WorkerFresh, WorkerFinish, durable
  <2> QED BY <1>3, <2>1
<1> QED BY <1>4, <1>5, <1>6, <1>7, <1>8, <1>9 DEF WorkerStep

\* A step inside an apply is a step of Deployment's apply, its report, or, for
\* an instance that is not kept, no step.
LEMMA ApplyImplements ==
    ASSUME TypeInv, RefineInv, wpc \in Applying, WorkerStep
    PROVE  [D!Next]_(D!vars)
<1>1. /\ UNCHANGED <<active, wrow, rid, pdes>>
      /\ wpc' \in Applying \union {"fresh"}
      /\ \A j \in Inst : /\ row'[j].desired = row[j].desired
                         /\ row'[j].cfg = row[j].cfg
                         /\ j # active => row'[j] = row[j]
                         /\ \/ row'[j].obs = row[j].obs
                            \/ row'[j].obs # "installed"
                            \/ WorkerObserve
  BY ApplyFrame DEF pass
<1>2. SameRead BY <1>1 DEF SameRead
<1>3. ASSUME NEW j \in Kept, j # active PROVE Same(j)
  <2>1. j \in Inst BY KeptKinds
  <2>2. row'[j] = row[j] /\ ctr'[j] = ctr[j] /\ proj'[j] = proj[j]
    BY <1>1, <1>3, <2>1, WorkerTouches
  <2> QED BY <1>1, <1>3, <2>2 DEF Same, Wanted, Held, Doing
<1>4. CASE active \notin Kept
  BY <1>2, <1>3, <1>4, StutterMaps
<1>5. ASSUME NEW k \in Kept, active = k PROVE D!Next
  <2>1. k \in Inst /\ k \in Soft /\ rid # k
    BY <1>5, KeptKinds, KeptApart
  <2>2. /\ Doing(k) = [kind |-> "apply", cfg |-> wrow.cfg]
        /\ Doing(k)' \in {Doing(k), D!NoJob}
        /\ wpc' = "fresh" => Doing(k)' = D!NoJob
    BY <1>1, <1>5, <2>1 DEF Doing, D!NoJob, Applying
  <2>3. Doing(k).kind = "apply" /\ Doing(k).cfg = wrow.cfg
    BY <2>2
  <2>4. Wanted(row[k])' = Wanted(row[k])
    BY <1>1, <2>1 DEF Wanted
  <2>5. Held(k)' \in {Held(k), NoCfg, Doing(k).cfg}
    BY <1>5, <2>3, ApplyHolds
  <2>6. \A j \in Kept : j # k => Same(j)
    BY <1>3, <1>5
  <2>7. CASE row'[k].obs = row[k].obs \/ row'[k].obs # "installed"
    <3>1. \/ (row[k].obs = "installed")' = (row[k].obs = "installed")
          \/ (row[k].obs = "installed")' = FALSE
      BY <2>7
    <3> QED BY <1>2, <2>2, <2>3, <2>4, <2>5, <2>6, <3>1, ApplyMaps
  <2>8. CASE WorkerObserve /\ row'[k].obs = "installed"
    <3>1. wpc = "obs" /\ wpc' = "fresh" /\ UNCHANGED <<ctr, proj>>
      BY <2>8 DEF WorkerObserve, WorkerGoto
    <3>2. Earned BY <1>5, <2>1, <3>1 DEF RefineInv, DeployInv, EarnedInv
    <3>3. /\ wrow.cfg \in Cfg /\ wrow.runtime \in RuntimesOf[k]
          /\ "compose" \in RuntimesOf[k] => ctr[k].cfg = NoCfg
      BY <1>5, KeptKinds DEF RefineInv, DeployInv, ConfigInv, KindInv
    <3>4. Held(k) = Doing(k).cfg /\ Held(k)' = Held(k)
      BY <1>5, <2>3, <3>1, <3>2, <3>3, ConstantsAssumption DEF Held, Earned
    <3>5. (row[k].obs = "installed")' BY <2>8
    <3> QED BY <1>2, <2>2, <2>3, <2>4, <2>6, <3>1, <3>4, <3>5, ReportMaps
  <2> QED BY <1>1, <2>1, <2>7, <2>8
<1> QED BY <1>4, <1>5

\* Every step of the worker.
LEMMA WorkerImplements ==
    ASSUME TypeInv, RefineInv, WorkerStep
    PROVE  [D!Next]_(D!vars)
<1>1. CASE wpc \in Applying BY <1>1, ApplyImplements
<1>2. ASSUME UNCHANGED <<row, ctr, proj, rid, pdes>>, wpc \notin Applying,
             wpc' \notin Applying
      PROVE  UNCHANGED D!vars
  <2>1. \A j \in Kept : Same(j)
    BY <1>2 DEF Same, Wanted, Held, Doing
  <2>2. SameRead BY <1>2 DEF SameRead
  <2> QED BY <2>1, <2>2, StutterMaps
<1>3. CASE WorkerWake \/ WorkerDrained \/ WorkerPop \/ WorkerFresh \/ WorkerFinish
  BY <1>2, <1>3 DEF WorkerWake, WorkerDrained, WorkerPop, WorkerFresh, WorkerFinish,
     WorkerGoto, WorkerOnly, durable, pass, Applying
<1>4. CASE WorkerRead
  <2>1. /\ wpc = "read" /\ wpc \notin Applying
        /\ UNCHANGED <<row, ctr, proj, rid, pdes, active>>
    BY <1>4 DEF WorkerRead, WorkerOnly, durable, pass, Applying
  <2>2. SameRead BY <2>1 DEF SameRead
  <2>3. ASSUME NEW j \in Kept, j # active PROVE Same(j)
    BY <2>1, <2>3 DEF Same, Wanted, Held, Doing
  <2>4. CASE row[active].desired # "installed"
    BY <1>2, <1>4, <2>1, <2>4 DEF WorkerRead, WorkerGoto, Applying
  <2>5. CASE active \notin Kept
    BY <2>2, <2>3, <2>5, StutterMaps
  <2>6. ASSUME NEW k \in Kept, active = k, row[k].desired = "installed"
        PROVE  D!Next
    <3>1. rid # k BY <2>6, KeptApart
    <3>2. Doing(k) = D!NoJob
      BY <2>1, <3>1 DEF Doing, D!NoJob
    <3>3. wpc' = "parse" /\ wrow' = row[k]
      BY <1>4, <2>6 DEF WorkerRead
    <3>4. Doing(k)' = D!ApplyOf(row[k].cfg)
      BY <2>1, <2>6, <3>3 DEF Doing, D!ApplyOf, Applying
    <3>5. \A j \in Kept : Doing(j).kind # "apply"
      BY <2>1 DEF Doing
    <3>6. Held(k)' = Held(k) BY <2>1 DEF Held
    <3>7. \A j \in Kept : j # k => Same(j) BY <2>3, <2>6
    <3> QED BY <2>1, <2>2, <2>6, <3>2, <3>4, <3>5, <3>6, <3>7, BeginApplyMaps
  <2> QED BY <2>4, <2>5, <2>6
<1>5. CASE \/ WorkerParse \/ WorkerMark \/ WorkerFind \/ WorkerCreate \/ WorkerStart
           \/ WorkerWrite \/ WorkerUp \/ WorkerApplyFails \/ WorkerService
           \/ WorkerObserve
  BY <1>1, <1>5 DEF WorkerParse, WorkerMark, WorkerFind, WorkerCreate, WorkerStart,
     WorkerWrite, WorkerUp, WorkerApplyFails, WorkerService, WorkerObserve, Applying
<1> QED BY <1>3, <1>4, <1>5 DEF WorkerStep

-----------------------------------------------------------------------------
(* The pass.                                                               *)

\* A step of the pass outside a teardown reads, begins a teardown of a kept
\* instance, or is no step.
LEMMA VisitImplements ==
    ASSUME TypeInv, RefineInv, PassStep \/ PassTriggered \/ PassTick,
           ~TeardownStepNext
    PROVE  [D!Next]_(D!vars)
<1>0. None \notin Kept
  BY ConstantsAssumption DEF Kept, Steady, Soft
<1>1. UNCHANGED <<row, ctr, proj, active, wpc, wrow>>
  BY DEF PassStep, PassTriggered, PassTick, PassList, PassObserve, PassObserveFails,
     PassKick, PassEnqueue, PassDefer, PassDown, PassCollect, PassOrphans,
     PassComposeOrphans, PassEnd, PassOnly, worker, durable
<1>2. ASSUME NEW j \in Kept, rid' = j <=> rid = j PROVE Same(j)
  BY <1>1, <1>2 DEF Same, Wanted, Held, Doing
<1>3. ASSUME rid = None, NEW j \in Kept PROVE Doing(j).kind # "down"
  BY <1>0, <1>3 DEF Doing
<1>4. ASSUME UNCHANGED <<rid, pdes>> PROVE UNCHANGED D!vars
  BY <1>2, <1>4, StutterMaps DEF SameRead
<1>5. CASE PassList
  <2>1. /\ rid = None /\ UNCHANGED rid
        /\ \A j \in Kept : pdes'[j].desired = row[j].desired
    BY <1>5 DEF PassList, RefineInv, DeployInv, Exclusion, TeardownInv
  <2> QED BY <1>2, <1>3, <2>1, LookMaps
<1>6. CASE PassObserveFails \/ PassEnd
  <2>1. rid = None /\ UNCHANGED rid /\ pdes' = [i \in Inst |-> NoRow]
    BY <1>6 DEF PassObserveFails, PassEnd, PassReturn, RefineInv, DeployInv,
       Exclusion, TeardownInv
  <2>2. NoRow.desired = "absent" BY DEF NoRow
  <2>3. \A j \in Kept : pdes'[j].desired = "absent"
    BY <2>1, <2>2 DEF Kept, Steady, Soft
  <2> QED BY <1>2, <1>3, <2>1, <2>3, LookMaps
<1>7. ASSUME NEW i \in Inst, PassDown(i) PROVE [D!Next]_(D!vars)
  <2>1. /\ rid = None /\ rid' = i /\ UNCHANGED pdes /\ ~Busy(i)
        /\ pdes[i].desired \in {"stopped", "removed"}
    BY <1>7 DEF PassDown
  <2>2. SameRead BY <2>1 DEF SameRead
  <2>3. \A j \in Kept : j # i => Same(j)
    BY <1>0, <1>2, <2>1
  <2>4. CASE i \notin Kept
    BY <2>2, <2>3, <2>4, StutterMaps
  <2>5. CASE i \in Kept
    <3>1. Doing(i) = D!NoJob /\ Doing(i)' = D!TakeDown
      BY <1>0, <1>1, <2>1, <2>5 DEF Doing, Busy, D!NoJob, D!TakeDown
    <3>2. Held(i)' = Held(i) BY <1>1 DEF Held
    <3> QED BY <1>1, <1>3, <2>1, <2>2, <2>3, <2>5, <3>1, <3>2, BeginDownMaps
  <2> QED BY <2>4, <2>5
<1>8. ASSUME NEW i \in Inst, PassCollect(i) PROVE UNCHANGED D!vars
  <2>1. /\ rid = None /\ rid' = i /\ UNCHANGED pdes
        /\ ppc \in {"gcctr", "gccmp"} /\ i \in ptodo
    BY <1>8 DEF PassCollect
  <2>2. pdes[i].desired = "absent"
    BY <2>1 DEF RefineInv, DeployInv, Exclusion, SnapshotInv
  <2>3. i \notin Kept
    BY <2>1, <2>2 DEF RefineInv, OrphanInv, Kept
  <2> QED BY <1>0, <1>2, <2>1, <2>3, StutterMaps DEF SameRead
<1>9. CASE \/ PassTriggered \/ PassTick \/ PassObserve \/ PassKick \/ PassOrphans
           \/ PassComposeOrphans \/ \E i \in Inst : PassEnqueue(i) \/ PassDefer(i)
  BY <1>4, <1>9 DEF PassTriggered, PassTick, PassObserve, PassKick, PassOrphans,
     PassComposeOrphans, PassEnqueue, PassDefer, PassGoto
<1> QED BY <1>5, <1>6, <1>7, <1>8, <1>9 DEF PassStep

\* A step of a teardown takes down or forgets a kept instance, or is no step.
LEMMA TeardownImplements ==
    ASSUME TypeInv, RefineInv, TeardownStepNext
    PROVE  [D!Next]_(D!vars)
<1>1. /\ rid \in Inst /\ rid' \in {rid, None}
      /\ UNCHANGED <<active, wpc, wrow, pdes>>
  BY DEF TeardownStepNext, TeardownContainer, TeardownFails, TeardownDropSecrets,
     TeardownDown, TeardownClean, TeardownDelete, TeardownGoto, PassOnly, worker,
     TypeInv, TypeOK, PcInv
<1>2. \A j \in Inst : j # rid => /\ ctr'[j] = ctr[j] /\ proj'[j] = proj[j]
                                 /\ row'[j] = row[j]
  BY PassTouches DEF PassStep
<1>3. SameRead BY <1>1 DEF SameRead
<1>4. ASSUME NEW j \in Kept, j # rid PROVE Same(j)
  <2>1. j \in Inst /\ j # None
    BY KeptKinds, ConstantsAssumption
  <2> QED BY <1>1, <1>2, <1>4, <2>1 DEF Same, Wanted, Held, Doing
<1>5. CASE rid \notin Kept
  BY <1>3, <1>4, <1>5, StutterMaps
<1>6. ASSUME NEW k \in Kept, rid = k PROVE D!Next
  <2>1. active # k /\ k \in Inst /\ k # None
    BY <1>6, KeptApart, KeptKinds, ConstantsAssumption
  <2>2. /\ Doing(k) = D!TakeDown
        /\ Doing(k)' \in {D!TakeDown, D!NoJob}
        /\ rid' = None => Doing(k)' = D!NoJob
    BY <1>1, <1>6, <2>1 DEF Doing, D!TakeDown, D!NoJob
  <2>3. \A j \in Kept : j # k => Same(j)
    BY <1>4, <1>6
  <2>4. ASSUME UNCHANGED row, Held(k)' \in {Held(k), NoCfg} PROVE D!Next
    BY <1>3, <2>2, <2>3, <2>4, DownMaps
  <2>5. CASE TeardownContainer
    <3>1. UNCHANGED <<row, proj>> /\ ctr'[k] = NoCtr
      BY <1>6, <2>1, <2>5 DEF TeardownContainer, TypeInv, TypeOK
    <3>2. Held(k)' = proj[k].up
      BY <3>1 DEF Held, NoCtr
    <3>3. Held(k)' \in {Held(k), NoCfg}
      <4>1. CASE "container" \in RuntimesOf[k]
        BY <3>2, <4>1, KeptKinds
      <4>2. CASE "container" \notin RuntimesOf[k]
        <5>1. ctr[k].cfg = NoCfg
          BY <2>1, <4>2 DEF RefineInv, DeployInv, LeaveInv, NoCtr
        <5> QED BY <3>2, <5>1 DEF Held
      <4> QED BY <4>1, <4>2
    <3> QED BY <2>4, <3>1, <3>3
  <2>6. CASE TeardownFails \/ TeardownDropSecrets
    <3>1. UNCHANGED <<row, ctr>> /\ proj'[k].up = proj[k].up
      BY <1>6, <2>1, <2>6
         DEF TeardownFails, TeardownDropSecrets, TypeInv, TypeOK, Project
    <3> QED BY <2>4, <3>1 DEF Held
  <2>7. CASE TeardownDown
    <3>1. UNCHANGED <<row, ctr>> /\ proj'[k].up \in {proj[k].up, NoCfg}
      BY <1>6, <2>1, <2>7 DEF TeardownDown, TypeInv, TypeOK, Project
    <3> QED BY <2>4, <3>1 DEF Held
  <2>8. CASE TeardownClean
    <3>1. UNCHANGED <<row, ctr>> /\ proj'[k].up = proj[k].up
      BY <1>6, <2>1, <2>8 DEF TeardownClean, TypeInv, TypeOK, Project
    <3> QED BY <2>4, <3>1 DEF Held
  <2>9. CASE TeardownDelete
    <3>1. /\ rstep = "delete" /\ rid' = None /\ UNCHANGED <<ctr, proj>>
          /\ row'[k] = NoRow
      BY <1>6, <2>1, <2>9 DEF TeardownDelete, TeardownGoto, TypeInv, TypeOK
    <3>2. pdes[k].desired = "removed"
      BY <1>6, <3>1 DEF RefineInv, ReadInv
    <3>3. k \in Steady /\ k \in Removable
      BY DEF Kept, Steady, Removable
    <3>4. ctr[k] = NoCtr /\ proj[k].ws = NoCfg
      BY <1>6, <3>1, <3>3 DEF RefineInv, DeployInv, LeaveInv
    <3>5. proj[k].up = NoCfg
      BY <3>3, <3>4 DEF RefineInv, FindInv
    <3>6. Held(k) = NoCfg /\ Held(k)' = NoCfg
      BY <3>1, <3>4, <3>5 DEF Held, NoCtr
    <3> QED BY <1>3, <2>2, <2>3, <3>1, <3>2, <3>6, ForgetMaps
  <2> QED BY <2>5, <2>6, <2>7, <2>8, <2>9 DEF TeardownStepNext
<1> QED BY <1>5, <1>6

-----------------------------------------------------------------------------
(* Requests, the environment and crashes.                                  *)

\* A write of the whole row is a new wish.
LEMMA WriteImplements ==
    ASSUME TypeInv, NEW i \in Inst, NEW d \in Desired, NEW rt, NEW c \in Cfg,
           row' = Written(i, d, rt, c),
           UNCHANGED <<ctr, proj, active, wpc, wrow, rid, pdes>>
    PROVE  [D!Next]_(D!vars)
<1>1. SameRead BY DEF SameRead
<1>2. \A j \in Inst : j # i => row'[j] = row[j]
  BY DEF Written, TypeInv, TypeOK
<1>3. row'[i].desired = d /\ row'[i].cfg = c /\ row'[i].obs = row[i].obs
  BY DEF Written, TypeInv, TypeOK, Row
<1>4. ASSUME NEW j \in Kept, j # i PROVE Same(j)
  BY <1>2, <1>4 DEF Same, Wanted, Held, Doing, Kept, Steady, Soft
<1>5. CASE i \notin Kept
  BY <1>1, <1>4, <1>5, StutterMaps
<1>6. CASE i \in Kept
  <2>1. Wanted(row[i])' \in D!Wish
    BY <1>3 DEF Wanted, D!Wish, Desired
  <2>2. Doing(i)' = Doing(i) /\ Held(i)' = Held(i)
    BY DEF Doing, Held
  <2> QED BY <1>1, <1>3, <1>4, <1>6, <2>1, <2>2, AskMaps
<1> QED BY <1>5, <1>6

\* Everything that is neither the worker nor the pass.
LEMMA OtherImplements ==
    ASSUME TypeInv, RefineInv,
           \/ \E i \in Inst, d \in Desired, rt \in Runtime, c \in Cfg : Upsert(i, d, rt, c)
           \/ \E i \in Inst, d \in Desired : SetStateRead(i, d)
           \/ SetStateWrite
           \/ \E i \in Inst : HardDelete(i) \/ ContainerExit(i)
           \/ Crash
           \/ UNCHANGED vars
    PROVE  [D!Next]_(D!vars)
<1>0. \A j \in Kept : j \in Inst /\ j \notin HardDeletable /\ j # None
  BY ConstantsAssumption DEF Kept, Steady, Soft
<1>1. ASSUME NEW i \in Inst, NEW d \in Desired, NEW rt \in Runtime, NEW c \in Cfg,
             Upsert(i, d, rt, c)
      PROVE  [D!Next]_(D!vars)
  BY <1>1, WriteImplements DEF Upsert, worker, pass
<1>2. ASSUME UNCHANGED <<active, wpc, wrow, rid, pdes>>,
             \A j \in Kept : /\ row'[j] = row[j] /\ proj'[j] = proj[j]
                             /\ ctr'[j].cfg = ctr[j].cfg
      PROVE  UNCHANGED D!vars
  <2>1. \A j \in Kept : Same(j)
    BY <1>2 DEF Same, Wanted, Held, Doing
  <2>2. SameRead BY <1>2 DEF SameRead
  <2> QED BY <2>1, <2>2, StutterMaps
<1>3. CASE UNCHANGED vars \/ \E i \in Inst, d \in Desired : SetStateRead(i, d)
  BY <1>2, <1>3 DEF SetStateRead, vars, durable, shared, worker, pass
<1>4. CASE SetStateWrite
  <2>1. req.id \in Inst /\ req.desired \in Desired /\ req.cfg \in Cfg
    BY <1>4 DEF SetStateWrite, RefineInv, DeployInv, Exclusion, ReqInv, ConfigInv,
       KindInv
  <2> QED BY <1>4, <2>1, WriteImplements DEF SetStateWrite, worker, pass
<1>5. ASSUME NEW i \in Inst, HardDelete(i) PROVE UNCHANGED D!vars
  <2>1. \A j \in Kept : row'[j] = row[j]
    BY <1>0, <1>5 DEF HardDelete, TypeInv, TypeOK
  <2> QED BY <1>2, <1>5, <2>1 DEF HardDelete, worker, pass
<1>6. ASSUME NEW i \in Inst, ContainerExit(i) PROVE UNCHANGED D!vars
  <2>1. \A j \in Inst : ctr'[j].cfg = ctr[j].cfg
    BY <1>6 DEF ContainerExit, TypeInv, TypeOK, Container
  <2> QED BY <1>0, <1>2, <1>6, <2>1 DEF ContainerExit, shared, worker, pass
<1>7. CASE Crash
  <2>1. /\ active' = None /\ rid' = None /\ UNCHANGED <<row, ctr, proj>>
        /\ pdes' = [i \in Inst |-> NoRow]
    BY <1>7 DEF Crash, durable
  <2>2. NoRow.desired = "absent" BY DEF NoRow
  <2>3. \A j \in Kept : pdes'[j].desired = "absent"
    BY <1>0, <2>1, <2>2
  <2>4. \A j \in Kept : Doing(j)' = D!NoJob
    BY <1>0, <2>1 DEF Doing, D!NoJob
  <2>5. D!Restart
    BY <2>1, <2>3, <2>4 DEF D!Restart, Held
  <2> QED BY <2>5 DEF D!Next
<1> QED BY <1>1, <1>3, <1>4, <1>5, <1>6, <1>7

\* The initial states agree.
LEMMA InitImplements == Init => D!Init
<1> SUFFICES ASSUME Init PROVE D!Init
  OBVIOUS
<1>0. \A j \in Kept : j \in Inst /\ j # None
  BY ConstantsAssumption DEF Kept, Steady, Soft
<1>1. /\ NoRow.desired = "absent" /\ NoRow.cfg = NoCfg /\ NoRow.obs = ""
      /\ NoCtr.cfg = NoCfg /\ NoProj.up = NoCfg
  BY DEF NoRow, NoCtr, NoProj
<1>2. \A j \in Kept : row[j] = NoRow /\ pdes[j] = NoRow /\ ctr[j] = NoCtr /\ proj[j] = NoProj
  BY <1>0 DEF Init
<1>3. \A j \in Kept : Wanted(row[j]) = D!NoWish
  BY <1>1, <1>2 DEF Wanted, D!NoWish
<1>4. \A j \in Kept : Doing(j) = D!NoJob
  BY <1>0 DEF Init, Doing, D!NoJob
<1>5. \A j \in Kept : Held(j) = NoCfg
  BY <1>1, <1>2 DEF Held
<1>6. \A j \in Kept : pdes[j].desired = "absent" /\ (row[j].obs = "installed") = FALSE
  BY <1>1, <1>2
<1> QED BY <1>3, <1>4, <1>5, <1>6 DEF D!Init

\* The reconcile loop, the apply worker, the drivers' calls and the requests
\* implement Deployment: whatever fails, crashes or interleaves, a kept instance
\* is applied or taken down and never both, an apply brings up the configuration
\* it read and reports "installed" over nothing else, and its row goes only
\* when its removal was read and Docker holds nothing of it.
THEOREM ReconcilerImplementsDeployment == Spec => DeploysAsAsked
<1>1. TypeInv /\ RefineInv /\ [Next]_vars => [D!Next]_(D!vars)
  <2> SUFFICES ASSUME TypeInv, RefineInv, [Next]_vars PROVE [D!Next]_(D!vars)
    OBVIOUS
  <2>1. CASE WorkerStep BY <2>1, WorkerImplements
  <2>2. CASE TeardownStepNext BY <2>2, TeardownImplements
  <2>3. CASE (PassStep \/ PassTriggered \/ PassTick) /\ ~TeardownStepNext
    BY <2>3, VisitImplements
  <2> QED BY <2>1, <2>2, <2>3, OtherImplements DEF Next
<1> QED
  BY <1>1, InitImplements, RefineInit, RefineStep, TypeInit, TypeStep, PTL
  DEF Spec, DeploysAsAsked, D!Spec

-----------------------------------------------------------------------------
(* The orphan collection.                                                  *)

\* Only the visit to an instance of the snapshot begins the teardown of a steady
\* one, and the pass does not go on to its orphans before that has ended.
LEMMA StrangersStep ==
    ASSUME TypeInv, RefineInv, OrphansAreStrangers, [Next]_vars
    PROVE  OrphansAreStrangers'
<1>0. None \notin Steady BY ConstantsAssumption DEF Steady, Soft
<1>1. ASSUME rid' = None \/ (rid' = rid /\ ppc' = ppc)
      PROVE  OrphansAreStrangers'
  BY <1>0, <1>1 DEF OrphansAreStrangers
<1>2. rid # None => ppc \in {"each", "gcctr", "gccmp"}
  BY DEF RefineInv, DeployInv, Exclusion, TeardownInv
<1>3. ASSUME NEW i \in Inst, PassDown(i) PROVE OrphansAreStrangers'
  BY <1>3 DEF PassDown, OrphansAreStrangers
<1>4. ASSUME NEW i \in Inst, PassCollect(i) PROVE OrphansAreStrangers'
  <2>1. rid' = i /\ ppc \in {"gcctr", "gccmp"} /\ i \in ptodo
    BY <1>4 DEF PassCollect
  <2>2. pdes[i].desired = "absent"
    BY <2>1 DEF RefineInv, DeployInv, Exclusion, SnapshotInv
  <2>3. i \notin Steady
    BY <2>1, <2>2 DEF RefineInv, OrphanInv
  <2> QED BY <2>1, <2>3 DEF OrphansAreStrangers
<1>5. CASE PassStep /\ ~(\E i \in Inst : PassDown(i) \/ PassCollect(i))
  BY <1>1, <1>2, <1>5 DEF PassStep, PassList, PassObserve, PassObserveFails,
     PassReturn, PassEnqueue, PassKick, PassGoto, PassDefer, PassOrphans,
     PassComposeOrphans, PassEnd, TeardownContainer, TeardownFails,
     TeardownDropSecrets, TeardownDown, TeardownClean, TeardownDelete, TeardownGoto,
     TeardownStepNext
<1>6. CASE PassTriggered \/ PassTick
  BY <1>1, <1>2, <1>6 DEF PassTriggered, PassTick, PassGoto
<1>7. CASE Crash BY <1>1, <1>7 DEF Crash
<1>8. CASE WorkerStep
  BY <1>1, <1>8, WorkerRows DEF RefineInv, DeployInv, pass
<1>9. CASE \/ \E i \in Inst, d \in Desired, rt \in Runtime, c \in Cfg : Upsert(i, d, rt, c)
           \/ \E i \in Inst, d \in Desired : SetStateRead(i, d)
           \/ SetStateWrite
           \/ \E i \in Inst : HardDelete(i) \/ ContainerExit(i)
           \/ UNCHANGED vars
  BY <1>1, <1>9 DEF Upsert, SetStateRead, SetStateWrite, HardDelete, ContainerExit,
     pass, vars
<1> QED
  BY <1>3, <1>4, <1>5, <1>6, <1>7, <1>8, <1>9 DEF Next

\* No orphan collection, from whatever snapshots, tears down a steady instance:
\* one without a row holds neither container nor workspace when the pass looks,
\* and none gets any before the next pass has read its row.
THEOREM NoFalseOrphans == Spec => []OrphansAreStrangers
<1>1. Init => OrphansAreStrangers
  BY ConstantsAssumption DEF Init, OrphansAreStrangers, Steady, Soft
<1> QED
  BY <1>1, StrangersStep, RefineInit, RefineStep, TypeInit, TypeStep, PTL DEF Spec
=============================================================================
