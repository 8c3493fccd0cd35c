-------------------------- MODULE ReconcilerProofs --------------------------
(***************************************************************************)
(* Proofs about Reconciler, for any set of instances and configurations    *)
(* and any bounds.                                                         *)
(***************************************************************************)
EXTENDS Reconciler, TLAPS

-----------------------------------------------------------------------------
(* The record types the actions write.                                     *)

\* The null records have the types of what they stand for.
LEMMA NullTypes ==
    /\ NoRow \in Row /\ NoCtr \in Container /\ NoProj \in Project
    /\ NoReq \in RowWrite
BY DEF NoRow, Row, NoCtr, Container, CtrState, NoProj, Project, NoReq, RowWrite,
       Observed

\* The empty work queue is a queue of jobs.
LEMMA EmptyQueue == <<>> \in Seq(Job)
OBVIOUS

\* Appending a job keeps it one.
LEMMA AppendType ==
    ASSUME NEW q \in Seq(Job), NEW j \in Job
    PROVE  Append(q, j) \in Seq(Job)
OBVIOUS

\* SetObservedState keeps the table well formed.
LEMMA SetObservedType ==
    ASSUME row \in [Inst -> Row], NEW i, NEW s \in Observed, SetObserved(i, s)
    PROVE  row' \in [Inst -> Row]
BY DEF SetObserved, Row

\* So does UpsertService.
LEMMA ServiceType ==
    ASSUME row \in [Inst -> Row], NEW i
    PROVE  [row EXCEPT ![i].svc = TRUE] \in [Inst -> Row]
BY DEF Row

\* And UpsertInstance.
LEMMA WrittenType ==
    ASSUME row \in [Inst -> Row], NEW i, NEW d \in Desired \union {"absent"},
           NEW rt \in Runtime \union {"none"}, NEW c \in Cfg \union {NoCfg}
    PROVE  Written(i, d, rt, c) \in [Inst -> Row]
<1>1. ASSUME i \in Inst
      PROVE  [row[i] EXCEPT !.desired = d, !.runtime = rt, !.cfg = c] \in Row
  BY <1>1 DEF Row
<1> QED BY <1>1 DEF Written

\* A change of a container's state.
LEMMA ContainerType ==
    ASSUME ctr \in [Inst -> Container], NEW i, NEW s \in CtrState
    PROVE  [ctr EXCEPT ![i].state = s] \in [Inst -> Container]
BY DEF Container

\* A change of a project's workspace or of what is up.
LEMMA ProjectType ==
    ASSUME proj \in [Inst -> Project], NEW i, NEW c \in Cfg \union {NoCfg}
    PROVE  /\ [proj EXCEPT ![i].ws = c] \in [Inst -> Project]
           /\ [proj EXCEPT ![i].up = c] \in [Inst -> Project]
BY DEF Project

\* A project's fields.
LEMMA ProjectFields ==
    ASSUME proj \in [Inst -> Project], NEW i \in Inst
    PROVE  proj[i].ws \in Cfg \union {NoCfg} /\ proj[i].up \in Cfg \union {NoCfg}
BY DEF Project

-----------------------------------------------------------------------------
(* Type correctness, with what ties the program counters to the ids.       *)

PcInv ==
    /\ active = None <=> wpc \in {"idle", "drain"}
    /\ rid = None <=> rstep = "none"

TypeInv == TypeOK /\ PcInv

\* A step of the apply worker keeps the types.
LEMMA WorkerType ==
    ASSUME TypeInv, WorkerStep
    PROVE  TypeInv'
<1> USE ConstantsAssumption, NullTypes
    DEF TypeInv, TypeOK, PcInv, WorkerPc, WorkerGoto, WorkerOnly, pass, durable,
        bounds, shared
<1>1. CASE WorkerWake BY <1>1 DEF WorkerWake
<1>2. CASE WorkerDrained BY <1>2 DEF WorkerDrained
<1>3. CASE WorkerPop
  <2>1. Head(queue) \in Job /\ Tail(queue) \in Seq(Job) BY <1>3 DEF WorkerPop
  <2>2. Head(queue).id \in Inst /\ Head(queue).obs \in CtrState BY <2>1 DEF Job
  <2> QED BY <1>3, <2>1, <2>2 DEF WorkerPop
<1>4. CASE WorkerRead BY <1>4 DEF WorkerRead
<1>5. CASE WorkerParse
  <2>1. row' \in [Inst -> Row]
    BY <1>5, SetObservedType, "error" \in Observed DEF WorkerParse, Observed
  <2> QED BY <1>5, <2>1 DEF WorkerParse
<1>6. CASE WorkerMark
  <2>1. row' \in [Inst -> Row]
    BY <1>6, SetObservedType, "installing" \in Observed DEF WorkerMark, Observed
  <2> QED BY <1>6, <2>1 DEF WorkerMark
<1>7. CASE WorkerFind BY <1>7 DEF WorkerFind
<1>8. CASE WorkerCreate
  <2>1. [state |-> "created", cfg |-> wrow.cfg] \in Container
    BY DEF Container, CtrState, Row
  <2> QED BY <1>8, <2>1 DEF WorkerCreate
<1>9. CASE WorkerStart
  <2>1. row' \in [Inst -> Row]
    BY <1>9, SetObservedType, "error" \in Observed DEF WorkerStart, Observed
  <2>2. ctr' \in [Inst -> Container]
    <3>1. [ctr EXCEPT ![active].state = "running"] \in [Inst -> Container]
      BY ContainerType, "running" \in CtrState DEF CtrState
    <3> QED BY <1>9, <3>1 DEF WorkerStart
  <2> QED BY <1>9, <2>1, <2>2 DEF WorkerStart
<1>10. CASE WorkerWrite
  <2>1. wrow.cfg \in Cfg \union {NoCfg} BY DEF Row
  <2>2. proj' \in [Inst -> Project] BY <1>10, <2>1, ProjectType DEF WorkerWrite
  <2> QED BY <1>10, <2>2 DEF WorkerWrite
<1>11. CASE WorkerUp
  <2>1. row' \in [Inst -> Row]
    BY <1>11, SetObservedType, "error" \in Observed DEF WorkerUp, Observed
  <2>2. proj' \in [Inst -> Project]
    <3>1. active \in Inst BY <1>11 DEF WorkerUp
    <3>2. [proj EXCEPT ![active].up = proj[active].ws] \in [Inst -> Project]
      BY <3>1, ProjectFields, ProjectType
    <3> QED BY <1>11, <3>2 DEF WorkerUp
  <2> QED BY <1>11, <2>1, <2>2 DEF WorkerUp
<1>12. CASE WorkerApplyFails
  <2>1. row' \in [Inst -> Row]
    BY <1>12, SetObservedType, "error" \in Observed DEF WorkerApplyFails, Observed
  <2>2. active \in Inst BY <1>12 DEF WorkerApplyFails
  <2>3. proj' \in [Inst -> Project]
    <3>1. [proj EXCEPT ![active].up = proj[active].ws] \in [Inst -> Project]
      BY <2>2, ProjectFields, ProjectType
    <3> QED BY <1>12, <3>1 DEF WorkerApplyFails
  <2> QED BY <1>12, <2>1, <2>3 DEF WorkerApplyFails, Fault
<1>13. CASE WorkerService
  <2>1. row' \in [Inst -> Row] BY <1>13, ServiceType DEF WorkerService
  <2> QED BY <1>13, <2>1 DEF WorkerService
<1>14. CASE WorkerObserve
  <2>1. Reported \in Observed BY DEF Reported, Observed
  <2>2. row' \in [Inst -> Row] BY <1>14, <2>1, SetObservedType DEF WorkerObserve
  <2> QED BY <1>14, <2>2 DEF WorkerObserve
<1>15. CASE WorkerFresh BY <1>15 DEF WorkerFresh
<1>16. CASE WorkerFinish
  BY <1>16, "none" \in CtrState DEF WorkerFinish, CtrState
<1> QED
  BY <1>1, <1>2, <1>3, <1>4, <1>5, <1>6, <1>7, <1>8, <1>9, <1>10, <1>11, <1>12,
     <1>13, <1>14, <1>15, <1>16 DEF WorkerStep

\* A step of the reconcile pass keeps the types.
LEMMA PassType ==
    ASSUME TypeInv, PassStep \/ PassTriggered \/ PassTick
    PROVE  TypeInv'
<1> USE ConstantsAssumption, NullTypes
    DEF TypeInv, TypeOK, PcInv, PassPc, TeardownStep, PassGoto, PassOnly,
        PassReturn, TeardownGoto, worker, durable
<1>1. CASE PassTriggered BY <1>1 DEF PassTriggered
<1>2. CASE PassTick BY <1>2 DEF PassTick
<1>3. CASE PassList BY <1>3 DEF PassList
<1>4. CASE PassObserve
  <2>1. \A i \in Inst : ctr[i].state \in CtrState BY DEF Container
  <2> QED BY <1>4, <2>1 DEF PassObserve
<1>5. CASE PassObserveFails
  BY <1>5, "none" \in CtrState DEF PassObserveFails, Fault, CtrState
<1>6. CASE PassKick BY <1>6 DEF PassKick
<1>7. ASSUME NEW i \in Inst, PassEnqueue(i) PROVE TypeInv'
  <2>1. [id |-> i, obs |-> pobs[i]] \in Job BY DEF Job
  <2>2. Append(queue, [id |-> i, obs |-> pobs[i]]) \in Seq(Job)
    BY <2>1, AppendType
  <2>3. queue' \in Seq(Job) BY <1>7, <2>2 DEF PassEnqueue
  <2> QED BY <1>7, <2>3 DEF PassEnqueue
<1>8. ASSUME NEW i \in Inst, PassDefer(i) PROVE TypeInv'
  BY <1>8 DEF PassDefer
<1>9. ASSUME NEW i \in Inst, PassDown(i) PROVE TypeInv'
  BY <1>9 DEF PassDown
<1>10. ASSUME NEW i \in Inst, PassCollect(i) PROVE TypeInv'
  BY <1>10 DEF PassCollect
<1>11. CASE PassOrphans BY <1>11 DEF PassOrphans
<1>12. CASE PassComposeOrphans BY <1>12 DEF PassComposeOrphans
<1>13. CASE PassEnd BY <1>13, "none" \in CtrState DEF PassEnd, CtrState
<1>14. CASE TeardownContainer BY <1>14 DEF TeardownContainer
<1>15. CASE TeardownFails
  <2>1. [proj EXCEPT ![rid].ws = NoCfg] \in [Inst -> Project] BY ProjectType
  <2>2. proj' \in [Inst -> Project] BY <1>15, <2>1 DEF TeardownFails
  <2> QED BY <1>15, <2>2 DEF TeardownFails, Fault
<1>16. CASE TeardownDropSecrets
  <2>1. tsec' \subseteq Inst /\ faults' \in Nat
    BY <1>16 DEF TeardownDropSecrets, Fault
  <2> QED BY <1>16, <2>1 DEF TeardownDropSecrets
<1>17. CASE TeardownDown
  <2>0. [proj EXCEPT ![rid].up = NoCfg] \in [Inst -> Project] BY ProjectType
  <2>1. proj' \in [Inst -> Project] BY <1>17, <2>0 DEF TeardownDown
  <2>2. faults' \in Nat BY <1>17 DEF TeardownDown, Fault
  <2> QED BY <1>17, <2>1, <2>2 DEF TeardownDown
<1>18. CASE TeardownClean
  <2>1. proj' \in [Inst -> Project] BY <1>18, ProjectType DEF TeardownClean
  <2> QED BY <1>18, <2>1 DEF TeardownClean
<1>19. CASE TeardownDelete BY <1>19 DEF TeardownDelete
<1> QED
  BY <1>1, <1>2, <1>3, <1>4, <1>5, <1>6, <1>7, <1>8, <1>9, <1>10, <1>11, <1>12,
     <1>13, <1>14, <1>15, <1>16, <1>17, <1>18, <1>19
  DEF PassStep, TeardownStepNext

\* A request, the environment or a crash keeps the types.
LEMMA OtherType ==
    ASSUME TypeInv,
           \/ \E i \in Inst, d \in Desired, rt \in Runtime, c \in Cfg : Upsert(i, d, rt, c)
           \/ \E i \in Inst, d \in Desired : SetStateRead(i, d)
           \/ SetStateWrite
           \/ \E i \in Inst : HardDelete(i) \/ ContainerExit(i)
           \/ Crash
    PROVE  TypeInv'
<1> USE ConstantsAssumption, NullTypes
    DEF TypeInv, TypeOK, PcInv, durable, shared, worker, pass, bounds
<1>1. ASSUME NEW i \in Inst, NEW d \in Desired, NEW rt \in Runtime, NEW c \in Cfg,
             Upsert(i, d, rt, c)
      PROVE  TypeInv'
  <2>1. row' \in [Inst -> Row]
    BY <1>1, WrittenType DEF Upsert
  <2> QED BY <1>1, <2>1 DEF Upsert, Request
<1>2. ASSUME NEW i \in Inst, NEW d \in Desired, SetStateRead(i, d)
      PROVE  TypeInv'
  <2>1. req' \in RowWrite BY <1>2 DEF SetStateRead, RowWrite, Row
  <2> QED BY <1>2, <2>1 DEF SetStateRead, Request
<1>3. CASE SetStateWrite
  <2>1. /\ req.desired \in Desired \union {"absent"}
        /\ req.runtime \in Runtime \union {"none"}
        /\ req.cfg \in Cfg \union {NoCfg}
    BY DEF RowWrite
  <2>2. row' \in [Inst -> Row] BY <1>3, <2>1, WrittenType DEF SetStateWrite
  <2> QED BY <1>3, <2>2 DEF SetStateWrite
<1>4. ASSUME NEW i \in Inst, HardDelete(i) PROVE TypeInv'
  BY <1>4 DEF HardDelete, Request
<1>5. ASSUME NEW i \in Inst, ContainerExit(i) PROVE TypeInv'
  <2>1. ctr' \in [Inst -> Container]
    BY <1>5, ContainerType, "exited" \in CtrState DEF ContainerExit, CtrState
  <2> QED BY <1>5, <2>1 DEF ContainerExit, Fault
<1>6. CASE Crash
  <2>1. /\ queue' \in Seq(Job) /\ pending' \subseteq Inst /\ active' = None
        /\ trigger' \in BOOLEAN /\ kick' \in BOOLEAN
    BY <1>6, EmptyQueue DEF Crash
  <2>2. wpc' \in WorkerPc /\ wrow' \in Row /\ wobs' \in CtrState
    BY <1>6 DEF Crash, WorkerPc, CtrState
  <2>3. /\ ppc' \in PassPc /\ pdes' \in [Inst -> Row]
        /\ pobs' \in [Inst -> CtrState] /\ ptodo' \subseteq Inst
        /\ rid' = None /\ rstep' \in TeardownStep
    BY <1>6 DEF Crash, PassPc, TeardownStep, CtrState
  <2>4. UNCHANGED <<row, ctr, proj, tsec, ops, faults>> /\ req' \in RowWrite
        /\ crashes' \in Nat
    BY <1>6 DEF Crash
  <2>5. PcInv' BY <1>6 DEF Crash
  <2> QED BY <2>1, <2>2, <2>3, <2>4, <2>5
<1> QED BY <1>1, <1>2, <1>3, <1>4, <1>5, <1>6

\* Every step, and a stuttering step, keeps the types.
LEMMA TypeStep == TypeInv /\ [Next]_vars => TypeInv'
<1> SUFFICES ASSUME TypeInv, [Next]_vars PROVE TypeInv'
  OBVIOUS
<1>1. CASE Next BY <1>1, WorkerType, PassType, OtherType DEF Next
<1>2. CASE UNCHANGED vars
  BY <1>2 DEF vars, durable, shared, worker, pass, bounds, TypeInv, TypeOK, PcInv
<1> QED BY <1>1, <1>2

\* The initial state is well typed.
LEMMA TypeInit == Init => TypeInv
<1> SUFFICES ASSUME Init PROVE TypeInv
  OBVIOUS
<1> USE ConstantsAssumption, NullTypes DEF Init
<1>1. /\ row \in [Inst -> Row] /\ ctr \in [Inst -> Container]
      /\ proj \in [Inst -> Project] /\ tsec \subseteq Inst
  OBVIOUS
<1>2. /\ trigger \in BOOLEAN /\ queue \in Seq(Job) /\ pending \subseteq Inst
      /\ active = None /\ kick \in BOOLEAN
  BY EmptyQueue
<1>3. wpc \in WorkerPc /\ wrow \in Row /\ wobs \in CtrState
  BY DEF WorkerPc, CtrState
<1>4. /\ ppc \in PassPc /\ pdes \in [Inst -> Row] /\ pobs \in [Inst -> CtrState]
      /\ ptodo \subseteq Inst /\ rid = None /\ rstep \in TeardownStep
  BY DEF PassPc, TeardownStep, CtrState
<1>5. req \in RowWrite /\ ops \in Nat /\ faults \in Nat /\ crashes \in Nat
  OBVIOUS
<1>6. PcInv BY DEF PcInv
<1> QED BY <1>1, <1>2, <1>3, <1>4, <1>5, <1>6 DEF TypeInv, TypeOK

\* The type invariant of the reconciler (loop.go's state, the instances table
\* and the Docker objects) holds in every reachable state.
THEOREM TypeCorrect == Spec => []TypeOK
<1>1. TypeInv => TypeOK BY DEF TypeInv
<1> QED BY <1>1, TypeInit, TypeStep, PTL DEF Spec

-----------------------------------------------------------------------------
(* The queue of the apply worker.                                          *)

\* The variables of the queue that are guarded by workMu.
work == <<queue, pending, active>>

\* Only the pass's enqueue, the worker's pop and finish, and a crash write the
\* queue's variables.
LEMMA WorkFrame ==
    ASSUME Next, ~WorkerPop, ~WorkerFinish, ~Crash,
           \A i \in Inst : ~PassEnqueue(i)
    PROVE  UNCHANGED work
<1> USE DEF work
<1>1. ASSUME NEW i \in Inst, NEW d \in Desired, NEW rt \in Runtime, NEW c \in Cfg,
             Upsert(i, d, rt, c)
      PROVE  UNCHANGED work
  BY <1>1 DEF Upsert
<1>2. ASSUME NEW i \in Inst, NEW d \in Desired, SetStateRead(i, d)
      PROVE  UNCHANGED work
  BY <1>2 DEF SetStateRead, shared
<1>3. CASE SetStateWrite BY <1>3 DEF SetStateWrite
<1>4. ASSUME NEW i \in Inst, HardDelete(i) \/ ContainerExit(i)
      PROVE  UNCHANGED work
  BY <1>4 DEF HardDelete, ContainerExit, shared
<1>5. CASE WorkerStep
  BY <1>5 DEF WorkerStep, WorkerWake, WorkerDrained, WorkerRead, WorkerParse,
     WorkerMark, WorkerFind, WorkerCreate, WorkerStart, WorkerWrite, WorkerUp,
     WorkerApplyFails, WorkerService, WorkerObserve, WorkerFresh, WorkerOnly,
     shared
<1>6. CASE PassTriggered \/ PassTick
  BY <1>6 DEF PassTriggered, PassTick, PassOnly
<1>7. CASE TeardownStepNext
  BY <1>7 DEF TeardownStepNext, TeardownContainer, TeardownFails,
     TeardownDropSecrets, TeardownDown, TeardownClean,
     TeardownDelete, PassOnly
<1>8. CASE PassStep
  BY <1>7, <1>8 DEF PassStep, PassList, PassObserve, PassObserveFails, PassKick,
     PassDefer, PassDown, PassCollect, PassOrphans, PassComposeOrphans, PassEnd,
     PassOnly
<1> QED BY <1>1, <1>2, <1>3, <1>4, <1>5, <1>6, <1>8 DEF Next

\* One step keeps the queue free of duplicates and in step with workPending.
LEMMA OneJobStep ==
    TypeInv /\ OneJobPerInstance /\ [Next]_vars => OneJobPerInstance'
<1> SUFFICES ASSUME TypeInv, OneJobPerInstance, [Next]_vars
             PROVE  OneJobPerInstance'
  OBVIOUS
<1>1. ASSUME NEW i \in Inst, PassEnqueue(i) PROVE OneJobPerInstance'
  <2>1. CASE Busy(i)
    BY <1>1, <2>1 DEF PassEnqueue, PassOnly, OneJobPerInstance
  <2>2. CASE ~Busy(i)
    <3> DEFINE job == [id |-> i, obs |-> pobs[i]]
    <3>1. /\ queue' = Append(queue, job) /\ pending' = pending \union {i}
          /\ active' = active
      BY <1>1, <2>2 DEF PassEnqueue, PassOnly
    <3>2. i \notin pending /\ active # i BY <2>2 DEF Busy
    <3>3. job \in Job /\ queue \in Seq(Job)
      BY DEF Job, TypeInv, TypeOK
    <3>4. /\ DOMAIN queue' = 1 .. Len(queue) + 1
          /\ DOMAIN queue = 1 .. Len(queue)
          /\ \A k \in 1 .. Len(queue) : queue'[k] = queue[k]
          /\ queue'[Len(queue) + 1].id = i
          /\ Len(queue) \in Nat
      BY <3>1, <3>3
    <3>5. \A k \in 1 .. Len(queue) : queue[k].id # i
      BY <3>2, <3>4 DEF OneJobPerInstance
    <3>6. pending' = {queue'[k].id : k \in DOMAIN queue'}
      BY <3>1, <3>4 DEF OneJobPerInstance
    <3>7. \A j, k \in DOMAIN queue' : j # k => queue'[j].id # queue'[k].id
      BY <3>4, <3>5 DEF OneJobPerInstance
    <3>8. active' \notin pending'
      BY <3>1, <3>2 DEF OneJobPerInstance
    <3> QED BY <3>6, <3>7, <3>8 DEF OneJobPerInstance
  <2> QED BY <2>1, <2>2
<1>2. CASE WorkerPop
  <2>1. /\ queue # <<>> /\ queue' = Tail(queue) /\ active' = Head(queue).id
        /\ pending' = pending \ {Head(queue).id}
    BY <1>2 DEF WorkerPop
  <2>2. queue \in Seq(Job) BY DEF TypeInv, TypeOK
  <2>3. /\ DOMAIN queue = 1 .. Len(queue) /\ Len(queue) \in Nat \ {0}
        /\ DOMAIN queue' = 1 .. Len(queue) - 1
        /\ \A k \in 1 .. Len(queue) - 1 : queue'[k] = queue[k + 1]
        /\ Head(queue) = queue[1]
    BY <2>1, <2>2
  <2>4. \A j, k \in DOMAIN queue' : j # k => queue'[j].id # queue'[k].id
    BY <2>3 DEF OneJobPerInstance
  <2>5. \A k \in DOMAIN queue' : queue'[k].id \in pending'
    BY <2>1, <2>3 DEF OneJobPerInstance
  <2>6. ASSUME NEW x \in pending' PROVE \E k \in DOMAIN queue' : queue'[k].id = x
    <3>1. PICK k \in DOMAIN queue : queue[k].id = x
      BY <2>1, <2>6 DEF OneJobPerInstance
    <3>2. k # 1 BY <2>1, <2>3, <2>6, <3>1
    <3>3. k - 1 \in DOMAIN queue' /\ queue'[k - 1] = queue[k]
      BY <2>3, <3>2
    <3> QED BY <3>1, <3>3
  <2>7. active' \notin pending' BY <2>1
  <2> QED BY <2>4, <2>5, <2>6, <2>7 DEF OneJobPerInstance
<1>3. CASE WorkerFinish
  <2>1. None \notin pending BY ConstantsAssumption DEF TypeInv, TypeOK
  <2> QED BY <1>3, <2>1 DEF WorkerFinish, OneJobPerInstance
<1>4. CASE Crash BY <1>4 DEF Crash, OneJobPerInstance
<1>5. CASE UNCHANGED work BY <1>5 DEF work, OneJobPerInstance
<1>6. CASE UNCHANGED vars
  BY <1>6 DEF vars, shared, OneJobPerInstance
<1> QED BY <1>1, <1>2, <1>3, <1>4, <1>5, <1>6, WorkFrame

\* enqueueApply and runApplyWorker never hold two jobs of one instance.
THEOREM OneJob == Spec => []OneJobPerInstance
<1>1. Init => OneJobPerInstance
  BY DEF Init, OneJobPerInstance
<1> QED BY <1>1, TypeInit, TypeStep, OneJobStep, PTL DEF Spec

\* The worker never sleeps on a queue whose kick was lost.
THEOREM KickIsKept == Spec => []NoLostKick
<1>1. Init => NoLostKick
  BY DEF Init, NoLostKick
<1>2. TypeInv /\ NoLostKick /\ [Next]_vars => NoLostKick'
  <2> SUFFICES ASSUME TypeInv, NoLostKick, [Next]_vars PROVE NoLostKick'
    OBVIOUS
  <2>1. CASE WorkerStep
    BY <2>1 DEF NoLostKick, WorkerStep, WorkerWake, WorkerDrained, WorkerPop,
       WorkerRead, WorkerParse, WorkerMark, WorkerFind, WorkerCreate, WorkerStart,
       WorkerWrite, WorkerUp, WorkerApplyFails, WorkerService, WorkerObserve,
       WorkerFresh, WorkerFinish, WorkerOnly, WorkerGoto, shared, pass
  <2>2. ASSUME NEW i \in Inst, PassEnqueue(i) PROVE NoLostKick'
    BY <2>2 DEF PassEnqueue, PassOnly, worker, NoLostKick
  <2>3. CASE PassKick
    BY <2>3 DEF PassKick, PassGoto, NoLostKick
  <2>4. CASE Crash
    BY <2>4 DEF Crash, NoLostKick
  <2>5. CASE TeardownStepNext
    BY <2>5 DEF NoLostKick, TeardownStepNext, TeardownContainer, TeardownFails,
       TeardownDropSecrets, TeardownDown, TeardownClean,
       TeardownDelete, TeardownGoto, PassOnly, worker
  <2>6. CASE \/ PassTriggered \/ PassTick \/ PassList \/ PassObserve
             \/ PassObserveFails \/ PassOrphans \/ PassComposeOrphans \/ PassEnd
             \/ \E i \in Inst : PassDefer(i) \/ PassDown(i) \/ PassCollect(i)
    BY <2>6 DEF NoLostKick, PassTriggered, PassTick, PassList, PassObserve,
       PassObserveFails, PassOrphans, PassComposeOrphans, PassEnd, PassDefer,
       PassDown, PassCollect, PassGoto, PassReturn, PassOnly, worker
  <2>7. CASE \/ \E i \in Inst, d \in Desired, rt \in Runtime, c \in Cfg : Upsert(i, d, rt, c)
             \/ \E i \in Inst, d \in Desired : SetStateRead(i, d)
             \/ SetStateWrite
             \/ \E i \in Inst : HardDelete(i) \/ ContainerExit(i)
    BY <2>7 DEF NoLostKick, Upsert, SetStateRead, SetStateWrite, HardDelete,
       ContainerExit, shared, worker, pass
  <2>8. CASE UNCHANGED vars
    BY <2>8 DEF vars, shared, worker, pass, NoLostKick
  <2> QED
    BY <2>1, <2>2, <2>3, <2>4, <2>5, <2>6, <2>7, <2>8 DEF Next, PassStep
<1> QED BY <1>1, <1>2, TypeInit, TypeStep, PTL DEF Spec

-----------------------------------------------------------------------------
(* Apply and Remove of an instance that nobody hard-deletes exclude each   *)
(* other, whatever happens to the other instances.                         *)

\* A read-modify-write in flight carries a desired state.
ReqInv == req # NoReq => req.desired \in Desired

\* Where a teardown can be, and that its instance is not visited again.
TeardownInv ==
    /\ rid # None => ppc \in {"each", "gcctr", "gccmp"} /\ rid \notin ptodo
    /\ rstep \in {"drop", "delete"} => ppc = "each"

\* What the pass still has to visit agrees with its snapshot, and before the
\* orphan collection also with the table: only this pass deletes the rows of
\* soft instances.
SnapshotInv ==
    /\ ppc = "observe" =>
          \A i \in Soft : pdes[i].desired # "absent" => Present(i)
    /\ ppc \in {"each", "kick"} =>
          \A i \in ptodo : /\ pdes[i].desired # "absent"
                           /\ i \in Soft => Present(i)
    /\ ppc \in {"gcctr", "gccmp"} => \A i \in ptodo : pdes[i].desired = "absent"

\* A soft instance that the worker holds has a row, also in the snapshot of a
\* running pass: it is no orphan.
BusyInv ==
    \A i \in Soft : Busy(i) =>
        /\ Present(i)
        /\ ppc \notin {"idle", "list"} => pdes[i].desired # "absent"

Exclusion == ReqInv /\ TeardownInv /\ SnapshotInv /\ BusyInv /\ NoApplyRemoveOverlap

\* The worker neither creates nor deletes rows and takes on no new instance.
LEMMA WorkerRows ==
    ASSUME TypeInv, OneJobPerInstance, WorkerStep
    PROVE  /\ UNCHANGED <<pass, req>>
           /\ \A i \in Inst : Present(i)' = Present(i)
           /\ \A i \in Inst : Busy(i)' => Busy(i)
<1>1. UNCHANGED <<pass, req>>
  BY DEF WorkerStep, WorkerWake, WorkerDrained, WorkerPop, WorkerRead, WorkerParse,
     WorkerMark, WorkerFind, WorkerCreate, WorkerStart, WorkerWrite, WorkerUp,
     WorkerApplyFails, WorkerService, WorkerObserve, WorkerFresh, WorkerFinish,
     WorkerOnly
<1>2. ASSUME NEW i, NEW s, SetObserved(i, s)
      PROVE  \A j \in Inst : Present(j)' = Present(j)
  BY <1>2 DEF SetObserved, Present, TypeInv, TypeOK, Row
<1>3. \/ row' = row
      \/ row' = [row EXCEPT ![active].svc = TRUE]
      \/ SetObserved(active, "error") \/ SetObserved(active, "installing")
      \/ SetObserved(active, Reported)
  BY DEF WorkerStep, WorkerWake, WorkerDrained, WorkerPop, WorkerRead, WorkerParse,
     WorkerMark, WorkerFind, WorkerCreate, WorkerStart, WorkerWrite, WorkerUp,
     WorkerApplyFails, WorkerService, WorkerObserve, WorkerFresh, WorkerFinish,
     durable
<1>4. row' = [row EXCEPT ![active].svc = TRUE]
        => \A j \in Inst : Present(j)' = Present(j)
  BY DEF Present, TypeInv, TypeOK, Row
<1>5. \A i \in Inst : Present(i)' = Present(i)
  BY <1>2, <1>3, <1>4 DEF Present
<1>6. \A i \in Inst : Busy(i)' => Busy(i)
  <2>1. CASE WorkerPop
    <3>1. Head(queue).id \in pending
      BY <2>1 DEF WorkerPop, OneJobPerInstance, TypeInv, TypeOK
    <3> QED BY <2>1, <3>1 DEF WorkerPop, Busy
  <2>2. CASE WorkerFinish
    BY <2>2, ConstantsAssumption DEF WorkerFinish, Busy
  <2>3. CASE ~WorkerPop /\ ~WorkerFinish
    <3>1. UNCHANGED <<pending, active>>
      BY <2>3 DEF WorkerStep, WorkerWake, WorkerDrained, WorkerRead, WorkerParse,
         WorkerMark, WorkerFind, WorkerCreate, WorkerStart, WorkerWrite, WorkerUp,
         WorkerApplyFails, WorkerService, WorkerObserve, WorkerFresh, WorkerOnly,
         shared
    <3> QED BY <3>1 DEF Busy
  <2> QED BY <2>1, <2>2, <2>3
<1> QED BY <1>1, <1>5, <1>6

\* A request deletes no row of a soft instance and does not touch the queue.
LEMMA RequestRows ==
    ASSUME TypeInv, ReqInv,
           \/ \E i \in Inst, d \in Desired, rt \in Runtime, c \in Cfg : Upsert(i, d, rt, c)
           \/ \E i \in Inst, d \in Desired : SetStateRead(i, d)
           \/ SetStateWrite
           \/ \E i \in Inst : HardDelete(i) \/ ContainerExit(i)
    PROVE  /\ UNCHANGED <<pass, work>>
           /\ \A i \in Soft : Present(i) => Present(i)'
<1> USE DEF Soft, TypeInv, TypeOK, work, shared, durable
<1>0. ASSUME NEW i, NEW d \in Desired, NEW rt, NEW c, row' = Written(i, d, rt, c)
      PROVE  \A j \in Soft : Present(j) => Present(j)'
  <2>1. \A j \in Inst : j # i => row'[j] = row[j] BY <1>0 DEF Written
  <2>2. i \in Inst => row'[i].desired = d BY <1>0 DEF Written, Row
  <2> QED BY <2>1, <2>2 DEF Present, Desired
<1>1. ASSUME NEW i \in Inst, NEW d \in Desired, NEW rt \in Runtime, NEW c \in Cfg,
             Upsert(i, d, rt, c)
      PROVE  /\ UNCHANGED <<pass, work>>
             /\ \A j \in Soft : Present(j) => Present(j)'
  BY <1>0, <1>1 DEF Upsert
<1>2. ASSUME NEW i \in Inst, NEW d \in Desired, SetStateRead(i, d)
      PROVE  /\ UNCHANGED <<pass, work>>
             /\ \A j \in Soft : Present(j) => Present(j)'
  BY <1>2 DEF SetStateRead, Present
<1>3. CASE SetStateWrite
  BY <1>0, <1>3 DEF SetStateWrite, ReqInv
<1>4. ASSUME NEW i \in Inst, HardDelete(i) \/ ContainerExit(i)
      PROVE  /\ UNCHANGED <<pass, work>>
             /\ \A j \in Soft : Present(j) => Present(j)'
  BY <1>4 DEF HardDelete, ContainerExit, Present
<1> QED BY <1>1, <1>2, <1>3, <1>4

\* Every step keeps the exclusion.
LEMMA ExclusionStep ==
    ASSUME TypeInv, OneJobPerInstance, Exclusion, [Next]_vars
    PROVE  Exclusion'
<1> USE DEF Exclusion, Soft
<1>0. None \notin Inst BY ConstantsAssumption
<1>1. CASE WorkerStep
  <2>1. /\ UNCHANGED <<ppc, pdes, pobs, ptodo, rid, rstep, req>>
        /\ \A i \in Inst : Present(i)' = Present(i)
        /\ \A i \in Inst : Busy(i)' => Busy(i)
    BY <1>1, WorkerRows DEF pass
  <2>2. ReqInv' /\ TeardownInv' BY <2>1 DEF ReqInv, TeardownInv
  <2>3. SnapshotInv' BY <2>1 DEF SnapshotInv, TypeInv, TypeOK
  <2>4. BusyInv' BY <2>1 DEF BusyInv
  <2>5. NoApplyRemoveOverlap'
    BY <2>1 DEF NoApplyRemoveOverlap, Busy, TypeInv, TypeOK
  <2> QED BY <2>2, <2>3, <2>4, <2>5
<1>2. CASE \/ \E i \in Inst, d \in Desired, rt \in Runtime, c \in Cfg : Upsert(i, d, rt, c)
           \/ \E i \in Inst, d \in Desired : SetStateRead(i, d)
           \/ SetStateWrite
           \/ \E i \in Inst : HardDelete(i) \/ ContainerExit(i)
  <2>1. /\ UNCHANGED <<ppc, pdes, pobs, ptodo, rid, rstep, pending, active>>
        /\ \A i \in Soft : Present(i) => Present(i)'
    BY <1>2, RequestRows DEF pass, work
  <2>2. ReqInv'
    BY <1>2 DEF ReqInv, Upsert, SetStateRead, SetStateWrite, HardDelete,
       ContainerExit, NoReq
  <2>3. TeardownInv' /\ NoApplyRemoveOverlap'
    BY <2>1 DEF TeardownInv, NoApplyRemoveOverlap, Busy
  <2>4. SnapshotInv' BY <2>1 DEF SnapshotInv, TypeInv, TypeOK
  <2>5. BusyInv' BY <2>1 DEF BusyInv, Busy
  <2> QED BY <2>2, <2>3, <2>4, <2>5
<1> USE DEF ReqInv, TeardownInv, SnapshotInv, BusyInv, NoApplyRemoveOverlap, Busy,
            Present, PassOnly
<1>3. CASE PassTriggered \/ PassTick
  BY <1>3 DEF PassTriggered, PassTick, PassGoto, durable
<1>4. CASE PassList BY <1>4 DEF PassList, durable
<1>5. CASE PassObserve BY <1>5 DEF PassObserve, durable
<1>6. CASE PassObserveFails
  BY <1>6 DEF PassObserveFails, PassReturn, durable
<1>7. CASE PassKick BY <1>7 DEF PassKick, PassGoto, durable
<1>8. ASSUME NEW i \in Inst, PassEnqueue(i) PROVE Exclusion'
  <2>1. /\ ppc = "each" /\ rid = None /\ i \in ptodo /\ ptodo' = ptodo \ {i}
        /\ UNCHANGED <<row, pdes, rid, rstep, active, req>>
        /\ \/ UNCHANGED <<pending, ppc>>
           \/ pending' = pending \union {i} /\ ppc' = "kick"
    BY <1>8 DEF PassEnqueue, durable
  <2>2. pdes[i].desired # "absent" /\ (i \in Soft => Present(i)) BY <2>1
  <2>3. ReqInv' /\ TeardownInv' /\ NoApplyRemoveOverlap' /\ SnapshotInv'
    BY <1>0, <2>1 DEF TypeInv, PcInv
  <2>4. BusyInv' BY <2>1, <2>2
  <2> QED BY <2>3, <2>4
<1>9. ASSUME NEW i \in Inst, PassDefer(i) PROVE Exclusion'
  BY <1>9 DEF PassDefer, durable
<1>10. ASSUME NEW i \in Inst, PassDown(i) PROVE Exclusion'
  BY <1>10 DEF PassDown, durable
<1>11. ASSUME NEW i \in Inst, PassCollect(i) PROVE Exclusion'
  BY <1>11 DEF PassCollect, durable
<1>12. CASE PassOrphans
  <2>1. /\ ppc = "each" /\ ppc' = "gcctr" /\ rid = None
        /\ UNCHANGED <<row, pdes, rid, rstep, pending, active, req>>
        /\ \A i \in ptodo' : pdes[i].desired = "absent"
    BY <1>12 DEF PassOrphans, durable
  <2>2. ReqInv' /\ TeardownInv' /\ NoApplyRemoveOverlap' /\ SnapshotInv'
    BY <1>12, <2>1 DEF TypeInv, PcInv
  <2>3. BusyInv' BY <2>1
  <2> QED BY <2>2, <2>3
<1>13. CASE PassComposeOrphans BY <1>13 DEF PassComposeOrphans, durable
<1>14. CASE PassEnd BY <1>14 DEF PassEnd, PassReturn, durable
<1>15. CASE TeardownDelete
  <2>1. /\ rid \in Inst /\ ppc = "each" /\ rid \notin ptodo
        /\ rid \in Soft => ~Busy(rid)
    BY <1>15 DEF TeardownDelete, TypeInv, TypeOK, PcInv
  <2>2. /\ \A j \in Inst \ {rid} : row'[j] = row[j]
        /\ UNCHANGED <<ppc, pdes, ptodo, pending, active, req>>
        /\ rid' = None /\ rstep' = "none"
    BY <1>15 DEF TeardownDelete, TeardownGoto, TypeInv, TypeOK
  <2> QED BY <1>0, <2>1, <2>2 DEF TypeInv, TypeOK
<1>16. CASE \/ TeardownContainer \/ TeardownFails \/ TeardownDropSecrets
            \/ TeardownDown \/ TeardownClean
  <2>1. /\ UNCHANGED <<row, ppc, pdes, ptodo, pending, active, req>>
        /\ rid' \in {rid, None}
        /\ rstep' \in {"drop", "delete"} => ppc = "each"
    BY <1>16 DEF TeardownContainer, TeardownFails, TeardownDropSecrets,
       TeardownDown, TeardownClean, TeardownGoto, Forgets,
       durable
  <2> QED BY <1>0, <2>1
<1>17. CASE Crash BY <1>0, <1>17 DEF Crash
<1>18. CASE UNCHANGED vars
  BY <1>18 DEF vars, durable, shared, pass
<1> QED
  BY <1>1, <1>2, <1>3, <1>4, <1>5, <1>6, <1>7, <1>8, <1>9, <1>10, <1>11, <1>12,
     <1>13, <1>14, <1>15, <1>16, <1>17, <1>18
  DEF Next, PassStep, TeardownStepNext

\* "Apply and Remove can never run concurrently for one instance" (loop.go) is
\* true of every instance that is not hard-deleted, whatever else is.
THEOREM ApplyRemoveExclusion == Spec => []NoApplyRemoveOverlap
<1>1. Init => OneJobPerInstance /\ Exclusion
  BY ConstantsAssumption
  DEF Init, OneJobPerInstance, Exclusion, ReqInv, TeardownInv, SnapshotInv,
      BusyInv, NoApplyRemoveOverlap, Busy, Soft
<1>2. TypeInv /\ OneJobPerInstance /\ Exclusion /\ [Next]_vars => Exclusion'
  BY ExclusionStep
<1>3. Exclusion => NoApplyRemoveOverlap
  BY DEF Exclusion
<1> QED BY <1>1, <1>2, <1>3, TypeInit, TypeStep, OneJobStep, PTL DEF Spec

-----------------------------------------------------------------------------
(* What is applied is a configuration.                                     *)

\* Rows, requests in flight and the row the worker applies have one.
ConfigInv ==
    /\ \A i \in Inst : Present(i) => row[i].cfg \in Cfg
    /\ req # NoReq => req.cfg \in Cfg
    /\ wpc \in Applying => wrow.cfg \in Cfg

\* Every step keeps that.
LEMMA ConfigStep ==
    ASSUME TypeInv, OneJobPerInstance, ConfigInv, [Next]_vars
    PROVE  ConfigInv'
<1>0. ASSUME NEW i, NEW d, NEW rt, NEW c \in Cfg, row' = Written(i, d, rt, c)
      PROVE  \A j \in Inst : Present(j)' => row'[j].cfg \in Cfg
  <2>1. \A j \in Inst : j # i => row'[j] = row[j]
    BY <1>0 DEF Written, TypeInv, TypeOK
  <2>2. i \in Inst => row'[i].cfg = c
    BY <1>0 DEF Written, TypeInv, TypeOK, Row
  <2> QED BY <2>1, <2>2 DEF Present, ConfigInv
<1>1. CASE WorkerStep
  <2>1. ASSUME NEW i, NEW s, SetObserved(i, s)
        PROVE  \A j \in Inst : row'[j].cfg = row[j].cfg
    BY <2>1 DEF SetObserved, TypeInv, TypeOK, Row
  <2>2. row' = [row EXCEPT ![active].svc = TRUE]
          => \A j \in Inst : row'[j].cfg = row[j].cfg
    BY DEF TypeInv, TypeOK, Row
  <2>3. \/ row' = row
        \/ row' = [row EXCEPT ![active].svc = TRUE]
        \/ SetObserved(active, "error") \/ SetObserved(active, "installing")
        \/ SetObserved(active, Reported)
    BY <1>1 DEF WorkerStep, WorkerWake, WorkerDrained, WorkerPop, WorkerRead,
       WorkerParse, WorkerMark, WorkerFind, WorkerCreate, WorkerStart, WorkerWrite,
       WorkerUp, WorkerApplyFails, WorkerService, WorkerObserve, WorkerFresh,
       WorkerFinish, durable
  <2>4. \A j \in Inst : row'[j].cfg = row[j].cfg BY <2>1, <2>2, <2>3
  <2>5. UNCHANGED req /\ \A i \in Inst : Present(i)' = Present(i)
    BY <1>1, WorkerRows
  <2>6. wpc' \in Applying => wrow'.cfg \in Cfg
    <3>1. CASE WorkerRead
      <4>1. active \in Inst
        BY <3>1 DEF WorkerRead, TypeInv, TypeOK, PcInv
      <4> QED BY <3>1, <4>1 DEF WorkerRead, WorkerGoto, ConfigInv, Applying, Present
    <3>2. CASE ~WorkerRead
      BY <1>1, <3>2 DEF ConfigInv, Applying, WorkerStep, WorkerWake, WorkerDrained,
         WorkerPop, WorkerParse, WorkerMark, WorkerFind, WorkerCreate, WorkerStart,
         WorkerWrite, WorkerUp, WorkerApplyFails, WorkerService, WorkerObserve,
         WorkerFresh, WorkerFinish, WorkerGoto
    <3> QED BY <3>1, <3>2
  <2> QED BY <2>4, <2>5, <2>6 DEF ConfigInv
<1>2. ASSUME NEW i \in Inst, NEW d \in Desired, NEW rt \in Runtime, NEW c \in Cfg,
             Upsert(i, d, rt, c)
      PROVE  ConfigInv'
  BY <1>0, <1>2 DEF Upsert, ConfigInv, worker
<1>3. ASSUME NEW i \in Inst, NEW d \in Desired, SetStateRead(i, d)
      PROVE  ConfigInv'
  BY <1>3 DEF SetStateRead, ConfigInv, worker, durable, Present
<1>4. CASE SetStateWrite
  BY <1>0, <1>4 DEF SetStateWrite, ConfigInv, worker
<1>5. ASSUME NEW i \in Inst, row' = [row EXCEPT ![i] = NoRow],
             UNCHANGED <<wpc, wrow, req>>
      PROVE  ConfigInv'
  BY <1>5 DEF ConfigInv, Present, NoRow, TypeInv, TypeOK
<1>6. ASSUME NEW i \in Inst, HardDelete(i) PROVE ConfigInv'
  BY <1>5, <1>6 DEF HardDelete, worker
<1>7. CASE TeardownDelete
  <2>1. rid \in Inst BY <1>7 DEF TeardownDelete, TypeInv, TypeOK, PcInv
  <2> QED BY <1>5, <1>7, <2>1 DEF TeardownDelete, PassOnly, worker
<1>8. ASSUME UNCHANGED <<row, wpc, wrow, req>> PROVE ConfigInv'
  BY <1>8 DEF ConfigInv, Present
<1>9. ASSUME NEW i \in Inst, ContainerExit(i) PROVE ConfigInv'
  BY <1>8, <1>9 DEF ContainerExit, worker
<1>10. CASE TeardownStepNext /\ ~TeardownDelete
  BY <1>8, <1>10 DEF TeardownStepNext, TeardownContainer, TeardownFails,
     TeardownDropSecrets, TeardownDown, TeardownClean, PassOnly,
     worker, durable
<1>11. CASE (PassStep \/ PassTriggered \/ PassTick) /\ ~TeardownStepNext
  BY <1>8, <1>11 DEF PassStep, PassTriggered, PassTick, PassList, PassObserve,
     PassObserveFails, PassKick, PassEnqueue, PassDefer, PassDown, PassCollect,
     PassOrphans, PassComposeOrphans, PassEnd, PassOnly, worker, durable
<1>12. CASE Crash BY <1>12 DEF Crash, durable, ConfigInv, Applying, Present
<1>13. CASE UNCHANGED vars BY <1>8, <1>13 DEF vars, durable, worker
<1> QED
  BY <1>1, <1>2, <1>3, <1>4, <1>6, <1>7, <1>9, <1>10, <1>11, <1>12, <1>13
  DEF Next, PassStep, TeardownStepNext

-----------------------------------------------------------------------------
(* "installed" is only written over what the worker's own apply brought up. *)

\* The worker's steps touch the Docker objects and the template secrets of the
\* instance it applies, and of no other.
LEMMA WorkerTouches ==
    ASSUME TypeInv, WorkerStep, NEW j \in Inst, j # active
    PROVE  ctr'[j] = ctr[j] /\ proj'[j] = proj[j] /\ (j \in tsec' <=> j \in tsec)
BY DEF WorkerStep, WorkerWake, WorkerDrained, WorkerPop, WorkerRead, WorkerParse,
       WorkerMark, WorkerFind, WorkerCreate, WorkerStart, WorkerWrite, WorkerUp,
       WorkerApplyFails, WorkerService, WorkerObserve, WorkerFresh, WorkerFinish,
       durable, TypeInv, TypeOK

\* The pass's steps touch those of the instance it tears down, and nothing of
\* the worker's.
LEMMA PassTouches ==
    ASSUME TypeInv, PassStep \/ PassTriggered \/ PassTick
    PROVE  /\ UNCHANGED <<active, wpc, wrow, wobs, req>>
           /\ \A j \in Inst : j # rid =>
                 /\ ctr'[j] = ctr[j] /\ proj'[j] = proj[j] /\ row'[j] = row[j]
                 /\ j \in tsec' <=> j \in tsec
<1>1. CASE TeardownStepNext
  BY <1>1 DEF TeardownStepNext, TeardownContainer, TeardownFails, TeardownDropSecrets,
     TeardownDown, TeardownClean, TeardownDelete, PassOnly, worker, durable, TypeInv,
     TypeOK
<1>2. CASE ~TeardownStepNext
  BY <1>2 DEF PassStep, PassTriggered, PassTick, PassList, PassObserve,
     PassObserveFails, PassKick, PassEnqueue, PassDefer, PassDown, PassCollect,
     PassOrphans, PassComposeOrphans, PassEnd, PassOnly, worker, durable
<1> QED BY <1>1, <1>2

\* The instance the worker applies is up with the configuration it applies.
Earned ==
    \/ wrow.runtime = "container" /\ ctr[active].cfg = wrow.cfg
    \/ wrow.runtime = "compose" /\ proj[active].up = wrow.cfg

\* Each step of an apply finds what the step before it left, and what it left
\* of a soft instance in Docker.
EarnedInv ==
    /\ wpc = "mark" => wrow.runtime \in Runtime
    /\ wpc \in {"find", "create", "start"} => wrow.runtime = "container"
    /\ wpc \in {"write", "up"} => wrow.runtime = "compose"
    /\ wpc = "start" /\ active \in Soft => ctr[active].cfg = wrow.cfg
    /\ wpc = "up" /\ active \in Soft => proj[active].ws = wrow.cfg
    /\ wpc \in {"svc", "obs"} /\ active \in Soft => Earned

\* Every step keeps that, since no teardown overlaps an apply.
LEMMA EarnedStep ==
    ASSUME TypeInv, NoApplyRemoveOverlap, EarnedInv, [Next]_vars
    PROVE  EarnedInv'
<1>1. ASSUME UNCHANGED <<active, wpc, wrow>>,
             active \in Soft => ctr'[active].cfg = ctr[active].cfg
                                /\ proj'[active] = proj[active]
      PROVE  EarnedInv'
  BY <1>1 DEF EarnedInv, Earned
<1>2. CASE WorkerStep
  <2>1. ASSUME wpc' \in {"idle", "drain", "read", "parse", "fresh", "finish"}
        PROVE  EarnedInv'
    BY <2>1 DEF EarnedInv
  <2>2. CASE \/ WorkerWake \/ WorkerDrained \/ WorkerPop \/ WorkerRead
             \/ WorkerApplyFails \/ WorkerObserve \/ WorkerFresh \/ WorkerFinish
    BY <2>1, <2>2 DEF WorkerWake, WorkerDrained, WorkerPop, WorkerRead,
       WorkerApplyFails, WorkerObserve, WorkerFresh, WorkerFinish, WorkerGoto
  <2>3. CASE WorkerParse
    BY <2>3 DEF WorkerParse, WorkerGoto, EarnedInv, Runtime
  <2>4. CASE WorkerMark
    BY <2>4 DEF WorkerMark, WorkerGoto, EarnedInv, Runtime
  <2>5. CASE WorkerFind
    BY <2>5 DEF WorkerFind, WorkerGoto, WorkerOnly, EarnedInv, Earned
  <2>6. CASE WorkerCreate
    <3>1. active \in Inst BY <2>6 DEF WorkerCreate, TypeInv, TypeOK, PcInv
    <3>2. ctr'[active].cfg = wrow.cfg
      BY <2>6, <3>1 DEF WorkerCreate, TypeInv, TypeOK
    <3> QED BY <2>6, <3>2 DEF WorkerCreate, WorkerGoto, WorkerOnly, EarnedInv
  <2>7. CASE WorkerStart
    <3>1. active \in Inst BY <2>7 DEF WorkerStart, TypeInv, TypeOK, PcInv
    <3>2. ctr'[active].cfg = ctr[active].cfg
      BY <2>7, <3>1 DEF WorkerStart, TypeInv, TypeOK, Container
    <3> QED BY <2>7, <3>2 DEF WorkerStart, WorkerGoto, WorkerOnly, EarnedInv, Earned
  <2>8. CASE WorkerWrite
    <3>1. active \in Inst BY <2>8 DEF WorkerWrite, TypeInv, TypeOK, PcInv
    <3>2. proj'[active].ws = wrow.cfg
      BY <2>8, <3>1 DEF WorkerWrite, TypeInv, TypeOK, Project
    <3> QED BY <2>8, <3>2 DEF WorkerWrite, WorkerGoto, WorkerOnly, EarnedInv
  <2>9. CASE WorkerUp
    <3>1. active \in Inst BY <2>9 DEF WorkerUp, TypeInv, TypeOK, PcInv
    <3>2. proj[active].ws # NoCfg => proj'[active].up = proj[active].ws
      BY <2>9, <3>1 DEF WorkerUp, TypeInv, TypeOK, Project
    <3> QED BY <2>9, <3>2 DEF WorkerUp, WorkerGoto, WorkerOnly, EarnedInv, Earned
  <2>10. CASE WorkerService
    BY <2>10 DEF WorkerService, WorkerGoto, WorkerOnly, EarnedInv, Earned
  <2> QED
    BY <1>2, <2>2, <2>3, <2>4, <2>5, <2>6, <2>7, <2>8, <2>9, <2>10 DEF WorkerStep
<1>3. CASE PassStep \/ PassTriggered \/ PassTick
  <2>1. active \in Soft => active \in Inst /\ active # rid
    BY DEF NoApplyRemoveOverlap, Busy, Soft
  <2> QED BY <1>1, <1>3, <2>1, PassTouches
<1>4. ASSUME NEW i \in Inst, ContainerExit(i) PROVE EarnedInv'
  <2>1. \A j \in Inst : ctr'[j].cfg = ctr[j].cfg
    BY <1>4 DEF ContainerExit, TypeInv, TypeOK, Container
  <2> QED BY <1>1, <1>4, <2>1 DEF ContainerExit, shared, worker, Soft
<1>5. CASE \/ \E i \in Inst, d \in Desired, rt \in Runtime, c \in Cfg : Upsert(i, d, rt, c)
           \/ \E i \in Inst, d \in Desired : SetStateRead(i, d)
           \/ SetStateWrite
           \/ \E i \in Inst : HardDelete(i)
           \/ UNCHANGED vars
  BY <1>1, <1>5 DEF Upsert, SetStateRead, SetStateWrite, HardDelete, vars, durable,
     shared, worker
<1>6. CASE Crash BY <1>6 DEF Crash, EarnedInv
<1> QED BY <1>2, <1>3, <1>4, <1>5, <1>6 DEF Next

\* Only WorkerObserve writes "installed".
LEMMA WhoReports ==
    ASSUME TypeInv, Next, NEW i \in Inst, row[i].obs # "installed",
           row'[i].obs = "installed"
    PROVE  WorkerObserve /\ i = active
<1>1. ASSUME NEW k, NEW d, NEW rt, NEW c, row' = Written(k, d, rt, c) PROVE FALSE
  BY <1>1 DEF Written, TypeInv, TypeOK, Row
<1>2. ASSUME NEW k, row' = [row EXCEPT ![k] = NoRow] PROVE FALSE
  BY <1>2 DEF NoRow, TypeInv, TypeOK
<1>3. row' # row
  OBVIOUS
<1>4. ASSUME NEW k, NEW s, SetObserved(k, s) PROVE s = "installed" /\ i = k
  BY <1>4 DEF SetObserved, TypeInv, TypeOK, Row
<1>5. row' # [row EXCEPT ![active].svc = TRUE]
  BY DEF TypeInv, TypeOK, Row
<1>6. CASE WorkerStep
  <2>1. CASE WorkerObserve BY <1>4, <2>1 DEF WorkerObserve
  <2>2. CASE ~WorkerObserve
    <3>1. SetObserved(active, "error") \/ SetObserved(active, "installing")
      BY <1>3, <1>5, <1>6, <2>2
         DEF WorkerStep, WorkerWake, WorkerDrained, WorkerPop, WorkerRead,
             WorkerParse, WorkerMark, WorkerFind, WorkerCreate, WorkerStart,
             WorkerWrite, WorkerUp, WorkerApplyFails, WorkerService, WorkerFresh,
             WorkerFinish, durable
    <3> QED BY <1>4, <3>1
  <2> QED BY <2>1, <2>2
<1>7. CASE PassStep \/ PassTriggered \/ PassTick
  <2>1. CASE TeardownDelete BY <1>2, <2>1 DEF TeardownDelete
  <2>2. CASE ~TeardownDelete
    BY <1>3, <1>7, <2>2
       DEF PassStep, PassTriggered, PassTick, PassList, PassObserve, PassObserveFails,
           PassKick, PassEnqueue, PassDefer, PassDown, PassCollect, PassOrphans,
           PassComposeOrphans, PassEnd, TeardownStepNext, TeardownContainer,
           TeardownFails, TeardownDropSecrets, TeardownDown, TeardownClean, durable
  <2> QED BY <2>1, <2>2
<1>8. ASSUME NEW k \in Inst, NEW d \in Desired, NEW rt \in Runtime, NEW c \in Cfg,
             Upsert(k, d, rt, c)
      PROVE  FALSE
  BY <1>1, <1>8 DEF Upsert
<1>9. CASE SetStateWrite BY <1>1, <1>9 DEF SetStateWrite
<1>10. ASSUME NEW k \in Inst, HardDelete(k) PROVE FALSE
  BY <1>2, <1>10 DEF HardDelete
<1>11. CASE Crash \/ \E k \in Inst : ContainerExit(k)
                  \/ \E k2 \in Inst, d \in Desired : SetStateRead(k2, d)
  BY <1>3, <1>11 DEF Crash, ContainerExit, SetStateRead, durable
<1> QED BY <1>6, <1>7, <1>8, <1>9, <1>10, <1>11 DEF Next

\* applyContainer and applyCompose report "installed" only over the container or
\* project of the very configuration they applied, if nobody hard-deletes it.
THEOREM InstalledMeansApplied == Spec => InstalledIsEarned
<1> DEFINE Earn ==
       \A i \in Soft : row[i].obs # "installed" /\ row'[i].obs = "installed" =>
            \/ wrow.runtime = "container" /\ ctr[i].cfg = wrow.cfg
            \/ wrow.runtime = "compose" /\ proj[i].up = wrow.cfg
<1>1. Init => EarnedInv BY DEF Init, EarnedInv
<1>2. TypeInv /\ NoApplyRemoveOverlap /\ EarnedInv /\ [Next]_vars => EarnedInv'
  BY EarnedStep
<1>3. TypeInv /\ EarnedInv /\ [Next]_vars => [Earn]_vars
  <2> SUFFICES ASSUME TypeInv, EarnedInv, Next, NEW i \in Soft,
                      row[i].obs # "installed", row'[i].obs = "installed"
               PROVE  \/ wrow.runtime = "container" /\ ctr[i].cfg = wrow.cfg
                      \/ wrow.runtime = "compose" /\ proj[i].up = wrow.cfg
    OBVIOUS
  <2>1. WorkerObserve /\ i = active BY WhoReports DEF Soft
  <2> QED BY <2>1 DEF WorkerObserve, EarnedInv, Earned
<1>4. Spec => []NoApplyRemoveOverlap
  BY ApplyRemoveExclusion
<1> QED
  BY <1>1, <1>2, <1>3, <1>4, TypeInit, TypeStep, PTL DEF Spec, InstalledIsEarned

-----------------------------------------------------------------------------
(* The row goes last.                                                      *)

\* Rows, their copies and the teardown agree with the instance's runtime.
KindInv ==
    /\ \A i \in Inst : Present(i) => row[i].runtime \in RuntimesOf[i]
    /\ req # NoReq => req.id \in Inst /\ req.runtime \in RuntimesOf[req.id]
    /\ wpc \in Applying => wrow.runtime \in RuntimesOf[active]
    /\ \A i \in Inst : pdes[i].desired # "absent" => pdes[i].runtime \in RuntimesOf[i]
    /\ ppc = "each" /\ rstep \in {"ctr", "drop"} => "container" \in RuntimesOf[rid]
    /\ ppc = "each" /\ rstep \in {"down", "clean"} => "compose" \in RuntimesOf[rid]

\* Every step keeps that.
LEMMA KindStep ==
    ASSUME TypeInv, TeardownInv, KindInv, [Next]_vars
    PROVE  KindInv'
<1> DEFINE Rows == \A i \in Inst : Present(i) => row[i].runtime \in RuntimesOf[i]
           Torn == /\ ppc = "each" /\ rstep \in {"ctr", "drop"}
                        => "container" \in RuntimesOf[rid]
                   /\ ppc = "each" /\ rstep \in {"down", "clean"}
                        => "compose" \in RuntimesOf[rid]
<1>0. ASSUME NEW i \in Inst, NEW d, NEW rt \in RuntimesOf[i], NEW c,
             row' = Written(i, d, rt, c)
      PROVE  Rows'
  <2>1. \A j \in Inst : j # i => row'[j] = row[j]
    BY <1>0 DEF Written, TypeInv, TypeOK
  <2>2. row'[i].runtime = rt
    BY <1>0 DEF Written, TypeInv, TypeOK, Row
  <2> QED BY <2>1, <2>2 DEF Present, KindInv
<1>1. ASSUME NEW i \in Inst, row' = [row EXCEPT ![i] = NoRow] PROVE Rows'
  BY <1>1 DEF KindInv, Present, NoRow, TypeInv, TypeOK
<1>2. CASE WorkerStep
  <2>1. ASSUME NEW i, NEW s, SetObserved(i, s) PROVE Rows'
    BY <2>1 DEF SetObserved, Present, KindInv, TypeInv, TypeOK, Row
  <2>2. row' = [row EXCEPT ![active].svc = TRUE] => Rows'
    BY DEF Present, KindInv, TypeInv, TypeOK, Row
  <2>3. \/ row' = row
        \/ row' = [row EXCEPT ![active].svc = TRUE]
        \/ SetObserved(active, "error") \/ SetObserved(active, "installing")
        \/ SetObserved(active, Reported)
    BY <1>2 DEF WorkerStep, WorkerWake, WorkerDrained, WorkerPop, WorkerRead,
       WorkerParse, WorkerMark, WorkerFind, WorkerCreate, WorkerStart, WorkerWrite,
       WorkerUp, WorkerApplyFails, WorkerService, WorkerObserve, WorkerFresh,
       WorkerFinish, durable
  <2>4. Rows' BY <2>1, <2>2, <2>3 DEF KindInv, Present
  <2>5. UNCHANGED <<pass, req>>
    BY <1>2 DEF WorkerStep, WorkerWake, WorkerDrained, WorkerPop, WorkerRead,
       WorkerParse, WorkerMark, WorkerFind, WorkerCreate, WorkerStart, WorkerWrite,
       WorkerUp, WorkerApplyFails, WorkerService, WorkerObserve, WorkerFresh,
       WorkerFinish, WorkerOnly
  <2>6. wpc' \in Applying => wrow'.runtime \in RuntimesOf[active']
    <3>1. CASE WorkerRead
      <4>1. active \in Inst BY <3>1 DEF WorkerRead, TypeInv, TypeOK, PcInv
      <4> QED
        BY <3>1, <4>1
        DEF WorkerRead, WorkerGoto, WorkerOnly, KindInv, Applying, Present
    <3>2. CASE ~WorkerRead
      BY <1>2, <3>2 DEF KindInv, Applying, WorkerStep, WorkerWake, WorkerDrained,
         WorkerPop, WorkerParse, WorkerMark, WorkerFind, WorkerCreate, WorkerStart,
         WorkerWrite, WorkerUp, WorkerApplyFails, WorkerService, WorkerObserve,
         WorkerFresh, WorkerFinish, WorkerGoto, WorkerOnly
    <3> QED BY <3>1, <3>2
  <2> QED BY <2>4, <2>5, <2>6 DEF KindInv, pass
<1>3. ASSUME Rows', UNCHANGED <<req, wpc, wrow, active, pass>> PROVE KindInv'
  BY <1>3 DEF KindInv, pass
<1>4. ASSUME NEW i \in Inst, NEW d \in Desired, NEW rt \in Runtime, NEW c \in Cfg,
             Upsert(i, d, rt, c)
      PROVE  KindInv'
  BY <1>0, <1>3, <1>4 DEF Upsert, worker
<1>5. ASSUME NEW i \in Inst, NEW d \in Desired, SetStateRead(i, d) PROVE KindInv'
  BY <1>5 DEF SetStateRead, KindInv, Present, durable, shared, worker, pass
<1>6. CASE SetStateWrite
  <2>1. Rows' BY <1>0, <1>6 DEF SetStateWrite, KindInv
  <2> QED BY <1>6, <2>1 DEF SetStateWrite, KindInv, worker, pass
<1>7. ASSUME NEW i \in Inst, HardDelete(i) PROVE KindInv'
  BY <1>1, <1>3, <1>7 DEF HardDelete, worker
<1>8. CASE UNCHANGED vars \/ \E i \in Inst : ContainerExit(i)
  BY <1>3, <1>8 DEF ContainerExit, vars, durable, shared, worker, KindInv, Present
<1>9. CASE PassStep \/ PassTriggered \/ PassTick
  <2>1. Rows'
    <3>1. CASE TeardownDelete
      <4>1. rid \in Inst BY <3>1 DEF TeardownDelete, TypeInv, TypeOK, PcInv
      <4> QED BY <1>1, <3>1, <4>1 DEF TeardownDelete
    <3>2. CASE ~TeardownDelete
      <4>1. row' = row
        BY <1>9, <3>2
           DEF PassStep, PassTriggered, PassTick, PassList, PassObserve,
               PassObserveFails, PassKick, PassEnqueue, PassDefer, PassDown,
               PassCollect, PassOrphans, PassComposeOrphans, PassEnd,
               TeardownStepNext, TeardownContainer, TeardownFails,
               TeardownDropSecrets, TeardownDown, TeardownClean, durable
      <4> QED BY <4>1 DEF KindInv, Present
    <3> QED BY <3>1, <3>2
  <2>2. \A i \in Inst : pdes'[i].desired # "absent" => pdes'[i].runtime \in RuntimesOf[i]
    <3>1. CASE PassList BY <3>1 DEF PassList, KindInv, Present
    <3>2. ASSUME pdes' = [i \in Inst |-> NoRow], NEW i \in Inst
          PROVE  pdes'[i].desired = "absent"
      BY <3>2 DEF NoRow
    <3>3. CASE ~PassList
      <4>1. pdes' = pdes \/ pdes' = [i \in Inst |-> NoRow]
        BY <1>9, <3>3
           DEF PassStep, PassTriggered, PassTick, PassObserve, PassObserveFails,
               PassKick, PassEnqueue, PassDefer, PassDown, PassCollect, PassOrphans,
               PassComposeOrphans, PassEnd, TeardownStepNext, TeardownContainer,
               TeardownFails, TeardownDropSecrets, TeardownDown, TeardownClean,
               TeardownDelete, TeardownGoto, PassGoto, PassReturn
      <4> QED BY <3>2, <4>1 DEF KindInv
    <3> QED BY <3>1, <3>3
  <2>3. Torn'
    <3>1. ASSUME NEW i \in Inst, PassDown(i) PROVE Torn'
      <4>1. pdes[i].runtime \in RuntimesOf[i]
        BY <3>1 DEF PassDown, KindInv
      <4>2. RuntimesOf[i] \subseteq {"container", "compose"}
        BY ConstantsAssumption DEF Runtime
      <4> QED BY <3>1, <4>1, <4>2 DEF PassDown
    <3>2. ASSUME NEW i \in Inst, PassCollect(i) PROVE Torn'
      BY <3>2 DEF PassCollect
    <3>3. CASE TeardownStepNext
      BY <3>3 DEF TeardownStepNext, TeardownContainer, TeardownFails,
         TeardownDropSecrets, TeardownDown, TeardownClean, TeardownDelete,
         TeardownGoto, KindInv
    <3>4. ASSUME UNCHANGED <<rid, rstep>>, rid = None PROVE Torn'
      BY <3>4 DEF TypeInv, PcInv
    <3>5. ASSUME UNCHANGED <<rid, rstep>>, ppc' = "each" => ppc = "each" PROVE Torn'
      BY <3>5 DEF KindInv
    <3>6. CASE PassObserve \/ PassKick
      BY <3>4, <3>6 DEF PassObserve, PassKick, PassGoto, TeardownInv
    <3>7. CASE /\ ~TeardownStepNext /\ ~PassObserve /\ ~PassKick
               /\ \A i \in Inst : ~PassDown(i) /\ ~PassCollect(i)
      BY <1>9, <3>5, <3>7
         DEF PassStep, PassTriggered, PassTick, PassList, PassObserveFails,
             PassEnqueue, PassDefer, PassOrphans, PassComposeOrphans, PassEnd,
             PassGoto, PassReturn
    <3> QED BY <3>1, <3>2, <3>3, <3>6, <3>7
  <2> QED BY <1>9, <2>1, <2>2, <2>3, PassTouches DEF KindInv
<1>10. CASE Crash
  BY <1>10 DEF Crash, durable, KindInv, Applying, Present, NoRow
<1> QED BY <1>2, <1>4, <1>5, <1>6, <1>7, <1>8, <1>9, <1>10 DEF Next

\* What is gone stays gone: without a row nothing is left, an instance has only
\* the objects of its runtimes, and a teardown that will delete the row of a
\* steady instance has removed them.
LeaveInv ==
    /\ UninstallLeavesNothing
    /\ \A i \in Inst : "container" \notin RuntimesOf[i] => ctr[i] = NoCtr
    /\ \A i \in Inst : "compose" \notin RuntimesOf[i] => proj[i].ws = NoCfg
    /\ rid \in Steady /\ rstep \in {"drop", "delete"} =>
          ctr[rid] = NoCtr /\ proj[rid].ws = NoCfg
    /\ rid \in Steady /\ rstep = "delete" /\ "compose" \in RuntimesOf[rid] => rid \notin tsec

\* A step that touches only one instance, for which LeaveInv is shown, keeps it.
LEMMA LeaveOthers ==
    ASSUME TypeInv, LeaveInv, NEW k,
           \A j \in Inst : j # k => /\ ctr'[j] = ctr[j] /\ proj'[j] = proj[j]
                                    /\ j \in tsec' => j \in tsec
                                    /\ j \in Soft /\ Present(j) => Present(j)',
           k \in Steady => (~Present(k)' => /\ ctr'[k] = NoCtr /\ proj'[k].ws = NoCfg
                                            /\ "compose" \in RuntimesOf[k] => k \notin tsec'),
           k \in Inst => /\ "container" \notin RuntimesOf[k] => ctr'[k] = NoCtr
                         /\ "compose" \notin RuntimesOf[k] => proj'[k].ws = NoCfg,
           rid' \in Steady /\ rstep' \in {"drop", "delete"} /\ rid' # k
              => UNCHANGED <<rid, rstep>>,
           rid' \in Steady /\ rstep' \in {"drop", "delete"} /\ rid' = k =>
              /\ ctr'[k] = NoCtr /\ proj'[k].ws = NoCfg
              /\ rstep' = "delete" /\ "compose" \in RuntimesOf[k] => k \notin tsec'
    PROVE  LeaveInv'
<1> USE DEF Steady, Soft
<1>1. UninstallLeavesNothing'
  BY DEF UninstallLeavesNothing, LeaveInv
<1>2. \A i \in Inst : /\ "container" \notin RuntimesOf[i] => ctr'[i] = NoCtr
                      /\ "compose" \notin RuntimesOf[i] => proj'[i].ws = NoCfg
  BY DEF LeaveInv
<1>3. rid' \in Steady =>
        /\ rstep' \in {"drop", "delete"} => ctr'[rid'] = NoCtr /\ proj'[rid'].ws = NoCfg
        /\ rstep' = "delete" /\ "compose" \in RuntimesOf[rid'] => rid' \notin tsec'
  BY DEF LeaveInv
<1> QED BY <1>1, <1>2, <1>3 DEF LeaveInv

\* The worker keeps LeaveInv: what it applies has a row and is not torn down.
LEMMA LeaveWorker ==
    ASSUME TypeInv, OneJobPerInstance, BusyInv, NoApplyRemoveOverlap, EarnedInv,
           KindInv, LeaveInv, WorkerStep
    PROVE  LeaveInv'
<1>1. /\ UNCHANGED <<rid, rstep>>
      /\ \A i \in Inst : Present(i)' = Present(i)
  BY WorkerRows DEF pass
<1>2. active \in Steady => Present(active) /\ active # rid
  BY DEF BusyInv, Busy, NoApplyRemoveOverlap, Steady
<1>4. ASSUME active \in Inst, "container" \notin RuntimesOf[active]
      PROVE  ctr' = ctr
  BY <1>4 DEF KindInv, Applying, EarnedInv, WorkerStep, WorkerWake, WorkerDrained, WorkerPop,
     WorkerRead, WorkerParse, WorkerMark, WorkerFind, WorkerCreate, WorkerStart,
     WorkerWrite, WorkerUp, WorkerApplyFails, WorkerService, WorkerObserve,
     WorkerFresh, WorkerFinish, durable
<1>5. ASSUME active \in Inst, "compose" \notin RuntimesOf[active]
      PROVE  proj' = proj
  BY <1>5 DEF KindInv, Applying, EarnedInv, WorkerStep, WorkerWake, WorkerDrained, WorkerPop,
     WorkerRead, WorkerParse, WorkerMark, WorkerFind, WorkerCreate, WorkerStart,
     WorkerWrite, WorkerUp, WorkerApplyFails, WorkerService, WorkerObserve,
     WorkerFresh, WorkerFinish, durable
<1>6. active \in Inst =>
        /\ "container" \notin RuntimesOf[active] => ctr'[active] = NoCtr
        /\ "compose" \notin RuntimesOf[active] => proj'[active].ws = NoCfg
  BY <1>4, <1>5 DEF LeaveInv
<1>7. \A j \in Inst : j # active =>
        /\ ctr'[j] = ctr[j] /\ proj'[j] = proj[j]
        /\ j \in tsec' => j \in tsec
        /\ j \in Soft /\ Present(j) => Present(j)'
  BY <1>1, WorkerTouches
<1>8. rid' \in Steady => rid' # active
  BY <1>1, <1>2
<1>9. \A k : k = active /\ k \in Steady => Present(k)'
  BY <1>1, <1>2 DEF Steady, Soft
<1> QED BY <1>1, <1>6, <1>7, <1>8, <1>9, LeaveOthers

\* The pass keeps LeaveInv: it deletes a row after everything else.
LEMMA LeavePass ==
    ASSUME TypeInv, TeardownInv, KindInv, LeaveInv,
           PassStep \/ PassTriggered \/ PassTick
    PROVE  LeaveInv'
<1>1. CASE TeardownStepNext
  <2>1. rid \in Inst
    BY <1>1 DEF TeardownStepNext, TeardownContainer, TeardownFails,
       TeardownDropSecrets, TeardownDown, TeardownClean, TeardownDelete, TypeInv,
       TypeOK, PcInv
  <2>2. \A j \in Inst : j # rid =>
          /\ ctr'[j] = ctr[j] /\ proj'[j] = proj[j]
          /\ j \in tsec' => j \in tsec
          /\ j \in Soft /\ Present(j) => Present(j)'
    BY PassTouches DEF Present
  <2>3. rstep' \in {"drop", "delete"} => rid' = rid
    BY <1>1 DEF TeardownStepNext, TeardownContainer, TeardownFails,
       TeardownDropSecrets, TeardownDown, TeardownClean, TeardownDelete, TeardownGoto
  <2>4. ASSUME rid \in Steady /\ row'[rid].desired = "absent" =>
                 /\ ctr'[rid] = NoCtr /\ proj'[rid].ws = NoCfg
                 /\ "compose" \in RuntimesOf[rid] => rid \notin tsec',
               "container" \notin RuntimesOf[rid] => ctr'[rid] = NoCtr,
               "compose" \notin RuntimesOf[rid] => proj'[rid].ws = NoCfg,
               rid \in Steady /\ rstep' \in {"drop", "delete"} =>
                 /\ ctr'[rid] = NoCtr /\ proj'[rid].ws = NoCfg
                 /\ rstep' = "delete" /\ "compose" \in RuntimesOf[rid] => rid \notin tsec'
        PROVE  LeaveInv'
    <3>1. rstep' \in {"drop", "delete"} /\ rid' # rid => UNCHANGED <<rid, rstep>>
      BY <2>3
    <3>2. \A k : k = rid => (~Present(k)' <=> row'[rid].desired = "absent")
      BY DEF Present
    <3> QED BY <2>1, <2>2, <2>4, <3>1, <3>2, LeaveOthers
  <2>5. /\ rid \in Steady /\ row[rid].desired = "absent" =>
             /\ ctr[rid] = NoCtr /\ proj[rid].ws = NoCfg
             /\ "compose" \in RuntimesOf[rid] => rid \notin tsec
        /\ "container" \notin RuntimesOf[rid] => ctr[rid] = NoCtr
        /\ "compose" \notin RuntimesOf[rid] => proj[rid].ws = NoCfg
    BY <2>1 DEF LeaveInv, UninstallLeavesNothing, Present
  <2>6. CASE TeardownContainer
    <3>1. ctr'[rid] = NoCtr /\ UNCHANGED <<row, proj, tsec>>
      BY <2>1, <2>6 DEF TeardownContainer, TypeInv, TypeOK
    <3>2. rstep' \in {"none", "drop"} /\ (rstep' = "drop" => ppc = "each")
      BY <2>6 DEF TeardownContainer, TeardownGoto, Forgets
    <3>3. rid \in Steady /\ rstep' = "drop" => proj[rid].ws = NoCfg
      BY <2>1, <2>6, <3>2 DEF TeardownContainer, KindInv, Steady, LeaveInv
    <3> QED BY <2>4, <2>5, <3>1, <3>2, <3>3
  <2>7. CASE TeardownFails
    <3>1. /\ UNCHANGED <<row, ctr, tsec>> /\ rstep' = "none"
          /\ proj'[rid].ws \in {proj[rid].ws, NoCfg}
      BY <2>1, <2>7 DEF TeardownFails, TeardownGoto, TypeInv, TypeOK, Project
    <3> QED BY <2>4, <2>5, <3>1
  <2>8. CASE TeardownDropSecrets
    <3>1. /\ UNCHANGED <<row, ctr, proj>> /\ rstep = "drop"
          /\ tsec' \subseteq tsec
      BY <2>8 DEF TeardownDropSecrets
    <3>2. rid \in Steady => ctr[rid] = NoCtr /\ proj[rid].ws = NoCfg
      BY <3>1 DEF LeaveInv
    <3>3. rid \in Steady => "compose" \notin RuntimesOf[rid]
      BY <2>1, <3>1 DEF KindInv, TeardownInv, Steady
    <3> QED BY <2>4, <2>5, <3>1, <3>2, <3>3
  <2>9. CASE TeardownDown
    <3>1. UNCHANGED <<row, ctr, tsec>> /\ proj'[rid].ws = proj[rid].ws /\ rstep' = "clean"
      BY <2>1, <2>9 DEF TeardownDown, TeardownGoto, TypeInv, TypeOK, Project
    <3> QED BY <2>4, <2>5, <3>1
  <2>10. CASE TeardownClean
    <3>1. /\ UNCHANGED <<row, ctr>> /\ proj'[rid].ws = NoCfg /\ rid \notin tsec'
      BY <2>1, <2>10 DEF TeardownClean, TypeInv, TypeOK, Project
    <3>2. rstep' \in {"none", "delete"} /\ (rstep' = "delete" => ppc = "each")
      BY <2>10 DEF TeardownClean, TeardownGoto, Forgets
    <3>3. rid \in Steady /\ rstep' = "delete" => ctr[rid] = NoCtr
      BY <2>1, <2>10, <3>2 DEF TeardownClean, KindInv, Steady, LeaveInv
    <3> QED BY <2>4, <2>5, <3>1, <3>2, <3>3
  <2>11. CASE TeardownDelete
    <3>1. UNCHANGED <<ctr, proj, tsec>> /\ rstep = "delete" /\ rstep' = "none"
      BY <2>11 DEF TeardownDelete, TeardownGoto
    <3> QED BY <2>1, <2>4, <2>5, <3>1 DEF LeaveInv
  <2> QED BY <1>1, <2>6, <2>7, <2>8, <2>9, <2>10, <2>11 DEF TeardownStepNext
<1>2. CASE ~TeardownStepNext
  <2>1. /\ UNCHANGED <<row, ctr, proj, tsec>>
        /\ UNCHANGED <<rid, rstep>> \/ rstep' \in {"none", "ctr", "down"}
    BY <1>2 DEF PassStep, PassTriggered, PassTick, PassList, PassObserve,
       PassObserveFails, PassKick, PassEnqueue, PassDefer, PassDown, PassCollect,
       PassOrphans, PassComposeOrphans, PassEnd, PassGoto, PassReturn, durable
  <2> QED BY <2>1 DEF LeaveInv, UninstallLeavesNothing, Present
<1> QED BY <1>1, <1>2

\* Every step keeps LeaveInv.
LEMMA LeaveStep ==
    ASSUME TypeInv, OneJobPerInstance, Exclusion, EarnedInv, KindInv, LeaveInv,
           [Next]_vars
    PROVE  LeaveInv'
<1>1. CASE WorkerStep BY <1>1, LeaveWorker DEF Exclusion
<1>2. CASE PassStep \/ PassTriggered \/ PassTick BY <1>2, LeavePass DEF Exclusion
<1>3. ASSUME UNCHANGED <<ctr, proj, tsec, rid, rstep>>,
             \A i \in Soft : Present(i) => Present(i)'
      PROVE  LeaveInv'
  BY <1>3 DEF LeaveInv, UninstallLeavesNothing, Steady
<1>4. ASSUME NEW i \in Inst, ContainerExit(i) PROVE LeaveInv'
  <2>1. ctr[i] # NoCtr
    BY <1>4 DEF ContainerExit, NoCtr
  <2>2. \A j \in Inst : j # i => ctr'[j] = ctr[j]
    BY <1>4 DEF ContainerExit, TypeInv, TypeOK
  <2>3. UNCHANGED <<row, proj, tsec, rid, rstep>>
    BY <1>4 DEF ContainerExit, pass
  <2>4. rid \in Steady /\ rstep \in {"drop", "delete"} => rid # i
    BY <2>1 DEF LeaveInv
  <2> QED
    BY <2>1, <2>2, <2>3, <2>4
    DEF LeaveInv, UninstallLeavesNothing, Present, Steady, Soft
<1>5. CASE \/ \E i \in Inst, d \in Desired, rt \in Runtime, c \in Cfg : Upsert(i, d, rt, c)
           \/ \E i \in Inst, d \in Desired : SetStateRead(i, d)
           \/ SetStateWrite
           \/ \E i \in Inst : HardDelete(i)
  <2>1. \A i \in Soft : Present(i) => Present(i)'
    BY <1>5, RequestRows DEF Exclusion
  <2>2. UNCHANGED <<ctr, proj, tsec, rid, rstep>>
    BY <1>5 DEF Upsert, SetStateRead, SetStateWrite, HardDelete, durable, pass
  <2> QED BY <1>3, <2>1, <2>2
<1>6. CASE Crash
  BY <1>6 DEF Crash, durable, LeaveInv, UninstallLeavesNothing, Present
<1>7. CASE UNCHANGED vars
  BY <1>3, <1>7 DEF vars, durable, pass, Present
<1> QED BY <1>1, <1>2, <1>4, <1>5, <1>6, <1>7 DEF Next

\* What the proofs above need of each other, in one.
DeployInv ==
    OneJobPerInstance /\ Exclusion /\ ConfigInv /\ EarnedInv /\ KindInv /\ LeaveInv

\* It holds at the start.
LEMMA DeployInit == Init => DeployInv
<1> SUFFICES ASSUME Init PROVE DeployInv
  OBVIOUS
<1>1. OneJobPerInstance /\ Exclusion
  BY ConstantsAssumption
  DEF Init, OneJobPerInstance, Exclusion, ReqInv, TeardownInv, SnapshotInv,
      BusyInv, NoApplyRemoveOverlap, Busy, Soft
<1>2. EarnedInv BY DEF Init, EarnedInv
<1>3. \A i \in Inst : row[i].desired = "absent" /\ pdes[i].desired = "absent"
  BY DEF Init, NoRow
<1>4. KindInv /\ ConfigInv BY <1>3 DEF Init, KindInv, ConfigInv, Applying, Present
<1>5. \A i \in Inst : proj[i].ws = NoCfg /\ ctr[i] = NoCtr
  BY DEF Init, NoProj
<1>6. LeaveInv BY <1>5 DEF Init, LeaveInv, UninstallLeavesNothing, Steady, Soft
<1> QED BY <1>1, <1>2, <1>4, <1>6 DEF DeployInv

\* Every step keeps it.
LEMMA DeployStep == TypeInv /\ DeployInv /\ [Next]_vars => DeployInv'
<1> SUFFICES ASSUME TypeInv, DeployInv, [Next]_vars PROVE DeployInv'
  OBVIOUS
<1> USE DEF DeployInv
<1>1. OneJobPerInstance' BY OneJobStep
<1>2. Exclusion' BY ExclusionStep
<1>3. ConfigInv' BY ConfigStep
<1>4. EarnedInv' BY EarnedStep DEF Exclusion
<1>5. KindInv' BY KindStep DEF Exclusion
<1>6. LeaveInv' BY LeaveStep
<1> QED BY <1>1, <1>2, <1>3, <1>4, <1>5, <1>6

\* When a row is gone its container, workspace and template secrets are gone,
\* whatever failed on the way, of every instance that nobody hard-deletes and
\* that keeps its runtime.
THEOREM UninstallIsComplete == Spec => []UninstallLeavesNothing
<1>1. DeployInv => UninstallLeavesNothing
  BY DEF DeployInv, LeaveInv
<1> QED BY <1>1, DeployInit, DeployStep, TypeInit, TypeStep, PTL DEF Spec

-----------------------------------------------------------------------------
(* A running compose project keeps the workspace it is found by.           *)

\* Instances whose compose project, if they can have one, `compose down` or the
\* removal by label takes down.
Removable == {i \in Soft : DownMayFail => "compose" \notin RuntimesOf[i]}

FindInv == \A i \in Removable : proj[i].up # NoCfg => proj[i].ws # NoCfg

\* Between `compose down` and the removal of the workspace nothing comes up.
CleanInv == rstep = "clean" /\ rid \in Removable => proj[rid].up = NoCfg

\* Every step keeps the running projects of such instances findable.
LEMMA FindableStep ==
    ASSUME TypeInv, ConfigInv, NoApplyRemoveOverlap, LeaveInv, FindInv, CleanInv,
           [Next]_vars
    PROVE  FindInv' /\ CleanInv'
<1> USE DEF FindInv, CleanInv, Removable, Soft
<1>1. ASSUME UNCHANGED proj,
             rstep' = "clean" => rstep = "clean" /\ rid' = rid
      PROVE  FindInv' /\ CleanInv'
  BY <1>1
<1>2. ASSUME NEW c, c # NoCfg, active \in Inst, UNCHANGED <<rid, rstep>>,
             \/ proj' = [proj EXCEPT ![active].ws = c]
             \/ /\ proj[active].ws # NoCfg
                /\ proj' = [proj EXCEPT ![active].up = c]
      PROVE  FindInv' /\ CleanInv'
  <2>1. \A j \in Inst : j # active => proj'[j] = proj[j]
    BY <1>2 DEF TypeInv, TypeOK
  <2>2. proj'[active].ws # NoCfg
    BY <1>2 DEF TypeInv, TypeOK, Project
  <2>3. rstep = "clean" /\ rid \in Removable => rid \in Inst /\ rid # active
    BY DEF NoApplyRemoveOverlap, Busy, TypeInv, TypeOK, PcInv
  <2> QED BY <1>2, <2>1, <2>2, <2>3
<1>3. CASE WorkerWrite
  BY <1>2, <1>3, ConstantsAssumption
  DEF WorkerWrite, WorkerOnly, pass, ConfigInv, Applying, TypeInv, TypeOK, PcInv
<1>4. CASE WorkerUp
  <2>1. active \in Inst /\ UNCHANGED <<rid, rstep>>
    BY <1>4 DEF WorkerUp, WorkerOnly, pass, TypeInv, TypeOK, PcInv
  <2> QED BY <1>1, <1>2, <1>4, <2>1 DEF WorkerUp
<1>5. CASE WorkerApplyFails
  <2>1. active \in Inst /\ UNCHANGED <<rid, rstep>>
    BY <1>5 DEF WorkerApplyFails, WorkerOnly, pass, TypeInv, TypeOK, PcInv
  <2> QED BY <1>1, <1>2, <1>5, <2>1 DEF WorkerApplyFails
<1>6. CASE WorkerStep /\ ~WorkerWrite /\ ~WorkerUp /\ ~WorkerApplyFails
  BY <1>1, <1>6 DEF WorkerStep, WorkerWake, WorkerDrained, WorkerPop, WorkerRead,
     WorkerParse, WorkerMark, WorkerFind, WorkerCreate, WorkerStart, WorkerService,
     WorkerObserve, WorkerFresh, WorkerFinish, WorkerOnly, durable, pass
<1>7. CASE \/ \E i \in Inst, d \in Desired, rt \in Runtime, c \in Cfg : Upsert(i, d, rt, c)
           \/ \E i \in Inst, d \in Desired : SetStateRead(i, d)
           \/ SetStateWrite
           \/ \E i \in Inst : HardDelete(i) \/ ContainerExit(i)
  BY <1>1, <1>7 DEF Upsert, SetStateRead, SetStateWrite, HardDelete,
     ContainerExit, durable, pass
<1>8. CASE TeardownDown
  <2>1. rid \in Inst BY <1>8 DEF TeardownDown, TypeInv, TypeOK, PcInv
  <2>2. rid' = rid /\ (UNCHANGED proj \/ proj' = [proj EXCEPT ![rid].up = NoCfg])
    BY <1>8 DEF TeardownDown, TeardownGoto
  <2>3. DownMayFail \/ proj' = [proj EXCEPT ![rid].up = NoCfg]
    <3>1. PICK failed \in {FALSE, DownMayFail} :
            proj' = IF failed THEN proj ELSE [proj EXCEPT ![rid].up = NoCfg]
      BY <1>8 DEF TeardownDown
    <3>2. CASE DownMayFail BY <3>2, Zenon
    <3>3. CASE ~DownMayFail
      <4>1. ~failed BY <3>3, Zenon
      <4> QED BY <3>1, <4>1
    <3> QED BY <3>2, <3>3
  <2>4. rid \in Removable /\ DownMayFail => proj[rid].ws = NoCfg /\ proj[rid].up = NoCfg
    BY <2>1 DEF LeaveInv
  <2>5. CASE proj' = [proj EXCEPT ![rid].up = NoCfg]
    BY <2>1, <2>2, <2>5 DEF TypeInv, TypeOK, Project
  <2>6. CASE UNCHANGED proj /\ DownMayFail BY <2>2, <2>4, <2>6
  <2> QED BY <2>2, <2>3, <2>5, <2>6
<1>9. CASE TeardownClean
  <2>1. rid \in Inst /\ (rid \in Removable => proj[rid].up = NoCfg)
    BY <1>9 DEF TeardownClean, TypeInv, TypeOK, PcInv
  <2>2. rstep' # "clean" /\ proj' = [proj EXCEPT ![rid].ws = NoCfg]
    BY <1>9 DEF TeardownClean, TeardownGoto
  <2> QED BY <2>1, <2>2 DEF TypeInv, TypeOK, Project
<1>10. CASE TeardownContainer \/ TeardownDropSecrets \/ TeardownDelete
  BY <1>1, <1>10 DEF TeardownContainer, TeardownDropSecrets,
     TeardownDelete, TeardownGoto, durable
<1>11. CASE (PassStep \/ PassTriggered \/ PassTick) /\ ~TeardownStepNext
  BY <1>1, <1>11 DEF PassStep, PassTriggered, PassTick, PassList, PassObserve,
     PassObserveFails, PassKick, PassEnqueue, PassDefer, PassDown, PassCollect,
     PassOrphans, PassComposeOrphans, PassEnd, PassGoto, PassReturn, durable
<1>12. CASE Crash BY <1>1, <1>12 DEF Crash, durable
<1>13. CASE UNCHANGED vars BY <1>1, <1>13 DEF vars, durable, pass
<1>14. CASE TeardownFails
  <2>1. rid \in Inst /\ (rid \in Removable /\ rstep = "clean" => proj[rid].up = NoCfg)
    BY <1>14 DEF TeardownFails, TypeInv, TypeOK, PcInv
  <2>2. /\ rstep' # "clean"
        /\ \/ proj' = proj
           \/ rstep = "clean" /\ proj' = [proj EXCEPT ![rid].ws = NoCfg]
    BY <1>14 DEF TeardownFails, TeardownGoto
  <2>3. CASE proj' = proj BY <2>2, <2>3
  <2>4. CASE rstep = "clean" /\ proj' = [proj EXCEPT ![rid].ws = NoCfg]
    BY <2>1, <2>2, <2>4 DEF TypeInv, TypeOK, Project
  <2> QED BY <2>2, <2>3, <2>4
<1> QED
  BY <1>3, <1>4, <1>5, <1>6, <1>7, <1>8, <1>9, <1>10, <1>11, <1>12, <1>13, <1>14
  DEF Next, TeardownStepNext

\* The orphan collection of loop.go, which goes by workspaces, can find every
\* compose project that is up and was not hard-deleted, if `compose down` or
\* the removal by label works.
THEOREM RunningProjectsAreFindable ==
    DownMayFail = FALSE => (Spec => []ProjectFindable)
<1> SUFFICES ASSUME DownMayFail = FALSE PROVE Spec => []ProjectFindable
  OBVIOUS
<1>1. Init => FindInv /\ CleanInv
  BY DEF Init, NoProj, FindInv, CleanInv, Removable, Soft
<1>2. TypeInv /\ DeployInv /\ FindInv /\ CleanInv /\ [Next]_vars => FindInv' /\ CleanInv'
  BY FindableStep DEF DeployInv, Exclusion
<1>3. FindInv => ProjectFindable
  BY DEF FindInv, ProjectFindable, Removable
<1> QED
  BY <1>1, <1>2, <1>3, DeployInit, DeployStep, TypeInit, TypeStep, PTL DEF Spec
=============================================================================
