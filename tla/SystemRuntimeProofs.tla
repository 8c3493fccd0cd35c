------------------------ MODULE SystemRuntimeProofs ------------------------
(* Proofs about SystemRuntime, for any instances, configurations, groups and *)
(* number of events.                                                         *)
EXTENDS SystemRuntime, TLAPS

-----------------------------------------------------------------------------
(* Type correctness.                                                       *)

\* What a configuration consists of.
LEMMA ConfigType ==
    ASSUME NEW c \in Config
    PROVE  /\ c.group \in Group \union {None} /\ c.bin \in Digest
           /\ c.files \in Files /\ c.valid \in BOOLEAN
BY ConfigAssumption

\* The row that is not there is a row.
LEMMA NoRowType == NoRow \in Row /\ ~NoRow.there
<1>1. AnyConfig \in Config
  BY ConfigAssumption DEF AnyConfig
<1> QED BY <1>1 DEF NoRow, Row, Desired

\* While an instance has its turn, its listed row is there.
LEMMA TurnType ==
    ASSUME TypeOK, pc # "idle"
    PROVE  /\ at \in Instance /\ seen[at] \in Listed /\ config \in Config
           /\ seen[at] # None
BY DEF TypeOK, Listed, config

\* The end of a turn.
LEMMA DoneType ==
    ASSUME TypeOK, Done
    PROVE  /\ seen' \in [Instance -> Listed \union {None}]
           /\ at' \in Instance \union {None} /\ pc' \in Pc
           /\ (at' = None) = (pc' = "idle") /\ (at' # None => seen'[at'] # None)
           /\ changed' \in BOOLEAN
BY DEF TypeOK, Done, Pc

\* The next step of a turn.
LEMMA GoType ==
    ASSUME TypeOK, pc # "idle", NEW to \in Pc \ {"idle"}, Go(to)
    PROVE  /\ seen' \in [Instance -> Listed \union {None}]
           /\ at' \in Instance \union {None} /\ pc' \in Pc
           /\ (at' = None) = (pc' = "idle") /\ (at' # None => seen'[at'] # None)
BY DEF TypeOK, Go

\* ... also after a failure.
LEMMA FailType ==
    ASSUME TypeOK, pc # "idle", Fail
    PROVE  /\ seen' \in [Instance -> Listed \union {None}]
           /\ at' \in Instance \union {None} /\ pc' \in Pc
           /\ (at' = None) = (pc' = "idle") /\ (at' # None => seen'[at'] # None)
           /\ changed' \in BOOLEAN
BY DEF TypeOK, Fail, Pc

\* ... that comes after a write.
LEMMA FailHalfType ==
    ASSUME TypeOK, pc # "idle", FailHalf
    PROVE  Fail /\ half' \subseteq Instance
BY TurnType DEF TypeOK, FailHalf

\* An event uses up the bound.
LEMMA EventType == ASSUME TypeOK, Event PROVE left' \in Nat
BY DEF TypeOK, Event

\* The observed state of a row.
LEMMA ObservedType ==
    ASSUME TypeOK, NEW i \in Instance,
           NEW s \in {"", "installed", "stopped", "error"}, SetObserved(i, s)
    PROVE  row' \in [Instance -> Row]
<1>1. [row EXCEPT ![i].obs = s] \in [Instance -> Row]
  BY DEF TypeOK, Row
<1>2. row' = [row EXCEPT ![i].obs = s] \/ row' = row
  BY Zenon DEF SetObserved
<1> QED BY <1>1, <1>2 DEF TypeOK

\* A deleted row.
LEMMA DeleteType ==
    ASSUME TypeOK, NEW i \in Instance, DeleteInstance(i)
    PROVE  row' \in [Instance -> Row] /\ lock' \in [Group -> Instance \union {None}]
BY NoRowType DEF TypeOK, DeleteInstance

\* The agent starts well typed.
LEMMA InitType == Init => TypeOK
<1> SUFFICES ASSUME Init PROVE TypeOK OBVIOUS
<1>1. row \in [Instance -> Row]
  <2>1. {NoRow} \union [there : {TRUE}, want : {"installed"}, obs : {""},
                        cfg : {c \in Config : c.valid /\ c.flavor # "host"}]
          \subseteq Row
    BY NoRowType DEF Row, Desired
  <2> QED BY <2>1 DEF Init
<1>2. /\ kiosk \in Session \union {NoKiosk} /\ dm \in BOOLEAN /\ desk \in BOOLEAN
      /\ snap \in {"nofile", "none", "dm"} /\ sudo \in BOOLEAN /\ unrestored \in BOOLEAN
  BY DEF Init
<1>3. /\ at \in Instance \union {None} /\ pc \in Pc
      /\ (at = None) = (pc = "idle") /\ (at # None => seen[at] # None)
  BY DEF Init, Pc
<1>4. /\ lock \in [Group -> Instance \union {None}]
      /\ bin \in [Digest -> {"absent", "torn", "whole"}]
      /\ files \in [Instance -> Files \union {None}]
      /\ unit \in [Instance -> Digest \union {None}]
      /\ proc \in [Instance -> Service \union {Off}]
      /\ seen \in [Instance -> Listed \union {None}]
  BY DEF Init
<1>5. changed \in BOOLEAN /\ half \subseteq Instance /\ astray \subseteq Instance
  BY DEF Init
<1>6. left \in Nat
  BY ConfigAssumption DEF Init
<1> QED BY <1>1, <1>2, <1>3, <1>4, <1>5, <1>6 DEF TypeOK

\* A step of the pass that takes a row up, locks or reports.
LEMMA TurnStep ==
    ASSUME TypeOK,
           \/ PassBegin \/ (\E i \in Instance : Turn(i) \/ Skip(i))
           \/ TryAcquireLock \/ InsertLock \/ Observe
    PROVE  TypeOK'
<1>1. CASE PassBegin
  <2>1. ASSUME NEW i \in Instance
        PROVE  [want |-> row[i].want, cfg |-> row[i].cfg] \in Listed
    BY DEF TypeOK, Row, Listed
  <2>2. seen' \in [Instance -> Listed \union {None}] /\ at = None
    BY <1>1, <2>1 DEF PassBegin, TypeOK
  <2> QED BY <1>1, <2>2 DEF PassBegin, TypeOK, db, disk, kio
<1>2. ASSUME NEW i \in Instance, Turn(i) PROVE TypeOK'
  <2>1. at' = i /\ pc' \in Pc \ {"idle"} /\ seen' = seen /\ seen[i] # None /\ i # None
    BY <1>2, ConfigAssumption DEF Turn, Pc
  <2> QED BY <1>2, <2>1 DEF Turn, TypeOK, db, disk, kio
<1>3. CASE TryAcquireLock
  <2>1. Go("insert") \/ Go("apply") \/ Go("error")
    BY <1>3, Zenon DEF TryAcquireLock
  <2>2. pc # "idle"
    BY <1>3 DEF TryAcquireLock
  <2>3. /\ seen' \in [Instance -> Listed \union {None}]
        /\ at' \in Instance \union {None} /\ pc' \in Pc
        /\ (at' = None) = (pc' = "idle") /\ (at' # None => seen'[at'] # None)
    BY <2>1, <2>2, GoType DEF Pc
  <2> QED BY <1>3, <2>3 DEF TryAcquireLock, TypeOK, db, disk, kio
<1>4. CASE InsertLock
  <2>1. pc # "idle" /\ (Go("apply") \/ Go("error"))
    BY <1>4 DEF InsertLock
  <2>2. /\ seen' \in [Instance -> Listed \union {None}]
        /\ at' \in Instance \union {None} /\ pc' \in Pc
        /\ (at' = None) = (pc' = "idle") /\ (at' # None => seen'[at'] # None)
    BY <2>1, GoType DEF Pc
  <2>3. lock' = [lock EXCEPT ![config.group] = at] \/ lock' = lock
    BY <1>4, Zenon DEF InsertLock
  <2>4. lock' \in [Group -> Instance \union {None}]
    BY <2>1, <2>3, TurnType DEF TypeOK
  <2> QED BY <1>4, <2>2, <2>4 DEF InsertLock, TypeOK, disk, kio
<1>5. CASE Observe
  <2>1. at \in Instance /\ Done
    BY <1>5, TurnType DEF Observe
  <2>2. row' \in [Instance -> Row]
    BY <1>5, <2>1, ObservedType DEF Observe
  <2> QED BY <1>5, <2>1, <2>2, DoneType DEF Observe, TypeOK, disk, kio
<1>6. ASSUME NEW i \in Instance, Skip(i) PROVE TypeOK'
  <2>1. seen' \in [Instance -> Listed \union {None}] /\ at = None
    BY <1>6 DEF Skip, TypeOK
  <2> QED BY <1>6, <2>1 DEF Skip, TypeOK, db, disk, kio
<1> QED BY <1>1, <1>2, <1>3, <1>4, <1>5, <1>6

\* A step of Apply for a managed service.
LEMMA ManagedStep == ASSUME TypeOK, Managed PROVE TypeOK'
<1>1. CASE EnsureManagedBinary
  <2>1. pc # "idle" /\ (Go("files") \/ Go("extract") \/ Fail)
    BY <1>1 DEF EnsureManagedBinary
  <2>2. /\ seen' \in [Instance -> Listed \union {None}]
        /\ at' \in Instance \union {None} /\ pc' \in Pc
        /\ (at' = None) = (pc' = "idle") /\ (at' # None => seen'[at'] # None)
    BY <2>1, GoType, FailType DEF Pc
  <2>3. bin' \in [Digest -> {"absent", "torn", "whole"}]
    BY <1>1 DEF EnsureManagedBinary, TypeOK
  <2>4. changed' \in BOOLEAN /\ left' \in Nat
    BY <1>1, EventType DEF EnsureManagedBinary, Fail, TypeOK
  <2> QED BY <1>1, <2>2, <2>3, <2>4 DEF EnsureManagedBinary, TypeOK, db, kio
<1>2. CASE ExtractManagedTgz
  <2>1. pc # "idle" /\ (Go("files") \/ Fail)
    BY <1>2 DEF ExtractManagedTgz
  <2>2. /\ seen' \in [Instance -> Listed \union {None}]
        /\ at' \in Instance \union {None} /\ pc' \in Pc
        /\ (at' = None) = (pc' = "idle") /\ (at' # None => seen'[at'] # None)
    BY <2>1, GoType, FailType DEF Pc
  <2>3. bin' \in [Digest -> {"absent", "torn", "whole"}]
    BY <1>2 DEF ExtractManagedTgz, TypeOK
  <2>4. changed' \in BOOLEAN /\ left' \in Nat
    BY <1>2, EventType DEF ExtractManagedTgz, Fail, TypeOK
  <2> QED BY <1>2, <2>2, <2>3, <2>4 DEF ExtractManagedTgz, TypeOK, db, kio
<1>3. CASE WriteFiles
  <2>1. pc # "idle" /\ (Go("install") \/ FailHalf)
    BY <1>3 DEF WriteFiles
  <2>2. /\ seen' \in [Instance -> Listed \union {None}]
        /\ at' \in Instance \union {None} /\ pc' \in Pc
        /\ (at' = None) = (pc' = "idle") /\ (at' # None => seen'[at'] # None)
    BY <2>1, GoType, FailType, FailHalfType DEF Pc
  <2>3. files' \in [Instance -> Files \union {None}]
    <3>1. [files EXCEPT ![at] = config.files] \in [Instance -> Files \union {None}]
      BY <2>1, TurnType, ConfigType DEF TypeOK
    <3> QED BY <1>3, <3>1 DEF WriteFiles, TypeOK
  <2>4. changed' \in BOOLEAN /\ half' \subseteq Instance /\ left' \in Nat
    <3>1. CASE FailHalf /\ Event
      BY <2>1, <3>1, FailHalfType, FailType, EventType
    <3>2. CASE changed' = (files[at] # config.files) /\ UNCHANGED <<half, left>>
      BY <3>2 DEF TypeOK
    <3> QED BY <1>3, <3>1, <3>2 DEF WriteFiles
  <2> QED BY <1>3, <2>2, <2>3, <2>4 DEF WriteFiles, TypeOK, db, kio
<1>4. CASE InstallUnit
  <2>1. pc # "idle" /\ (Go("restart") \/ FailHalf)
    BY <1>4 DEF InstallUnit
  <2>2. /\ seen' \in [Instance -> Listed \union {None}]
        /\ at' \in Instance \union {None} /\ pc' \in Pc
        /\ (at' = None) = (pc' = "idle") /\ (at' # None => seen'[at'] # None)
    BY <2>1, GoType, FailType, FailHalfType DEF Pc
  <2>3. unit' \in [Instance -> Digest \union {None}]
    <3>1. [unit EXCEPT ![at] = config.bin] \in [Instance -> Digest \union {None}]
      BY <2>1, TurnType, ConfigType DEF TypeOK
    <3> QED BY <1>4, <3>1 DEF InstallUnit, GenerateManagedUnit, TypeOK
  <2>4. changed' \in BOOLEAN /\ half' \subseteq Instance /\ left' \in Nat
    <3>1. CASE FailHalf
      <4>1. changed' \in BOOLEAN /\ half' \subseteq Instance
        BY <2>1, <3>1, FailHalfType, FailType
      <4> QED BY <1>4, <4>1, EventType DEF InstallUnit, TypeOK
    <3>2. CASE changed' \in {changed, TRUE} /\ UNCHANGED <<half, left>>
      BY <3>2 DEF TypeOK
    <3> QED BY <1>4, <3>1, <3>2 DEF InstallUnit
  <2> QED BY <1>4, <2>2, <2>3, <2>4 DEF InstallUnit, TypeOK, db, kio
<1>5. CASE Restart
  <2>1. pc # "idle" /\ (Go("observe") \/ FailHalf)
    BY <1>5 DEF Restart
  <2>2. /\ seen' \in [Instance -> Listed \union {None}]
        /\ at' \in Instance \union {None} /\ pc' \in Pc
        /\ (at' = None) = (pc' = "idle") /\ (at' # None => seen'[at'] # None)
    BY <2>1, GoType, FailType, FailHalfType DEF Pc
  <2>3. proc' \in [Instance -> Service \union {Off}]
    <3>1. [bin |-> config.bin, files |-> config.files, group |-> config.group] \in Service
      BY <2>1, TurnType, ConfigType DEF Service
    <3>2. \A p \in Service \union {Off} :
             [proc EXCEPT ![at] = p] \in [Instance -> Service \union {Off}]
      BY DEF TypeOK
    <3> HIDE DEF Service, Off
    <3> QED BY <1>5, <3>1, <3>2 DEF Restart, TypeOK
  <2>4. changed' \in BOOLEAN /\ half' \subseteq Instance /\ left' \in Nat
    <3>1. CASE FailHalf
      <4>1. changed' \in BOOLEAN /\ half' \subseteq Instance
        BY <2>1, <3>1, FailHalfType, FailType
      <4> QED BY <1>5, <4>1, EventType DEF Restart, TypeOK
    <3>2. CASE changed' = changed /\ half' \in {half, half \ {at}} /\ UNCHANGED left
      BY <3>2 DEF TypeOK
    <3> QED BY <1>5, <3>1, <3>2 DEF Restart
  <2> QED BY <1>5, <2>2, <2>3, <2>4 DEF Restart, TypeOK, db, disk, kio
<1> QED BY <1>1, <1>2, <1>3, <1>4, <1>5 DEF Managed

\* A step of Apply for the other flavors.
LEMMA KioskStep == ASSUME TypeOK, ApplyKiosk \/ ApplyHost PROVE TypeOK'
<1>1. CASE ApplyKiosk
  <2>1. pc # "idle" /\ (Go("observe") \/ Fail)
    BY <1>1 DEF ApplyKiosk
  <2>2. /\ seen' \in [Instance -> Listed \union {None}]
        /\ at' \in Instance \union {None} /\ pc' \in Pc
        /\ (at' = None) = (pc' = "idle") /\ (at' # None => seen'[at'] # None)
    BY <2>1, GoType, FailType DEF Pc
  <2>3. SnapshotDM \in {"nofile", "none", "dm"} /\ StoppedDM \in BOOLEAN
    BY DEF TypeOK, SnapshotDM, StoppedDM
  <2>4. [by |-> at, group |-> config.group] \in Session
    BY <2>1, TurnType, ConfigType DEF Session
  <2>5. /\ kiosk' \in Session \union {NoKiosk} /\ dm' \in BOOLEAN
        /\ snap' \in {"nofile", "none", "dm"}
    <3> HIDE DEF Session, NoKiosk, SnapshotDM, StoppedDM
    <3> QED BY <1>1, <2>3, <2>4 DEF ApplyKiosk, kio, TypeOK
  <2>6. changed' \in BOOLEAN /\ left' \in Nat
    BY <1>1, EventType DEF ApplyKiosk, Fail, TypeOK
  <2> QED BY <1>1, <2>2, <2>5, <2>6 DEF ApplyKiosk, TypeOK, db, disk
<1>2. CASE ApplyHost
  <2>1. pc # "idle" /\ Fail
    BY <1>2 DEF ApplyHost
  <2> QED BY <1>2, <2>1, FailType DEF ApplyHost, TypeOK, db, disk, kio
<1> QED BY <1>1, <1>2

\* A step of Remove and of what follows it.
LEMMA RemoveStep ==
    ASSUME TypeOK, RemoveKiosk \/ RemoveManaged \/ Release \/ Settle
    PROVE  TypeOK'
<1>1. CASE RemoveKiosk
  <2>1. pc # "idle" /\ ((Go("release") /\ UNCHANGED changed) \/ Done)
    BY <1>1 DEF RemoveKiosk
  <2>2. /\ seen' \in [Instance -> Listed \union {None}]
        /\ at' \in Instance \union {None} /\ pc' \in Pc
        /\ (at' = None) = (pc' = "idle") /\ (at' # None => seen'[at'] # None)
        /\ changed' \in BOOLEAN
    BY <2>1, GoType, DoneType DEF Pc, TypeOK
  <2>3. /\ kiosk' \in Session \union {NoKiosk} /\ dm' \in BOOLEAN
        /\ snap' \in {"nofile", "none", "dm"}
    <3>1. RestoredDM \in BOOLEAN
      BY DEF TypeOK, RestoredDM
    <3> HIDE DEF RestoredDM, NoKiosk, Session
    <3> QED BY <1>1, <3>1 DEF RemoveKiosk, kio, TypeOK
  <2>4. left' \in Nat
    BY <1>1, EventType DEF RemoveKiosk, TypeOK
  <2>5. unrestored' \in BOOLEAN
    <3>1. \/ unrestored' = (unrestored \/ (dm' # RestoredDM /\ snap' = "nofile"))
          \/ unrestored' = unrestored
      BY <1>1, Zenon DEF RemoveKiosk, kio
    <3>2. unrestored \in BOOLEAN
      BY DEF TypeOK
    <3> QED BY <3>1, <3>2, Zenon
  <2>6. astray' \subseteq Instance
    <3>1. astray' \in {astray, astray \union ({kiosk'.by} \intersect {at})}
      BY <1>1, Zenon DEF RemoveKiosk
    <3> QED BY <2>1, <3>1, TurnType DEF TypeOK
  <2> QED BY <1>1, <2>2, <2>3, <2>4, <2>5, <2>6 DEF RemoveKiosk, TypeOK, db, disk
<1>2. CASE RemoveManaged
  <2>1. pc # "idle" /\ ((Go("release") /\ UNCHANGED changed) \/ Done)
    BY <1>2 DEF RemoveManaged
  <2>2. /\ seen' \in [Instance -> Listed \union {None}]
        /\ at' \in Instance \union {None} /\ pc' \in Pc
        /\ (at' = None) = (pc' = "idle") /\ (at' # None => seen'[at'] # None)
        /\ changed' \in BOOLEAN
    BY <2>1, GoType, DoneType DEF Pc, TypeOK
  <2>3. proc' \in [Instance -> Service \union {Off}]
    <3>1. [proc EXCEPT ![at] = Off] \in [Instance -> Service \union {Off}]
      BY DEF TypeOK
    <3> QED BY <1>2, <3>1 DEF RemoveManaged, TypeOK
  <2>4. /\ unit' \in [Instance -> Digest \union {None}]
        /\ files' \in [Instance -> Files \union {None}]
    BY <1>2 DEF RemoveManaged, TypeOK
  <2>5. left' \in Nat
    BY <1>2, EventType DEF RemoveManaged, TypeOK
  <2>6. astray' \subseteq Instance
    <3>1. astray' \in {astray, astray \union (IF proc'[at] = Off THEN {} ELSE {at})}
      BY <1>2, Zenon DEF RemoveManaged
    <3> QED BY <2>1, <3>1, TurnType DEF TypeOK
  <2> QED BY <1>2, <2>2, <2>3, <2>4, <2>5, <2>6 DEF RemoveManaged, TypeOK, db, kio
<1>3. CASE Release
  <2>1. pc # "idle" /\ Go("settle")
    BY <1>3 DEF Release
  <2>2. /\ seen' \in [Instance -> Listed \union {None}]
        /\ at' \in Instance \union {None} /\ pc' \in Pc
        /\ (at' = None) = (pc' = "idle") /\ (at' # None => seen'[at'] # None)
    BY <2>1, GoType DEF Pc
  <2>3. lock' \in [Group -> Instance \union {None}] /\ left' \in Nat
    BY <1>3, EventType DEF Release, ReleaseLocksForInstance, TypeOK
  <2> QED BY <1>3, <2>2, <2>3 DEF Release, TypeOK, disk, kio
<1>4. CASE Settle
  <2>1. at \in Instance /\ Done
    BY <1>4, TurnType DEF Settle
  <2>2. row' \in [Instance -> Row] /\ lock' \in [Group -> Instance \union {None}]
    <3>1. CASE DeleteInstance(at) BY <2>1, <3>1, DeleteType
    <3>2. CASE UNCHANGED db BY <3>2 DEF TypeOK, db
    <3>3. CASE SetObserved(at, "stopped") /\ UNCHANGED lock
      BY <2>1, <3>3, ObservedType DEF TypeOK
    <3> QED BY <1>4, <3>1, <3>2, <3>3 DEF Settle
  <2>3. left' \in Nat
    BY <1>4, EventType DEF Settle, TypeOK
  <2> QED BY <1>4, <2>1, <2>2, <2>3, DoneType DEF Settle, TypeOK, disk, kio
<1> QED BY <1>1, <1>2, <1>3, <1>4

\* A request.
LEMMA RequestStep == ASSUME TypeOK, Request PROVE TypeOK'
<1> PICK i \in Instance :
      \/ \E cfg \in Config : Upsert(i, cfg)
      \/ \E want \in Desired : SetState(i, want)
      \/ HardDelete(i)
  BY DEF Request
<1>1. ASSUME NEW cfg \in Config, Upsert(i, cfg) PROVE TypeOK'
  <2>1. [there |-> TRUE, want |-> "installed", cfg |-> cfg, obs |-> row[i].obs] \in Row
    BY DEF TypeOK, Row, Desired
  <2>2. row' \in [Instance -> Row] /\ left' \in Nat
    BY <1>1, <2>1, EventType DEF Upsert, TypeOK
  <2>3. astray' \subseteq Instance
    <3>1. astray' \in {astray, astray \union {i}}
      BY <1>1, Zenon DEF Upsert
    <3> QED BY <3>1 DEF TypeOK
  <2> QED BY <1>1, <2>2, <2>3 DEF Upsert, TypeOK, disk, kio, turn
<1>2. ASSUME NEW want \in Desired, SetState(i, want) PROVE TypeOK'
  <2>1. row' \in [Instance -> Row] /\ left' \in Nat
    <3>1. row' = [row EXCEPT ![i].want = want] /\ Event
      BY <1>2 DEF SetState
    <3>2. [row EXCEPT ![i].want = want] \in [Instance -> Row]
      BY DEF TypeOK, Row
    <3> QED BY <3>1, <3>2, EventType
  <2> QED BY <1>2, <2>1 DEF SetState, TypeOK, disk, kio, turn
<1>3. CASE HardDelete(i)
  <2>1. row' \in [Instance -> Row] /\ lock' \in [Group -> Instance \union {None}]
    BY <1>3, DeleteType DEF HardDelete
  <2>2. astray' \subseteq Instance /\ left' \in Nat
    <3>1. astray' \in {astray, astray \union {i}}
      BY <1>3, Zenon DEF HardDelete
    <3> QED BY <1>3, <3>1, EventType DEF HardDelete, TypeOK
  <2> QED BY <1>3, <2>1, <2>2 DEF HardDelete, TypeOK, disk, kio, turn
<1> QED BY <1>1, <1>2, <1>3

\* A step of anybody else.
LEMMA OtherStep ==
    ASSUME TypeOK,
           TogglePower \/ AgentRestarts \/ \E i \in Instance : ServiceDies(i)
    PROVE  TypeOK'
<1>1. CASE TogglePower
  <2>1. sudo' \in BOOLEAN /\ left' \in Nat
    <3>1. sudo' = ~sudo /\ Event
      BY <1>1 DEF TogglePower
    <3>2. sudo' \in BOOLEAN
      BY <3>1, Zenon
    <3> QED BY <3>1, <3>2, EventType
  <2> QED BY <1>1, <2>1 DEF TogglePower, TypeOK, db, disk, kio, turn
<1>2. CASE AgentRestarts
  <2>1. half' \subseteq Instance
    <3>1. at \in Instance
      BY <1>2, TurnType DEF AgentRestarts
    <3>2. half' \in {half, half \union {at}}
      BY <1>2, Zenon DEF AgentRestarts
    <3> QED BY <3>1, <3>2 DEF TypeOK
  <2>2. left' \in Nat /\ pc' \in Pc /\ pc' = "idle" /\ at' = None /\ changed' \in BOOLEAN
    BY <1>2, EventType DEF AgentRestarts, Pc
  <2>3. seen' \in [Instance -> Listed \union {None}]
    BY <1>2 DEF AgentRestarts
  <2> QED BY <1>2, <2>1, <2>2, <2>3 DEF AgentRestarts, TypeOK, db, disk, kio
<1>3. ASSUME NEW i \in Instance, ServiceDies(i) PROVE TypeOK'
  <2>1. proc' \in [Instance -> Service \union {Off}] /\ left' \in Nat
    BY <1>3, EventType DEF ServiceDies, TypeOK
  <2> QED BY <1>3, <2>1 DEF ServiceDies, TypeOK, db, disk, kio, turn
<1> QED BY <1>1, <1>2, <1>3

\* Every step keeps the types.
LEMMA TypeStep == ASSUME TypeOK, [Next]_vars PROVE TypeOK'
<1>1. CASE Pass
  BY <1>1, TurnStep, ManagedStep, KioskStep, RemoveStep DEF Pass
<1>2. CASE Request
  BY <1>2, RequestStep
<1>3. CASE TogglePower \/ AgentRestarts \/ \E i \in Instance : ServiceDies(i)
  BY <1>3, OtherStep
<1>4. CASE UNCHANGED vars
  BY <1>4 DEF TypeOK, vars, db, disk, kio, turn
<1> QED BY <1>1, <1>2, <1>3, <1>4 DEF Next

\* The variables of the pass, the driver and the helper keep their types: in
\* particular a turn always has a listed row, and the recorded display manager
\* is one the helper can restore.
THEOREM TypeCorrect == Spec => []TypeOK
<1>1. Init => TypeOK BY InitType
<1>2. TypeOK /\ [Next]_vars => TypeOK' BY TypeStep
<1> QED BY <1>1, <1>2, PTL DEF Spec

-----------------------------------------------------------------------------
(* The desktop.                                                            *)

\* Only the kiosk steps touch the display manager and its record.
LEMMA DesktopStep == ASSUME TypeOK, DesktopRecorded, [Next]_vars PROVE DesktopRecorded'
<1>1. CASE ApplyKiosk
  <2>1. desk /\ ~StoppedDM => SnapshotDM = "dm" \/ unrestored
    BY DEF TypeOK, DesktopRecorded, SnapshotDM, StoppedDM
  <2>2. desk /\ ~dm => SnapshotDM = "dm" \/ unrestored
    BY DEF TypeOK, DesktopRecorded, SnapshotDM
  <2> HIDE DEF SnapshotDM, StoppedDM
  <2>3. /\ UNCHANGED <<desk, unrestored>>
        /\ \/ snap' = SnapshotDM /\ dm' = StoppedDM
           \/ snap' = SnapshotDM /\ dm' = dm
           \/ snap' = snap /\ dm' = dm
    BY <1>1, Zenon DEF ApplyKiosk, kio
  <2> QED BY <2>1, <2>2, <2>3 DEF DesktopRecorded
<1>2. CASE RemoveKiosk
  <2>1. desk /\ ~unrestored => RestoredDM
    BY DEF TypeOK, DesktopRecorded, RestoredDM
  <2>2. dm => RestoredDM
    BY DEF RestoredDM
  <2>3. RestoredDM \in BOOLEAN /\ dm \in BOOLEAN /\ unrestored \in BOOLEAN
    BY DEF TypeOK, RestoredDM
  <2> HIDE DEF RestoredDM
  <2>4. /\ desk' = desk /\ dm' \in {dm, RestoredDM}
        /\ \/ snap' = snap /\ unrestored' = unrestored
           \/ unrestored' = (unrestored \/ (dm' # RestoredDM /\ snap' = "nofile"))
        /\ snap' \in {snap, "nofile"}
    BY <1>2, Zenon DEF RemoveKiosk, kio
  <2>5. CASE snap' = snap
    BY <2>1, <2>2, <2>3, <2>4, <2>5 DEF DesktopRecorded
  <2>6. CASE snap' = "nofile" /\ snap' # snap
    BY <2>1, <2>2, <2>3, <2>4, <2>6 DEF DesktopRecorded
  <2> QED BY <2>4, <2>5, <2>6
<1>3. CASE UNCHANGED <<dm, desk, snap, unrestored>>
  BY <1>3 DEF DesktopRecorded
<1>4. ApplyKiosk \/ RemoveKiosk \/ UNCHANGED <<dm, desk, snap, unrestored>>
  BY DEF Next, Pass, Managed, Request, PassBegin, Turn, Skip, TryAcquireLock, InsertLock,
     EnsureManagedBinary, ExtractManagedTgz, WriteFiles, InstallUnit, Restart,
     ApplyHost, Observe, RemoveManaged, Release, Settle, Upsert, SetState,
     HardDelete, TogglePower, ServiceDies, AgentRestarts, kio, vars
<1> QED BY <1>1, <1>2, <1>3, <1>4

\* The desktop that a kiosk stood down is on record until it is back, through any
\* sequence of enables and disables that fail half way, unless systemd refused to
\* enable it and the record was dropped all the same.
THEOREM DesktopIsRecorded == Spec => []DesktopRecorded
<1>1. Init => DesktopRecorded
  BY DEF Init, DesktopRecorded
<1>2. TypeOK /\ DesktopRecorded /\ [Next]_vars => DesktopRecorded'
  BY DesktopStep
<1> QED BY <1>1, <1>2, TypeCorrect, PTL DEF Spec

-----------------------------------------------------------------------------
(* Who owns what runs.                                                     *)

\* What is up of an instance that did not go astray belongs to its row, is of the
\* row's kind, and holds the lock of its group.
Mine(i) ==
    /\ seen[i] # None => /\ row[i].there
                         /\ (seen[i].cfg.flavor = "kiosk") = (row[i].cfg.flavor = "kiosk")
    /\ kiosk.by = i => row[i].there /\ row[i].cfg.flavor = "kiosk"
    /\ proc[i] # Off \/ unit[i] # None => row[i].there /\ row[i].cfg.flavor # "kiosk"
    /\ \A g \in Group : Uses(i, g) => lock[g] = i

\* Where the turn is tells what it may rely on: the flavor, the lock, and after
\* Remove that nothing is up.
TurnInv ==
    /\ pc \in {"extract", "files", "install", "restart"} => config.flavor = "managed"
    /\ at \notin astray =>
         /\ pc \in {"apply", "extract", "files", "install", "restart"} /\ config.group # None
              => lock[config.group] = at
         /\ pc \in {"release", "settle"}
              => unit[at] = None /\ proc[at] = Off /\ kiosk.by # at

OwnerInv == (\A i \in Instance \ astray : Mine(i)) /\ TurnInv

\* No row, lock or snapshot changes but in what is forgotten, and nothing of the
\* instance starts.
Calm(i) ==
    /\ row'[i].there = row[i].there /\ row'[i].cfg = row[i].cfg
    /\ seen'[i] \in {seen[i], None}
    /\ kiosk' \in {kiosk, NoKiosk} /\ proc'[i] \in {proc[i], Off}
    /\ unit'[i] \in {unit[i], None} /\ lock' = lock

\* Such a step keeps the instance's own.
LEMMA CalmMine ==
    ASSUME NEW i \in Instance, Mine(i), Calm(i) PROVE Mine(i)'
<1>1. kiosk'.by = i => kiosk' = kiosk
  BY ConfigAssumption DEF Calm, NoKiosk
<1>2. proc'[i] # Off => proc'[i] = proc[i]
  BY DEF Calm
<1>3. ASSUME NEW g \in Group, Uses(i, g)' PROVE Uses(i, g)
  BY <1>1, <1>2, <1>3 DEF Uses
<1> QED BY <1>1, <1>2, <1>3 DEF Mine, Calm

\* The observed state is no part of it.
LEMMA ObservedCalm ==
    ASSUME TypeOK, NEW i \in Instance, NEW j \in Instance, NEW s, SetObserved(j, s)
    PROVE  row'[i].there = row[i].there /\ row'[i].cfg = row[i].cfg
<1>1. row' = row \/ row' = [row EXCEPT ![j].obs = s]
  BY Zenon DEF SetObserved
<1>2. CASE row' = [row EXCEPT ![j].obs = s]
  BY <1>2 DEF TypeOK, Row
<1> QED BY <1>1, <1>2

\* Most steps are calm.
LEMMA CalmSteps ==
    ASSUME TypeOK, NEW i \in Instance,
           \/ (\E j \in Instance : Turn(j) \/ Skip(j))
           \/ TryAcquireLock \/ Observe
           \/ EnsureManagedBinary \/ ExtractManagedTgz \/ WriteFiles
           \/ ApplyHost \/ RemoveKiosk \/ RemoveManaged
           \/ \E j \in Instance, want \in Desired : SetState(j, want)
           \/ TogglePower \/ AgentRestarts
           \/ \E j \in Instance : ServiceDies(j)
           \/ UNCHANGED vars
    PROVE  Calm(i) /\ astray \subseteq astray'
<1>1. ASSUME NEW j \in Instance, Turn(j) PROVE Calm(i) /\ astray \subseteq astray'
  BY <1>1 DEF Turn, Calm, db, disk, kio
<1>2. CASE TryAcquireLock
  BY <1>2 DEF TryAcquireLock, Go, Calm, db, disk, kio
<1>3. CASE Observe
  <2>1. row'[i].there = row[i].there /\ row'[i].cfg = row[i].cfg
    BY <1>3, ObservedCalm, TurnType DEF Observe
  <2>2. seen'[i] \in {seen[i], None}
    BY <1>3 DEF Observe, Done, TypeOK
  <2> QED BY <1>3, <2>1, <2>2 DEF Observe, Calm, disk, kio
<1>4. CASE EnsureManagedBinary \/ ExtractManagedTgz \/ WriteFiles
  BY <1>4 DEF EnsureManagedBinary, ExtractManagedTgz, WriteFiles, Go, Fail, FailHalf,
     Calm, db, kio
<1>5. CASE ApplyHost
  BY <1>5 DEF ApplyHost, Fail, Calm, db, disk, kio
<1>6. CASE RemoveKiosk
  <2>1. seen'[i] \in {seen[i], None}
    BY <1>6 DEF RemoveKiosk, Go, Done, TypeOK
  <2>2. kiosk' \in {kiosk, NoKiosk}
    BY <1>6, Zenon DEF RemoveKiosk, kio
  <2> QED BY <1>6, <2>1, <2>2 DEF RemoveKiosk, Calm, db, disk
<1>7. CASE RemoveManaged
  <2>1. seen'[i] \in {seen[i], None}
    BY <1>7 DEF RemoveManaged, Go, Done, TypeOK
  <2>2. proc'[i] \in {proc[i], Off}
    <3>1. proc' \in {proc, [proc EXCEPT ![at] = Off]}
      BY <1>7, Zenon DEF RemoveManaged
    <3> HIDE DEF Off
    <3> QED BY <3>1 DEF TypeOK
  <2>3. unit'[i] \in {unit[i], None}
    BY <1>7 DEF RemoveManaged, TypeOK
  <2> QED BY <1>7, <2>1, <2>2, <2>3 DEF RemoveManaged, Calm, db, kio
<1>8. ASSUME NEW j \in Instance, NEW want \in Desired, SetState(j, want)
      PROVE  Calm(i) /\ astray \subseteq astray'
  <2>1. row' = [row EXCEPT ![j].want = want]
    BY <1>8 DEF SetState
  <2>2. row'[i].there = row[i].there /\ row'[i].cfg = row[i].cfg
    BY <2>1 DEF TypeOK, Row
  <2> QED BY <1>8, <2>2 DEF SetState, Calm, disk, kio, turn
<1>9. CASE TogglePower
  BY <1>9 DEF TogglePower, Calm, db, disk, kio, turn
<1>10. CASE AgentRestarts
  BY <1>10 DEF AgentRestarts, Calm, db, disk, kio
<1>11. ASSUME NEW j \in Instance, ServiceDies(j) PROVE Calm(i) /\ astray \subseteq astray'
  <2>1. proc'[i] \in {proc[i], Off}
    <3> HIDE DEF Off
    <3> QED BY <1>11 DEF ServiceDies, TypeOK
  <2> QED BY <1>11, <2>1 DEF ServiceDies, Calm, db, disk, kio, turn
<1>12. CASE UNCHANGED vars
  BY <1>12 DEF vars, Calm, db, disk, kio, turn
<1>13. ASSUME NEW j \in Instance, Skip(j) PROVE Calm(i) /\ astray \subseteq astray'
  BY <1>13 DEF Skip, TypeOK, Calm, db, disk, kio
<1> QED
  BY <1>1, <1>2, <1>3, <1>4, <1>5, <1>6, <1>7, <1>8, <1>9, <1>10, <1>11, <1>12, <1>13

\* The steps that list, lock, install and start.
LEMMA StartMine ==
    ASSUME TypeOK, OwnerInv, NEW i \in Instance \ astray,
           \/ PassBegin \/ InsertLock \/ InstallUnit \/ Restart \/ ApplyKiosk
    PROVE  Mine(i)' /\ astray' = astray
<1>0. Mine(i)
  BY DEF OwnerInv
<1>1. CASE PassBegin
  <2>1. seen'[i] # None =>
          row[i].there /\ seen'[i] = [want |-> row[i].want, cfg |-> row[i].cfg]
    BY <1>1 DEF PassBegin
  <2>2. UNCHANGED <<row, lock, unit, proc, kiosk, astray>>
    BY <1>1 DEF PassBegin, db, disk, kio
  <2> QED BY <1>0, <2>1, <2>2 DEF Mine, Uses
<1>2. CASE InsertLock
  <2>1. UNCHANGED <<row, seen, unit, proc, kiosk, astray>>
    BY <1>2 DEF InsertLock, Go, disk, kio
  <2>2. ASSUME NEW g \in Group, lock[g] = i PROVE lock'[g] = i
    <3>1. \/ lock' = lock
          \/ lock[config.group] = None /\ lock' = [lock EXCEPT ![config.group] = at]
      BY <1>2, Zenon DEF InsertLock
    <3> QED BY <2>2, <3>1, ConfigAssumption DEF TypeOK
  <2> QED BY <1>0, <2>1, <2>2 DEF Mine, Uses
<1>3. CASE InstallUnit
  <2>1. UNCHANGED <<row, seen, lock, proc, kiosk, astray>>
    BY <1>3 DEF InstallUnit, Go, FailHalf, Fail, db, kio
  <2>2. unit'[i] # None => unit[i] # None \/ i = at
    BY <1>3 DEF InstallUnit, TypeOK
  <2>3. i = at => row[i].there /\ row[i].cfg.flavor # "kiosk"
    <3>1. config.flavor = "managed" /\ seen[at] # None
      BY <1>3, TurnType DEF OwnerInv, TurnInv, InstallUnit
    <3> QED BY <1>0, <3>1 DEF Mine, config
  <2> QED BY <1>0, <2>1, <2>2, <2>3 DEF Mine, Uses
<1>4. CASE Restart
  <2>1. UNCHANGED <<row, seen, lock, unit, kiosk, astray>>
    BY <1>4 DEF Restart, Go, FailHalf, Fail, db, disk, kio
  <2>2. \/ proc'[i] \in {proc[i], Off}
        \/ i = at /\ proc'[i].group = config.group
    <3>1. \/ proc' \in {proc, [proc EXCEPT ![at] = Off]}
          \/ proc' = [proc EXCEPT ![at] = [bin |-> config.bin, files |-> config.files,
                                            group |-> config.group]]
      BY <1>4, Zenon DEF Restart
    <3> HIDE DEF Off, config
    <3> QED BY <3>1 DEF TypeOK
  <2>3. CASE proc'[i] \in {proc[i], Off}
    BY <1>0, <2>1, <2>3, CalmMine DEF Calm
  <2>4. CASE i = at /\ proc'[i].group = config.group
    <3>1. config.flavor = "managed" /\ seen[at] # None
      BY <1>4, TurnType DEF OwnerInv, TurnInv, Restart
    <3>2. row[i].there /\ row[i].cfg.flavor # "kiosk" /\ kiosk.by # i
      BY <1>0, <2>4, <3>1 DEF Mine, config
    <3>3. config.group # None => lock[config.group] = i
      BY <1>4, <2>4 DEF OwnerInv, TurnInv, Restart
    <3>4. ASSUME NEW g \in Group, Uses(i, g)' PROVE lock'[g] = i
      BY <2>1, <2>4, <3>2, <3>3, <3>4, ConfigAssumption DEF Uses
    <3> QED BY <1>0, <2>1, <3>2, <3>4 DEF Mine
  <2> QED BY <2>1, <2>2, <2>3, <2>4
<1>5. CASE ApplyKiosk
  <2>1. UNCHANGED <<row, seen, lock, unit, proc, astray>>
    BY <1>5 DEF ApplyKiosk, Go, Fail, db, disk
  <2>2. kiosk' \in {kiosk, NoKiosk} \/ kiosk' = [by |-> at, group |-> config.group]
    BY <1>5, Zenon DEF ApplyKiosk, kio
  <2>3. CASE kiosk' \in {kiosk, NoKiosk}
    BY <1>0, <2>1, <2>3, CalmMine DEF Calm
  <2>4. CASE kiosk' = [by |-> at, group |-> config.group]
    <3>1. kiosk'.by = at /\ kiosk'.group = config.group
      BY <2>4
    <3>2. i = at => row[i].there /\ row[i].cfg.flavor = "kiosk"
      BY <1>0, <1>5, TurnType DEF ApplyKiosk, Mine, config
    <3>3. i = at /\ config.group # None => lock[config.group] = i
      BY <1>5 DEF OwnerInv, TurnInv, ApplyKiosk
    <3>4. ASSUME NEW g \in Group, Uses(i, g)' PROVE lock'[g] = i
      <4>1. CASE proc[i] # Off /\ proc[i].group = g
        BY <1>0, <2>1, <4>1 DEF Mine, Uses
      <4>2. CASE at = i /\ config.group = g
        BY <2>1, <3>3, <4>2, ConfigAssumption
      <4> QED BY <2>1, <3>1, <3>4, <4>1, <4>2 DEF Uses
    <3> QED BY <1>0, <2>1, <3>1, <3>2, <3>4 DEF Mine
  <2> QED BY <2>1, <2>2, <2>3, <2>4
<1> QED BY <1>1, <1>2, <1>3, <1>4, <1>5

\* The steps that give a lock or a row up.
LEMMA EndMine ==
    ASSUME TypeOK, OwnerInv, NEW i \in Instance \ astray, Release \/ Settle
    PROVE  Mine(i)' /\ astray' = astray
<1>0. Mine(i) /\ at \in Instance
  BY TurnType DEF OwnerInv, Release, Settle
<1>1. i = at => unit[i] = None /\ proc[i] = Off /\ kiosk.by # i
  BY DEF OwnerInv, TurnInv, Release, Settle
<1>2. UNCHANGED <<unit, proc, kiosk, astray>>
  BY DEF Release, Settle, disk, kio
<1>3. CASE Release
  <2>1. UNCHANGED <<row, seen>>
    BY <1>3 DEF Release, Go
  <2>2. ASSUME NEW g \in Group, i # at, lock[g] = i PROVE lock'[g] = i
    BY <1>3, <2>2 DEF Release, ReleaseLocksForInstance
  <2> QED BY <1>0, <1>1, <1>2, <2>1, <2>2 DEF Mine, Uses
<1>4. CASE Settle
  <2>1. seen'[i] = (IF i = at THEN None ELSE seen[i])
    BY <1>4 DEF Settle, Done, TypeOK
  <2>2. CASE DeleteInstance(at)
    <3>1. i # at => row'[i] = row[i]
      BY <2>2 DEF DeleteInstance, TypeOK
    <3>2. ASSUME NEW g \in Group, i # at, lock[g] = i PROVE lock'[g] = i
      BY <2>2, <3>2 DEF DeleteInstance
    <3> QED BY <1>0, <1>1, <1>2, <2>1, <3>1, <3>2 DEF Mine, Uses
  <2>3. CASE UNCHANGED db
    BY <1>0, <1>2, <2>1, <2>3, CalmMine DEF Calm, db
  <2>4. CASE SetObserved(at, "stopped") /\ UNCHANGED lock
    <3>1. row'[i].there = row[i].there /\ row'[i].cfg = row[i].cfg
      BY <1>0, <2>4, ObservedCalm
    <3> QED BY <1>0, <1>2, <2>1, <2>4, <3>1, CalmMine DEF Calm
  <2> QED BY <1>2, <1>4, <2>2, <2>3, <2>4 DEF Settle
<1> QED BY <1>3, <1>4

\* The requests that replace or delete a row.
LEMMA RequestMine ==
    ASSUME TypeOK, OwnerInv, NEW j \in Instance,
           (\E cfg \in Config : Upsert(j, cfg)) \/ HardDelete(j),
           NEW i \in Instance \ astray'
    PROVE  i \notin astray /\ Mine(i)'
<1>0. i \notin astray /\ Mine(i)
  <2>1. astray \subseteq astray'
    <3>1. astray' \in {astray, astray \union {j}}
      BY Zenon DEF Upsert, HardDelete
    <3> QED BY <3>1
  <2> QED BY <2>1 DEF OwnerInv
<1>1. ASSUME NEW cfg \in Config, Upsert(j, cfg) PROVE Mine(i)'
  <2>1. UNCHANGED <<lock, unit, proc, kiosk, seen>>
    BY <1>1 DEF Upsert, disk, kio, turn
  <2>2. CASE i # j
    <3>1. row'[i] = row[i]
      BY <1>1, <2>2 DEF Upsert, TypeOK
    <3> QED BY <1>0, <2>1, <3>1 DEF Mine, Uses
  <2>3. CASE i = j
    <3>1. row'[i].there /\ row'[i].cfg = cfg
      BY <1>1, <2>3 DEF Upsert, TypeOK
    <3>2. Up(i) => (cfg.flavor = "kiosk") = (row[i].cfg.flavor = "kiosk")
      BY <1>1, <2>3 DEF Upsert
    <3>3. /\ seen[i] # None => Up(i)
          /\ kiosk.by = i => Up(i)
          /\ proc[i] # Off \/ unit[i] # None => Up(i)
      BY DEF Up
    <3>4. /\ seen[i] # None =>
               (seen[i].cfg.flavor = "kiosk") = (row[i].cfg.flavor = "kiosk")
          /\ kiosk.by = i => row[i].cfg.flavor = "kiosk"
          /\ proc[i] # Off \/ unit[i] # None => row[i].cfg.flavor # "kiosk"
          /\ \A g \in Group : Uses(i, g) => lock[g] = i
      BY <1>0 DEF Mine
    <3> HIDE DEF Up, Off
    <3>5. \A g \in Group : Uses(i, g)' => lock'[g] = i
      BY <2>1, <3>4 DEF Uses
    <3> QED BY <2>1, <3>1, <3>2, <3>3, <3>4, <3>5 DEF Mine
  <2> QED BY <2>2, <2>3
<1>2. CASE HardDelete(j)
  <2>1. UNCHANGED <<unit, proc, kiosk, seen>> /\ DeleteInstance(j)
    BY <1>2 DEF HardDelete, disk, kio, turn
  <2>2. CASE i # j
    <3>1. row'[i] = row[i]
      BY <2>1, <2>2 DEF DeleteInstance, TypeOK
    <3>2. ASSUME NEW g \in Group, lock[g] = i PROVE lock'[g] = i
      BY <2>1, <2>2, <3>2 DEF DeleteInstance
    <3> QED BY <1>0, <2>1, <3>1, <3>2 DEF Mine, Uses
  <2>3. CASE i = j
    <3>1. ~Up(i)
      BY <1>2, <2>3 DEF HardDelete
    <3>2. seen[i] = None /\ kiosk.by # i /\ proc[i] = Off /\ unit[i] = None
      BY <3>1 DEF Up
    <3> QED BY <1>0, <2>1, <3>2 DEF Mine, Uses
  <2> QED BY <2>2, <2>3
<1> QED BY <1>0, <1>1, <1>2

\* Where the turn does not move on to a place that relies on something.
LEMMA TurnAnew ==
    ASSUME pc' \in {"idle", "lock", "insert", "observe", "error", "remove"}
    PROVE  TurnInv'
BY DEF TurnInv

\* A step of somebody else while the turn stays where it is.
LEMMA TurnStays ==
    ASSUME TypeOK, TurnInv, UNCHANGED <<pc, at, seen>>,
           \A g \in Group : lock[g] = at /\ at \notin astray' => lock'[g] = at,
           astray \subseteq astray',
           pc # "idle" => Calm(at) \/ UNCHANGED <<unit, proc, kiosk>>
    PROVE  TurnInv'
<1>1. CASE pc = "idle"
  BY <1>1, TurnAnew
<1>2. CASE pc # "idle"
  <2>1. at \in Instance /\ config \in Config /\ config' = config
    BY <1>2, TurnType DEF config
  <2>2. config.group # None => config.group \in Group
    BY <2>1, ConfigType
  <2>3. proc[at] = Off => proc'[at] = Off
    BY <1>2 DEF Calm
  <2>4. unit[at] = None => unit'[at] = None
    BY <1>2 DEF Calm
  <2>5. kiosk.by # at => kiosk'.by # at
    BY <1>2, <2>1, ConfigAssumption DEF Calm, NoKiosk
  <2> HIDE DEF Off
  <2> QED BY <2>1, <2>2, <2>3, <2>4, <2>5 DEF TurnInv
<1> QED BY <1>1, <1>2

\* Every step of the pass and of the others keeps what the turn relies on.
LEMMA TurnInvStep == ASSUME TypeOK, OwnerInv, [Next]_vars PROVE TurnInv'
<1>0. TurnInv /\ \A i \in Instance \ astray : Mine(i)
  BY DEF OwnerInv
<1>1. CASE PassBegin \/ (\E i \in Instance : Skip(i)) \/ (TryAcquireLock /\ pc' # "apply") \/ Observe \/ Settle
           \/ ApplyKiosk \/ ApplyHost \/ AgentRestarts \/ Restart
  BY <1>1, TurnAnew DEF PassBegin, Skip, TryAcquireLock, Observe, Settle, ApplyKiosk,
     ApplyHost, AgentRestarts, Restart, Go, Fail, FailHalf, Done
<1>2. ASSUME NEW i \in Instance, Turn(i) PROVE TurnInv'
  <2>1. CASE pc' # "apply"
    BY <1>2, <2>1, TurnAnew DEF Turn
  <2>2. CASE pc' = "apply"
    <3>1. seen[i].cfg.group = None /\ at' = i /\ seen' = seen
      BY <1>2, <2>2 DEF Turn
    <3> QED BY <2>2, <3>1 DEF TurnInv, config
  <2> QED BY <2>1, <2>2
<1>3. CASE TryAcquireLock /\ pc' = "apply"
  <2>1. at' = at /\ seen' = seen /\ lock' = lock /\ lock[config.group] = at
    <3>1. at # None
      BY <1>3, TurnType, ConfigAssumption DEF TryAcquireLock
    <3> QED BY <1>3, <3>1 DEF TryAcquireLock, Go, db
  <2> QED BY <1>3, <2>1 DEF TurnInv, config
<1>4. CASE InsertLock
  <2>1. CASE pc' = "error"
    BY <2>1, TurnAnew
  <2>2. CASE pc' = "apply"
    <3>1. /\ at' = at /\ seen' = seen
          /\ lock' = [lock EXCEPT ![config.group] = at]
      BY <1>4, <2>2 DEF InsertLock, Go
    <3>2. config.group # None => config.group \in Group
      BY <1>4, TurnType, ConfigType DEF InsertLock
    <3>3. config.group # None => lock'[config.group] = at
      BY <3>1, <3>2 DEF TypeOK
    <3> QED BY <2>2, <3>1, <3>3 DEF TurnInv, config
  <2> QED BY <1>4, <2>1, <2>2 DEF InsertLock, Go
<1>5. CASE EnsureManagedBinary \/ ExtractManagedTgz \/ WriteFiles \/ InstallUnit
  <2>1. CASE pc' = "error"
    BY <2>1, TurnAnew
  <2>2. CASE pc' \in {"extract", "files", "install", "restart"}
    <3>1. at' = at /\ seen' = seen /\ lock' = lock /\ astray' = astray
      BY <1>5 DEF EnsureManagedBinary, ExtractManagedTgz, WriteFiles, InstallUnit, Go,
         Fail, FailHalf, db
    <3>2. config.flavor = "managed"
      BY <1>0, <1>5 DEF TurnInv, EnsureManagedBinary, ExtractManagedTgz, WriteFiles,
         InstallUnit
    <3>3. at \notin astray /\ config.group # None => lock[config.group] = at
      BY <1>0, <1>5 DEF TurnInv, EnsureManagedBinary, ExtractManagedTgz, WriteFiles,
         InstallUnit
    <3> QED BY <2>2, <3>1, <3>2, <3>3 DEF TurnInv, config
  <2> QED BY <1>5, <2>1, <2>2 DEF EnsureManagedBinary, ExtractManagedTgz, WriteFiles,
        InstallUnit, Go, Fail, FailHalf
<1>6. CASE RemoveKiosk \/ RemoveManaged
  <2>1. CASE pc' = "idle"
    BY <2>1, TurnAnew
  <2>2. CASE pc' = "release"
    <3>1. at' = at /\ astray \subseteq astray'
      BY <1>6, <2>2 DEF RemoveKiosk, RemoveManaged, Go, Done
    <3>2. at \in Instance /\ seen[at] # None
      BY <1>6, TurnType DEF RemoveKiosk, RemoveManaged
    <3>3. ASSUME at \notin astray'
          PROVE  unit'[at] = None /\ proc'[at] = Off /\ kiosk'.by # at
      <4>1. Mine(at)
        BY <1>0, <3>1, <3>2, <3>3
      <4>2. CASE RemoveKiosk
        <5>1. kiosk'.by # at /\ UNCHANGED <<unit, proc>>
          BY <2>2, <3>3, <4>2 DEF RemoveKiosk, Done, disk
        <5>2. row[at].cfg.flavor = "kiosk"
          BY <3>2, <4>1, <4>2 DEF RemoveKiosk, DetectFlavor, Mine, config
        <5> QED BY <3>2, <4>1, <5>1, <5>2 DEF Mine
      <4>3. CASE RemoveManaged
        <5>1. /\ proc'[at] = Off /\ unit' = [unit EXCEPT ![at] = None]
              /\ kiosk' = kiosk
          BY <2>2, <3>3, <4>3 DEF RemoveManaged, Done, kio
        <5>2. row[at].cfg.flavor # "kiosk"
          BY <3>2, <4>1, <4>3 DEF RemoveManaged, DetectFlavor, Mine, config
        <5> HIDE DEF Off
        <5> QED BY <3>2, <4>1, <5>1, <5>2 DEF Mine, TypeOK
      <4> QED BY <1>6, <4>2, <4>3
    <3> QED BY <2>2, <3>1, <3>3 DEF TurnInv
  <2> QED BY <1>6, <2>1, <2>2 DEF RemoveKiosk, RemoveManaged, Go, Done
<1>7. CASE Release
  <2>1. pc' = "settle" /\ at' = at /\ UNCHANGED <<unit, proc, kiosk, astray>>
    BY <1>7 DEF Release, Go, disk, kio
  <2>2. at \notin astray => unit[at] = None /\ proc[at] = Off /\ kiosk.by # at
    BY <1>0, <1>7 DEF Release, TurnInv
  <2> QED BY <2>1, <2>2 DEF TurnInv
<1>8. ASSUME NEW i \in Instance, NEW cfg \in Config, Upsert(i, cfg) PROVE TurnInv'
  <2>1. astray' \in {astray, astray \union {i}}
    BY <1>8, Zenon DEF Upsert
  <2> QED BY <1>0, <1>8, <2>1, TurnStays DEF Upsert, turn, disk, kio
<1>9. ASSUME NEW i \in Instance, HardDelete(i) PROVE TurnInv'
  <2>1. astray' \in {astray, astray \union {i}}
    BY <1>9, Zenon DEF HardDelete
  <2>2. UNCHANGED <<pc, at, seen, unit, proc, kiosk>>
    BY <1>9 DEF HardDelete, turn, disk, kio
  <2>3. ASSUME NEW g \in Group, lock[g] = at, at \notin astray' PROVE lock'[g] = at
    <3>1. CASE at = None
      BY <1>9, <2>3, <3>1 DEF HardDelete, DeleteInstance
    <3>2. CASE at # None
      <4>1. at # i
        <5>1. at = i => Up(i)
          BY <3>2 DEF Up, TypeOK
        <5>2. Up(i) => i \in astray'
          BY <1>9 DEF HardDelete
        <5> QED BY <2>3, <5>1, <5>2
      <4> QED BY <1>9, <2>3, <4>1 DEF HardDelete, DeleteInstance
    <3> QED BY <3>1, <3>2
  <2> QED BY <1>0, <2>1, <2>2, <2>3, TurnStays
<1>10. CASE \/ \E i \in Instance, want \in Desired : SetState(i, want)
            \/ TogglePower \/ UNCHANGED vars
            \/ \E i \in Instance : ServiceDies(i)
  <2>1. UNCHANGED <<pc, at, seen, lock, astray>>
    BY <1>10 DEF SetState, TogglePower, ServiceDies, turn, db, vars
  <2>2. pc # "idle" => Calm(at)
    BY <1>10, CalmSteps, TurnType
  <2> QED BY <1>0, <2>1, <2>2, TurnStays
<1> QED BY <1>1, <1>2, <1>3, <1>4, <1>5, <1>6, <1>7, <1>8, <1>9, <1>10
        DEF Next, Pass, Managed, Request

\* Nothing runs, is listed or is locked at the start.
LEMMA OwnerInit == Init => OwnerInv
<1> SUFFICES ASSUME Init PROVE OwnerInv OBVIOUS
<1>1. TurnInv
  BY DEF Init, TurnInv
<1>2. ASSUME NEW i \in Instance PROVE Mine(i)
  <2>1. seen[i] = None /\ kiosk.by # i /\ proc[i] = Off /\ unit[i] = None
    BY ConfigAssumption DEF Init, NoKiosk
  <2> QED BY <2>1 DEF Mine, Uses
<1> QED BY <1>1, <1>2 DEF OwnerInv

\* Every step keeps it.
LEMMA OwnerStep == ASSUME TypeOK, OwnerInv, [Next]_vars PROVE OwnerInv'
<1>1. TurnInv'
  BY TurnInvStep
<1>2. ASSUME NEW i \in Instance \ astray' PROVE Mine(i)'
  <2>1. CASE \/ PassBegin \/ InsertLock \/ InstallUnit \/ Restart \/ ApplyKiosk
             \/ Release \/ Settle
    <3>1. astray' = astray
      BY <2>1 DEF PassBegin, InsertLock, InstallUnit, Restart, ApplyKiosk, Release, Settle
    <3> QED BY <2>1, <3>1, StartMine, EndMine
  <2>2. CASE \E j \in Instance : (\E cfg \in Config : Upsert(j, cfg)) \/ HardDelete(j)
    BY <2>2, RequestMine
  <2>3. CASE \/ (\E j \in Instance : Turn(j) \/ Skip(j))
             \/ TryAcquireLock \/ Observe
             \/ EnsureManagedBinary \/ ExtractManagedTgz \/ WriteFiles
             \/ ApplyHost \/ RemoveKiosk \/ RemoveManaged
             \/ \E j \in Instance, want \in Desired : SetState(j, want)
             \/ TogglePower \/ AgentRestarts
             \/ \E j \in Instance : ServiceDies(j)
             \/ UNCHANGED vars
    <3>1. Calm(i) /\ astray \subseteq astray'
      BY <2>3, CalmSteps
    <3>2. Mine(i)
      BY <3>1 DEF OwnerInv
    <3> QED BY <3>1, <3>2, CalmMine
  <2> QED BY <2>1, <2>2, <2>3 DEF Next, Pass, Managed, Request
<1> QED BY <1>1, <1>2 DEF OwnerInv

\* The ownership holds throughout.
LEMMA OwnerCorrect == Spec => []OwnerInv
<1>1. Init => OwnerInv BY OwnerInit
<1>2. TypeOK /\ OwnerInv /\ [Next]_vars => OwnerInv' BY OwnerStep
<1> QED BY <1>1, <1>2, TypeCorrect, PTL DEF Spec

\* An instance whose row is gone has left no unit, no process and no session, unless
\* it went astray: by a hard delete, by a change of its kind, or because systemd did
\* not stop it.
THEOREM NothingStaysBehind == Spec => []GoneIsGone
<1>1. OwnerInv => GoneIsGone
  BY DEF OwnerInv, Mine, GoneIsGone
<1> QED BY <1>1, OwnerCorrect, PTL

-----------------------------------------------------------------------------
(* The refinement of ExclusiveUse.                                         *)

\* A group has one user, the holder of its lock.
LEMMA OneUser ==
    ASSUME OwnerInv, NEW g \in Group
    PROVE  \A i \in Users[g] : lock[g] = i
BY DEF OwnerInv, Mine, Users

\* An instance uses one group.
LEMMA OneGroup ==
    ASSUME OwnerInv, NEW g \in Group, NEW h \in Group, NEW i \in Instance,
           i \in Users[g], i \in Users[h]
    PROVE  g = h
<1>1. Mine(i) /\ Uses(i, g) /\ Uses(i, h)
  BY DEF OwnerInv, Users
<1> QED BY <1>1 DEF Mine, Uses

\* Only a restart and a kiosk make somebody a user, and it is the one whose turn
\* it is.
LEMMA NewUser ==
    ASSUME TypeOK, [Next]_vars, NEW g \in Group, NEW i \in Users'[g], i \notin Users[g]
    PROVE  i = at
<1> SUFFICES ASSUME i # at PROVE FALSE OBVIOUS
<1>1. i \in Instance /\ i \notin astray' /\ Uses(i, g)'
  BY DEF Users
<1>2. astray \subseteq astray'
  <2>1. \/ astray' = astray
        \/ \E j : astray' = astray \union j
    BY DEF Next, Pass, Managed, Request, PassBegin, Turn, Skip, TryAcquireLock, InsertLock,
       EnsureManagedBinary, ExtractManagedTgz, WriteFiles, InstallUnit, Restart,
       ApplyKiosk, ApplyHost, Observe, RemoveKiosk, RemoveManaged, Release, Settle,
       Upsert, SetState, HardDelete, TogglePower, ServiceDies, AgentRestarts, vars
  <2> QED BY <2>1
<1>3. ~Uses(i, g)
  BY <1>1, <1>2 DEF Users
<1>4. CASE Calm(i)
  BY <1>1, <1>3, <1>4, ConfigAssumption DEF Calm, Uses, NoKiosk
<1>5. CASE UNCHANGED <<proc, kiosk>>
  BY <1>1, <1>3, <1>5 DEF Uses
<1>6. CASE Restart
  <2>1. kiosk' = kiosk /\ proc'[i] = proc[i]
    <3>1. \E p : proc' = [proc EXCEPT ![at] = p]
      <4>1. proc' = proc \/ \E p : proc' = [proc EXCEPT ![at] = p]
        BY <1>6, Zenon DEF Restart
      <4>2. proc = [proc EXCEPT ![at] = proc[at]]
        BY DEF TypeOK
      <4> QED BY <4>1, <4>2, Zenon
    <3> QED BY <1>1, <1>6, <3>1 DEF Restart, kio, TypeOK
  <2> QED BY <1>1, <1>3, <2>1 DEF Uses
<1>7. CASE ApplyKiosk
  <2>1. kiosk' \in {kiosk, NoKiosk} \/ kiosk' = [by |-> at, group |-> config.group]
    BY <1>7, Zenon DEF ApplyKiosk, kio
  <2>2. kiosk' = kiosk \/ kiosk'.by # i
    BY <1>1, <2>1, ConfigAssumption DEF NoKiosk
  <2> QED BY <1>1, <1>3, <1>7, <2>2 DEF ApplyKiosk, Uses
<1>8. CASE \/ PassBegin \/ InsertLock \/ InstallUnit \/ Release \/ Settle
           \/ \E j \in Instance : (\E cfg \in Config : Upsert(j, cfg)) \/ HardDelete(j)
  BY <1>5, <1>8 DEF PassBegin, InsertLock, InstallUnit, Release, Settle, Upsert,
     HardDelete, kio
<1> QED BY <1>1, <1>4, <1>6, <1>7, <1>8, CalmSteps DEF Next, Pass, Managed, Request

\* Every step is a step of ExclusiveUse, or leaves its variable alone: those stop
\* who are no users any more, and the one whose turn it is may start.
LEMMA ExclusiveStep ==
    ASSUME TypeOK, OwnerInv, OwnerInv', [Next]_vars
    PROVE  [Exclusive!Next]_Users
<1>1. CASE Users' = Users
  BY <1>1
<1>2. ASSUME NEW i \in Instance,
             \A g \in Group : \A j \in Users'[g] : j \in Users[g] \/ j = i
      PROVE  Exclusive!Next
  <2> DEFINE gone == {i} \union {j \in Instance : \A g \in Group : j \notin Users'[g]}
             groups == {g \in Group : i \in Users'[g]}
  <2>1. ASSUME NEW g \in Group, NEW j \in Users[g], j \notin gone
        PROVE  j \in Users'[g]
    <3>1. j \in Instance /\ j # i
      BY <2>1 DEF Users
    <3>2. PICK h \in Group : j \in Users'[h]
      BY <2>1, <3>1
    <3>3. j \in Users[h]
      BY <1>2, <3>1, <3>2
    <3> QED BY <2>1, <3>1, <3>2, <3>3, OneGroup
  <2>2. ASSUME NEW g \in groups PROVE Users[g] \ gone \subseteq {i}
    <3>1. ASSUME NEW j \in Users[g] \ gone PROVE j = i
      <4>1. j \in Users'[g] /\ i \in Users'[g]
        BY <2>1, <3>1
      <4>2. \A k \in Users'[g] : lock'[g] = k
        BY DEF OwnerInv, Mine, Users
      <4> QED BY <4>1, <4>2
    <3> QED BY <3>1
  <2>3. ASSUME NEW g \in Group
        PROVE  Users'[g] = (Users[g] \ gone) \union (IF g \in groups THEN {i} ELSE {})
    <3>1. ASSUME NEW j \in Users'[g]
          PROVE  j \in (Users[g] \ gone) \union (IF g \in groups THEN {i} ELSE {})
      BY <1>2, <3>1
    <3>2. ASSUME NEW j \in (Users[g] \ gone) \union (IF g \in groups THEN {i} ELSE {})
          PROVE  j \in Users'[g]
      BY <2>1, <3>2
    <3> QED BY <3>1, <3>2
  <2>4. Users' = [g \in Group |->
                    (Users[g] \ gone) \union (IF g \in groups THEN {i} ELSE {})]
    <3>1. Users' = [g \in Group |-> Users'[g]]
      BY DEF Users
    <3> QED BY <2>3, <3>1
  <2>5. Exclusive!Change(gone, i, groups)
    BY <2>2, <2>4 DEF Exclusive!Change
  <2>6. gone \in SUBSET Instance /\ groups \in SUBSET Group
    OBVIOUS
  <2> QED BY <2>5, <2>6 DEF Exclusive!Next
<1>3. CASE at \in Instance
  BY <1>2, <1>3, NewUser
<1>4. CASE at \notin Instance /\ Users' # Users
  <2>1. ASSUME NEW g \in Group, NEW j \in Users'[g] PROVE j \in Users[g]
    <3>1. j \in Instance
      BY DEF Users
    <3> QED BY <1>4, <3>1, NewUser
  <2>2. PICK i : i \in Instance
    <3>1. CASE Instance = {}
      <4>1. Users = [g \in Group |-> {}] /\ Users' = [g \in Group |-> {}]
        BY <3>1 DEF Users
      <4> QED BY <1>4, <4>1
    <3> QED BY <3>1
  <2> QED BY <1>2, <2>1, <2>2
<1> QED BY <1>1, <1>3, <1>4

\* The driver and the locks implement exclusive use: whatever fails or restarts,
\* and however groups change, the instances of a group run one at a time.
THEOREM ExclusiveUseHolds == Spec => OneUserPerGroup
<1>1. Init => Exclusive!Init
  <2> SUFFICES ASSUME Init PROVE Users = [g \in Group |-> {}]
    BY DEF Exclusive!Init
  <2>1. ASSUME NEW i \in Instance, NEW g PROVE ~Uses(i, g)
    <3>1. kiosk.by # i /\ proc[i] = Off
      BY ConfigAssumption DEF Init, NoKiosk
    <3> QED BY <3>1 DEF Uses
  <2> QED BY <2>1 DEF Users
<1>2. TypeOK /\ OwnerInv /\ OwnerInv' /\ [Next]_vars => [Exclusive!Next]_Users
  BY ExclusiveStep
<1> QED BY <1>1, <1>2, TypeCorrect, OwnerCorrect, PTL
        DEF Spec, OneUserPerGroup, Exclusive!Spec

-----------------------------------------------------------------------------
(* What is reported installed.                                             *)

\* A service with a unit runs what is on disk, unless a restart for it is due in this
\* turn or was missed in an earlier one.
Fresh(i) ==
    i \notin half /\ proc[i] # Off /\ unit[i] # None
      /\ ~(i = at /\ pc \in {"install", "restart"} /\ changed)
      => proc[i].files = files[i] /\ proc[i].bin = unit[i]

\* What the turn has written.
Written ==
    LET reports == pc = "observe" /\ config.flavor = "managed" IN
    /\ pc \in {"install", "restart"} \/ reports => files[at] = config.files
    /\ pc = "restart" \/ reports => unit[at] = config.bin

ReportInv == (\A i \in Instance : Fresh(i)) /\ Written

\* A step that changes neither the disk nor the services starts no lie, unless it
\* ends a turn with a restart due.
LEMMA FreshFrame ==
    ASSUME NEW i \in Instance, Fresh(i),
           files'[i] = files[i] /\ unit'[i] = unit[i], half \subseteq half',
           proc'[i] \in {proc[i], Off},
           \/ i \in half'
           \/ ~(i = at /\ pc \in {"install", "restart"} /\ changed)
           \/ UNCHANGED <<at, pc, changed>>
    PROVE  Fresh(i)'
<1> HIDE DEF Off
<1> QED BY DEF Fresh

\* The turn is not where Written speaks of.
LEMMA WrittenAnew ==
    ASSUME pc' \notin {"install", "restart", "observe"} PROVE Written'
BY DEF Written

\* Everything but the four steps that write or start.
LEMMA ReportFrame ==
    ASSUME TypeOK, ReportInv,
           \/ PassBegin \/ (\E i \in Instance : Turn(i) \/ Skip(i))
           \/ TryAcquireLock \/ InsertLock \/ EnsureManagedBinary \/ ExtractManagedTgz
           \/ ApplyHost \/ Observe \/ RemoveKiosk \/ Release \/ Settle \/ ApplyKiosk
           \/ Request \/ TogglePower \/ (\E i \in Instance : ServiceDies(i))
           \/ AgentRestarts \/ UNCHANGED vars
    PROVE  ReportInv'
<1>1. /\ UNCHANGED <<files, unit>> /\ half \subseteq half'
      /\ \A i \in Instance : proc'[i] \in {proc[i], Off}
  <2>1. CASE \E i \in Instance : ServiceDies(i)
    <3> HIDE DEF Off
    <3> QED BY <2>1 DEF ServiceDies, disk, TypeOK
  <2>2. CASE AgentRestarts
    BY <2>2 DEF AgentRestarts, disk
  <2>3. CASE UNCHANGED <<files, unit, half, proc>>
    BY <2>3
  <2> QED BY <2>1, <2>2, <2>3 DEF PassBegin, Turn, Skip, TryAcquireLock, InsertLock,
        EnsureManagedBinary, ExtractManagedTgz, ApplyHost, Observe, RemoveKiosk, Release,
        Settle, ApplyKiosk, Request, Upsert, SetState, HardDelete, TogglePower, disk, vars
<1>2. CASE Request \/ TogglePower \/ (\E i \in Instance : ServiceDies(i)) \/ UNCHANGED vars
  <2>1. UNCHANGED <<at, pc, changed, seen>>
    BY <1>2 DEF Request, Upsert, SetState, HardDelete, TogglePower, ServiceDies, turn, vars
  <2>2. ASSUME NEW i \in Instance PROVE Fresh(i)'
    BY <1>1, <2>1, FreshFrame DEF ReportInv
  <2>3. Written'
    BY <1>1, <2>1 DEF ReportInv, Written, config
  <2> QED BY <2>2, <2>3 DEF ReportInv
<1>3. CASE AgentRestarts
  <2>1. ASSUME NEW i \in Instance PROVE Fresh(i)'
    <3>1. i = at /\ pc \in {"install", "restart"} => i \in half'
      BY <1>3 DEF AgentRestarts
    <3> QED BY <1>1, <3>1, FreshFrame DEF ReportInv
  <2>2. Written'
    BY <1>3, WrittenAnew DEF AgentRestarts
  <2> QED BY <2>1, <2>2 DEF ReportInv
<1>4. CASE \/ PassBegin \/ (\E i \in Instance : Turn(i) \/ Skip(i))
           \/ TryAcquireLock \/ InsertLock \/ EnsureManagedBinary \/ ExtractManagedTgz
           \/ ApplyHost \/ Observe \/ RemoveKiosk \/ Release \/ Settle \/ ApplyKiosk
  <2>1. pc \notin {"install", "restart"}
    BY <1>4 DEF PassBegin, Turn, Skip, TryAcquireLock, InsertLock, EnsureManagedBinary,
       ExtractManagedTgz, ApplyHost, Observe, RemoveKiosk, Release, Settle, ApplyKiosk
  <2>2. ASSUME NEW i \in Instance PROVE Fresh(i)'
    BY <1>1, <2>1, FreshFrame DEF ReportInv
  <2>3. CASE ApplyKiosk
    <3>1. config' = config /\ config.flavor = "kiosk" /\ pc' \in {"observe", "error"}
      BY <2>3 DEF ApplyKiosk, Go, Fail, config
    <3>2. Written'
      BY <3>1 DEF Written
    <3> QED BY <2>2, <3>2 DEF ReportInv
  <2>4. CASE ~ApplyKiosk
    <3>1. pc' \notin {"install", "restart", "observe"}
      BY <1>4, <2>4 DEF PassBegin, Turn, Skip, TryAcquireLock, InsertLock, EnsureManagedBinary,
         ExtractManagedTgz, ApplyHost, Observe, RemoveKiosk, Release, Settle, Go, Fail, Done
    <3> QED BY <2>2, <3>1, WrittenAnew DEF ReportInv
  <2> QED BY <2>3, <2>4
<1> QED BY <1>2, <1>3, <1>4

\* Writing files is noticed, or counts as half an Apply.
LEMMA ReportFiles == ASSUME TypeOK, ReportInv, WriteFiles PROVE ReportInv'
<1>1. at \in Instance /\ at' = at /\ seen' = seen /\ UNCHANGED <<unit, proc>> /\ pc = "files"
  BY TurnType DEF WriteFiles, Go, Fail, FailHalf
<1>2. CASE FailHalf
  <2>1. half' = half \union {at} /\ pc' = "error"
    BY <1>2 DEF FailHalf, Fail
  <2>2. ASSUME NEW i \in Instance, i # at PROVE files'[i] = files[i]
    BY <2>2 DEF WriteFiles, TypeOK
  <2>3. ASSUME NEW i \in Instance PROVE Fresh(i)'
    <3>1. CASE i = at BY <2>1, <3>1 DEF Fresh
    <3>2. CASE i # at BY <1>1, <2>1, <2>2, <3>2, FreshFrame DEF ReportInv
    <3> QED BY <3>1, <3>2
  <2> QED BY <2>1, <2>3, WrittenAnew DEF ReportInv
<1>3. CASE Go("install") /\ UNCHANGED half /\ changed' = (files[at] # config.files)
           /\ files' = [files EXCEPT ![at] = config.files]
  <2>1. files'[at] = config.files /\ pc' = "install"
    BY <1>1, <1>3 DEF Go, TypeOK
  <2>2. ASSUME NEW i \in Instance, i # at PROVE files'[i] = files[i]
    BY <1>3, <2>2 DEF TypeOK
  <2>3. ASSUME NEW i \in Instance PROVE Fresh(i)'
    <3>1. CASE i # at
      BY <1>1, <1>3, <2>2, <3>1, FreshFrame DEF ReportInv
    <3>2. CASE i = at /\ changed'
      BY <1>1, <2>1, <3>2 DEF Fresh
    <3>3. CASE i = at /\ ~changed'
      <4>1. files'[i] = files[i]
        BY <1>1, <1>3, <2>1, <3>3
      <4> QED BY <1>1, <1>3, <3>3, <4>1, FreshFrame DEF ReportInv
    <3> QED BY <3>1, <3>2, <3>3
  <2>4. Written'
    BY <1>1, <2>1 DEF Written, config
  <2> QED BY <2>3, <2>4 DEF ReportInv
<1> QED BY <1>2, <1>3 DEF WriteFiles

\* So is installing a unit.
LEMMA ReportUnit == ASSUME TypeOK, ReportInv, InstallUnit PROVE ReportInv'
<1>1. /\ at \in Instance /\ at' = at /\ seen' = seen /\ UNCHANGED <<files, proc>>
      /\ pc = "install"
  BY TurnType DEF InstallUnit, Go, Fail, FailHalf
<1>2. files[at] = config.files
  BY <1>1 DEF ReportInv, Written
<1>3. ASSUME NEW i \in Instance, i # at PROVE unit'[i] = unit[i]
  BY <1>3 DEF InstallUnit, TypeOK
<1>4. CASE FailHalf
  <2>1. half' = half \union {at} /\ pc' = "error"
    BY <1>4 DEF FailHalf, Fail
  <2>2. ASSUME NEW i \in Instance PROVE Fresh(i)'
    <3>1. CASE i = at BY <2>1, <3>1 DEF Fresh
    <3>2. CASE i # at BY <1>1, <1>3, <2>1, <3>2, FreshFrame DEF ReportInv
    <3> QED BY <3>1, <3>2
  <2> QED BY <2>1, <2>2, WrittenAnew DEF ReportInv
<1>5. CASE /\ Go("restart") /\ UNCHANGED half
           /\ \/ unit[at] = config.bin /\ UNCHANGED <<unit, changed>>
              \/ unit' = [unit EXCEPT ![at] = config.bin] /\ changed' = TRUE
  <2>1. unit'[at] = config.bin /\ pc' = "restart"
    BY <1>1, <1>5 DEF Go, TypeOK
  <2>2. ASSUME NEW i \in Instance PROVE Fresh(i)'
    <3>1. CASE i # at
      BY <1>1, <1>3, <1>5, <3>1, FreshFrame DEF ReportInv
    <3>2. CASE i = at /\ changed' = TRUE
      BY <1>1, <2>1, <3>2 DEF Fresh
    <3>3. CASE i = at /\ UNCHANGED <<unit, changed>>
      <4>1. Fresh(at)
        BY <1>1 DEF ReportInv
      <4> QED BY <1>1, <1>5, <2>1, <3>3, <4>1 DEF Fresh
    <3> QED BY <1>5, <3>1, <3>2, <3>3
  <2>3. Written'
    BY <1>1, <1>2, <2>1 DEF Written, config
  <2> QED BY <2>2, <2>3 DEF ReportInv
<1> QED BY <1>4, <1>5 DEF InstallUnit, GenerateManagedUnit

\* A restart brings up what was written, or counts as missed.
LEMMA ReportRestart == ASSUME TypeOK, ReportInv, Restart PROVE ReportInv'
<1> HIDE DEF Off
<1>1. /\ at \in Instance /\ at' = at /\ seen' = seen /\ UNCHANGED <<files, unit>>
      /\ pc = "restart"
  BY TurnType DEF Restart, Go, Fail, FailHalf, disk
<1>2. files[at] = config.files /\ unit[at] = config.bin
  BY <1>1 DEF ReportInv, Written
<1>3. ASSUME NEW i \in Instance, i # at PROVE proc'[i] = proc[i]
  BY <1>3 DEF Restart, TypeOK
<1>4. CASE FailHalf
  <2>1. half' = half \union {at} /\ pc' = "error"
    BY <1>4 DEF FailHalf, Fail
  <2>2. ASSUME NEW i \in Instance PROVE Fresh(i)'
    <3>1. CASE i = at BY <2>1, <3>1 DEF Fresh
    <3>2. CASE i # at BY <1>1, <1>3, <2>1, <3>2, FreshFrame DEF ReportInv
    <3> QED BY <3>1, <3>2
  <2> QED BY <2>1, <2>2, WrittenAnew DEF ReportInv
<1>5. CASE Go("observe")
  <2>1. Written'
    BY <1>1, <1>2, <1>5 DEF Go, Written, config
  <2>2. Fresh(at)'
    <3>1. CASE ~changed /\ proc' = proc /\ half' = half
      <4>1. Fresh(at)
        BY <1>1 DEF ReportInv
      <4> QED BY <1>1, <3>1, <4>1, FreshFrame
    <3>2. CASE proc' = [proc EXCEPT ![at] = [bin |-> config.bin, files |-> config.files,
                                             group |-> config.group]]
      <4>1. proc'[at].files = config.files /\ proc'[at].bin = config.bin
        BY <1>1, <3>2 DEF TypeOK
      <4> QED BY <1>1, <1>2, <4>1 DEF Fresh
    <3> QED BY <1>5, <3>1, <3>2 DEF Restart, Go, FailHalf, Fail
  <2>3. ASSUME NEW i \in Instance, i # at PROVE Fresh(i)'
    <3>1. i \in half => i \in half'
      BY <2>3 DEF Restart, FailHalf
    <3> QED BY <1>1, <1>3, <2>3, <3>1 DEF ReportInv, Fresh
  <2> QED BY <1>1, <2>1, <2>2, <2>3 DEF ReportInv
<1> QED BY <1>4, <1>5 DEF Restart

\* Removing stops the service before anything of it goes.
LEMMA ReportRemove == ASSUME TypeOK, ReportInv, RemoveManaged PROVE ReportInv'
<1> HIDE DEF Off
<1>1. at \in Instance /\ pc = "remove" /\ pc' \in {"release", "idle"} /\ half' = half
  BY TurnType DEF RemoveManaged, Go, Done
<1>2. ASSUME NEW i \in Instance, i # at
      PROVE  proc'[i] = proc[i] /\ unit'[i] = unit[i] /\ files'[i] = files[i]
  BY <1>2 DEF RemoveManaged, TypeOK
<1>3. \/ proc'[at] = Off \/ unit'[at] = None
      \/ (proc' = proc /\ unit' = unit /\ files' = files)
  <2>1. \/ proc' = [proc EXCEPT ![at] = Off]
        \/ unit' = [unit EXCEPT ![at] = None]
        \/ UNCHANGED <<proc, unit, files>>
    BY Zenon DEF RemoveManaged
  <2> QED BY <1>1, <2>1 DEF TypeOK
<1>4. ASSUME NEW i \in Instance PROVE Fresh(i)'
  <2>1. CASE i # at
    BY <1>1, <1>2, <2>1, FreshFrame DEF ReportInv
  <2>2. CASE proc'[i] = Off \/ unit'[i] = None
    BY <2>2 DEF Fresh
  <2>3. CASE UNCHANGED <<proc, unit, files>>
    BY <1>1, <2>3, FreshFrame DEF ReportInv
  <2> QED BY <1>3, <2>1, <2>2, <2>3
<1> QED BY <1>1, <1>4, WrittenAnew DEF ReportInv

\* A service that is reported installed runs the configured binary with the
\* configured files, unless an earlier Apply stopped between write and restart.
THEOREM ReportsAreTrue == Spec => []ReportedRuns
<1>1. Init => ReportInv
  <2> SUFFICES ASSUME Init PROVE ReportInv OBVIOUS
  <2>1. \A i \in Instance : proc[i] = Off
    BY DEF Init
  <2> QED BY <2>1 DEF Init, ReportInv, Fresh, Written
<1>2. TypeOK /\ ReportInv /\ [Next]_vars => ReportInv'
  BY ReportFrame, ReportFiles, ReportUnit, ReportRestart, ReportRemove
     DEF Next, Pass, Managed
<1>3. TypeOK /\ ReportInv => ReportedRuns
  <2> SUFFICES ASSUME TypeOK, ReportInv, pc = "observe", config.flavor = "managed",
                      at \notin half, proc[at] # Off
               PROVE  proc[at].bin = config.bin /\ proc[at].files = config.files
    BY DEF ReportedRuns
  <2>1. Fresh(at)
    BY TurnType DEF ReportInv
  <2>2. config.bin # None
    BY TurnType, ConfigType, ConfigAssumption
  <2> QED BY <2>1, <2>2 DEF ReportInv, Written, Fresh
<1> QED BY <1>1, <1>2, <1>3, TypeCorrect, PTL DEF Spec
=============================================================================
