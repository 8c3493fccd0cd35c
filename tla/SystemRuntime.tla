--------------------------- MODULE SystemRuntime ---------------------------
(***************************************************************************)
(* System instances on a Linux device: the rows and exclusivity locks, the *)
(* system part of the reconcile pass, the driver that downloads a binary,  *)
(* writes files and stages a unit, and the root helper obacht-power-toggle *)
(* that installs units and takes the display over for a kiosk              *)
(* (internal/runtime/system, internal/store/locks.go,                      *)
(* cmd/obacht-power-toggle).                                               *)
(*                                                                         *)
(* A helper call is one step: it has its whole effect or, when it fails or *)
(* the agent dies under it, the effect of a prefix of its actions.  Where  *)
(* it ignores what systemctl answers (a display manager, a unit that is    *)
(* removed), systemd may also refuse and the helper goes on.  The text of  *)
(* a unit is identified with the digest of the binary it runs.             *)
(***************************************************************************)
EXTENDS Naturals

CONSTANTS
    Instance,   \* ids of system instances
    Config,     \* contents of config_json, see ConfigAssumption
    Group,      \* exclusivity groups
    Digest,     \* digests of binaries
    Files,      \* contents of the supporting files
    None,       \* nothing: no lock holder, no unit, no group, no turn
    MaxEvents   \* bound: requests, Power Mode changes, failures and crashes

ASSUME ConfigAssumption ==
    /\ Config \subseteq [flavor : {"managed", "kiosk", "host", "none", "empty"},
                         valid : BOOLEAN, group : Group \union {None},
                         bin : Digest, files : Files]
    /\ \A c \in Config : c.flavor \in {"none", "empty"} => ~c.valid
    /\ Config # {}
    /\ None \notin Instance /\ None \notin Group /\ None \notin Config
    /\ None \notin Digest /\ None \notin Files
    /\ MaxEvents \in Nat

VARIABLES
    row,      \* the instances table
    lock,     \* the table exclusivity_locks
    bin,      \* the content-addressed binaries
    files,    \* an instance's files
    unit,     \* its installed unit
    proc,     \* what its service runs
    kiosk,    \* whose kiosk session runs
    dm,       \* the display manager is enabled
    desk,     \* ... and was before any kiosk
    snap,     \* /var/lib/obacht-power/kiosk-dm
    unrestored, \* systemd refused to enable it and the record was dropped
    sudo,     \* Power Mode: the sudoers fragment is there
    seen,     \* the rows of the pass's ListInstances not yet dealt with
    at, pc,   \* the instance whose turn it is, and where its turn is
    changed,  \* filesChanged || unitChanged
    half,     \* instances whose Apply ended after a write, before the restart
    astray,   \* instances of which something outlives the teardown: deleted with
              \* hard=1 or turned into another kind while up, or not stopped by systemd
    left      \* what is left of the bound

db   == <<row, lock>>
disk == <<bin, files, unit>>
kio  == <<kiosk, dm, snap, unrestored>>
turn == <<seen, at, pc, changed>>
vars == <<db, disk, proc, kio, desk, sudo, turn, half, astray, left>>

Desired == {"installed", "stopped", "removed"}
Row == [there : BOOLEAN, want : Desired, cfg : Config,
        obs : {"", "installed", "stopped", "error"}]
Service == [bin : Digest, files : Files, group : Group \union {None}]
Session == [by : Instance, group : Group \union {None}]
Listed == [want : Desired, cfg : Config]
Pc == {"idle", "lock", "insert", "apply", "extract", "files", "install",
       "restart", "observe", "error", "remove", "release", "settle"}

AnyConfig == CHOOSE c \in Config : TRUE
NoRow == [there |-> FALSE, want |-> "installed", cfg |-> AnyConfig, obs |-> ""]
Off == [bin |-> None, files |-> None, group |-> None]
NoKiosk == [by |-> None, group |-> None]

\* A definition named X_Fault is X with a plausible bug; nothing else uses it.

DetectFlavor_Strict(cfg) == IF cfg.valid THEN cfg.flavor ELSE ""

\* The flavor of a configuration, also of one that does not validate; none of
\* one that is empty or no JSON.
DetectFlavor(cfg) == IF cfg.flavor \in {"none", "empty"} THEN "" ELSE cfg.flavor

\* The configuration of the instance whose turn it is, as the pass listed it.
config == seen[at].cfg

Init ==
    /\ row \in [Instance -> {NoRow} \union
                  [there : {TRUE}, want : {"installed"}, obs : {""},
                   cfg : {c \in Config : c.valid /\ c.flavor # "host"}]]
    /\ lock = [g \in Group |-> None]
    /\ bin = [b \in Digest |-> "absent"]
    /\ files = [i \in Instance |-> None]
    /\ unit = [i \in Instance |-> None]
    /\ proc = [i \in Instance |-> Off]
    /\ kiosk = NoKiosk /\ dm \in BOOLEAN /\ desk = dm /\ snap = "nofile"
    /\ unrestored = FALSE
    /\ sudo = TRUE
    /\ seen = [i \in Instance |-> None] /\ at = None /\ pc = "idle"
    /\ changed = FALSE /\ half = {} /\ astray = {} /\ left = MaxEvents

Event == left > 0 /\ left' = left - 1

-----------------------------------------------------------------------------
(* The pass.                                                               *)

\* At the start, by the ticker or the trigger: at any time.
PassBegin ==
    /\ pc = "idle" /\ \A i \in Instance : seen[i] = None
    /\ \E i \in Instance : row[i].there
    /\ seen' = [i \in Instance |->
                  IF row[i].there THEN [want |-> row[i].want, cfg |-> row[i].cfg]
                  ELSE None]
    /\ UNCHANGED <<db, disk, proc, kio, desk, sudo, at, pc, changed, half, astray,
                   left>>

\* reconcileSystem.  The rows come by created_at, which has a resolution of a
\* second; any order is allowed.
Turn(i) ==
    /\ pc = "idle" /\ seen[i] # None
    /\ ~(seen[i].want = "installed" /\ seen[i].cfg.flavor = "empty")
    /\ at' = i
    /\ pc' = IF seen[i].want # "installed" THEN "remove"
             ELSE IF ~seen[i].cfg.valid THEN "error"
             ELSE IF seen[i].cfg.group = None THEN "apply" ELSE "lock"
    /\ UNCHANGED <<db, disk, proc, kio, desk, sudo, seen, changed, half, astray,
                   left>>

\* ErrEmptySpec: an instance without a configuration is passed over, and nothing
\* is reported of it.
Skip(i) ==
    /\ pc = "idle" /\ seen[i] # None
    /\ seen[i].want = "installed" /\ seen[i].cfg.flavor = "empty"
    /\ seen' = [seen EXCEPT ![i] = None]
    /\ UNCHANGED <<db, disk, proc, kio, desk, sudo, at, pc, changed, half, astray,
                   left>>

\* The end of an instance's turn.
Done == /\ seen' = [seen EXCEPT ![at] = None]
        /\ at' = None /\ pc' = "idle" /\ changed' = FALSE

Go(to) == pc' = to /\ UNCHANGED <<seen, at>>
Fail == pc' = "error" /\ UNCHANGED <<seen, at, changed>>
\* ... after Apply may have written something it has not restarted for.
FailHalf == Fail /\ half' = half \union {at}

TryAcquireLock_AnyHolder ==
    /\ pc = "lock"
    /\ Go(IF lock[config.group] = None THEN "insert" ELSE "apply")
    /\ UNCHANGED <<db, disk, proc, kio, desk, sudo, changed, half, astray, left>>

\* TryAcquireLock is a SELECT ...
TryAcquireLock ==
    /\ pc = "lock"
    /\ LET holder == lock[config.group] IN
         Go(IF holder = None THEN "insert" ELSE IF holder = at THEN "apply" ELSE "error")
    /\ UNCHANGED <<db, disk, proc, kio, desk, sudo, changed, half, astray, left>>

\* ... and an INSERT, which the primary key and the foreign key may refuse.
InsertLock ==
    /\ pc = "insert"
    /\ IF row[at].there /\ lock[config.group] = None
       THEN lock' = [lock EXCEPT ![config.group] = at] /\ Go("apply")
       ELSE lock' = lock /\ Go("error")
    /\ UNCHANGED <<row, disk, proc, kio, desk, sudo, changed, half, astray, left>>

SetObserved(i, s) == row' = IF row[i].there THEN [row EXCEPT ![i].obs = s] ELSE row

Observe ==
    /\ pc \in {"observe", "error"}
    /\ SetObserved(at, IF pc = "observe" THEN "installed" ELSE "error")
    /\ Done
    /\ UNCHANGED <<lock, disk, proc, kio, desk, sudo, half, astray, left>>

-----------------------------------------------------------------------------
(* Driver.Apply for a managed service.                                     *)

\* EnsureManagedBinary: a file that is there is taken as it is.  The archive is
\* extracted (or renamed and made executable) at its final path.
EnsureManagedBinary ==
    /\ pc = "apply" /\ config.flavor = "managed"
    /\ \/ bin[config.bin] # "absent" /\ Go("files") /\ UNCHANGED <<bin, changed, left>>
       \/ /\ bin[config.bin] = "absent"
          /\ bin' = [bin EXCEPT ![config.bin] = "torn"] /\ Go("extract")
          /\ UNCHANGED <<changed, left>>
       \/ bin[config.bin] = "absent" /\ Event /\ Fail /\ UNCHANGED bin
    /\ UNCHANGED <<db, files, unit, proc, kio, desk, sudo, half, astray>>

ExtractManagedTgz ==
    /\ pc = "extract"
    /\ \/ /\ bin' = [bin EXCEPT ![config.bin] = "whole"] /\ Go("files")
          /\ UNCHANGED <<changed, left>>
       \/ Event /\ Fail /\ UNCHANGED bin
    /\ UNCHANGED <<db, files, unit, proc, kio, desk, sudo, half, astray>>

WriteFiles_Unnoticed ==
    /\ pc = "files"
    /\ files' = [files EXCEPT ![at] = config.files]
    /\ Go("install") /\ UNCHANGED <<changed, half, left>>
    /\ UNCHANGED <<db, bin, unit, proc, kio, desk, sudo, astray>>

\* writeFiles compares, writes and renames.
WriteFiles ==
    /\ pc = "files"
    /\ \/ /\ files' = [files EXCEPT ![at] = config.files]
          /\ changed' = (files[at] # config.files)
          /\ Go("install") /\ UNCHANGED <<half, left>>
       \/ /\ Event /\ FailHalf
          /\ files' \in {files, [files EXCEPT ![at] = config.files]}
    /\ UNCHANGED <<db, bin, unit, proc, kio, desk, sudo, astray>>

\* The text of the unit.
GenerateManagedUnit(cfg) == cfg.bin

\* Staging and `unit install`, skipped when the installed unit is the same.  The
\* helper checks, writes, reloads systemd and enables.
InstallUnit ==
    LET text == GenerateManagedUnit(config)
        new == [unit EXCEPT ![at] = text] IN
    /\ pc = "install"
    /\ \/ /\ unit[at] = text
          /\ Go("restart") /\ UNCHANGED <<unit, changed, half, left>>
       \/ /\ unit[at] # text /\ sudo
          /\ unit' = new /\ changed' = TRUE
          /\ Go("restart") /\ UNCHANGED <<half, left>>
       \/ /\ unit[at] # text
          /\ FailHalf
          /\ \/ ~sudo /\ UNCHANGED <<unit, left>>
             \/ sudo /\ Event /\ unit' \in {unit, new}
    /\ UNCHANGED <<db, bin, files, proc, kio, desk, sudo, astray>>

\* `svc restart`, when something changed or the unit is not active.  A binary
\* that is not whole does not run.
Restart ==
    LET due == changed \/ proc[at] = Off IN
    /\ pc = "restart"
    /\ \/ ~due /\ Go("observe") /\ UNCHANGED <<proc, changed, half, left>>
       \/ /\ due /\ sudo /\ bin[config.bin] = "whole"
          /\ proc' = [proc EXCEPT ![at] = [bin |-> config.bin, files |-> config.files,
                                           group |-> config.group]]
          /\ half' = half \ {at}
          /\ Go("observe") /\ UNCHANGED <<changed, left>>
       \/ /\ due
          /\ FailHalf
          /\ \/ ~sudo /\ UNCHANGED <<proc, left>>
             \/ /\ sudo /\ bin[config.bin] # "whole"
                /\ proc' = [proc EXCEPT ![at] = Off] /\ UNCHANGED left
             \/ sudo /\ Event /\ proc' \in {proc, [proc EXCEPT ![at] = Off]}
    /\ UNCHANGED <<db, disk, kio, desk, sudo, astray>>

-----------------------------------------------------------------------------
(* Driver.Apply for a kiosk: its files, `kiosk enable`, `svc restart`.     *)

SnapshotDM_Again == IF dm THEN "dm" ELSE "none"

SnapshotDM_Empty == IF snap # "nofile" THEN snap ELSE IF dm THEN "dm" ELSE ""

\* snapshotAndStopDM keeps the first snapshot.
SnapshotDM == IF snap # "nofile" THEN snap ELSE IF dm THEN "dm" ELSE "none"

\* Then the recorded display manager is disabled.
StoppedDM == dm /\ SnapshotDM # "dm"

ApplyKiosk ==
    LET session == [by |-> at, group |-> config.group] IN
    /\ pc = "apply" /\ config.flavor = "kiosk"
    /\ \/ /\ sudo
          /\ snap' = SnapshotDM /\ kiosk' = session
          /\ \/ dm' = StoppedDM /\ UNCHANGED left
             \/ dm' = dm /\ Event
          /\ Go("observe") /\ UNCHANGED changed
       \/ ~sudo /\ Fail /\ UNCHANGED <<kiosk, dm, snap, left>>
       \/ /\ sudo /\ Event /\ Fail
          /\ \/ UNCHANGED <<kiosk, dm, snap>>
             \/ snap' = SnapshotDM /\ UNCHANGED <<dm, kiosk>>
             \/ snap' = SnapshotDM /\ dm' = StoppedDM /\ kiosk' \in {kiosk, NoKiosk, session}
    /\ UNCHANGED <<unrestored, db, disk, proc, desk, sudo, half, astray>>

\* A macOS host service: Apply refuses it.
ApplyHost ==
    /\ pc = "apply" /\ config.flavor = "host"
    /\ Fail
    /\ UNCHANGED <<db, disk, proc, kio, desk, sudo, half, astray, left>>

-----------------------------------------------------------------------------
(* Driver.Remove, of an instance that is to be stopped or removed, in every *)
(* pass.                                                                    *)

RestoredDM == dm \/ snap = "dm"

\* `kiosk disable`.  Nobody looks at what systemctl says when the session is
\* stopped and the display manager enabled, nor whether the record could go.
RemoveKiosk ==
    /\ pc = "remove" /\ DetectFlavor(config) = "kiosk"
    /\ \/ /\ sudo /\ Go("release") /\ UNCHANGED changed
          /\ \/ kiosk' = NoKiosk /\ dm' = RestoredDM /\ snap' = "nofile" /\ UNCHANGED left
             \/ /\ Event
                /\ kiosk' \in {kiosk, NoKiosk} /\ dm' \in {dm, RestoredDM}
                /\ snap' \in {snap, "nofile"}
          /\ astray' = astray \union ({kiosk'.by} \intersect {at})
          /\ unrestored' = (unrestored \/ (dm' # RestoredDM /\ snap' = "nofile"))
       \/ ~sudo /\ Done /\ UNCHANGED <<kio, astray, left>>
       \/ /\ sudo /\ Event /\ Done
          /\ kiosk' \in {kiosk, NoKiosk} /\ dm' \in {dm, RestoredDM}
          /\ UNCHANGED <<snap, unrestored, astray>>
    /\ UNCHANGED <<db, disk, proc, desk, sudo, half>>

\* `unit remove`, then the staged unit and the instance's directories.  The unit
\* goes also when systemd did not stop it.
RemoveManaged ==
    LET stopped == [proc EXCEPT ![at] = Off]
        gone    == [unit EXCEPT ![at] = None]
        wiped   == [files EXCEPT ![at] = None] IN
    /\ pc = "remove" /\ DetectFlavor(config) # "kiosk"
    /\ \/ /\ sudo /\ Go("release") /\ UNCHANGED changed
          /\ unit' = gone
          /\ \/ proc' = stopped /\ files' = wiped /\ UNCHANGED left
             \/ Event /\ proc' \in {proc, stopped} /\ files' \in {files, wiped}
          /\ astray' = astray \union (IF proc'[at] = Off THEN {} ELSE {at})
       \/ ~sudo /\ Done /\ UNCHANGED <<unit, files, proc, astray, left>>
       \/ /\ sudo /\ Event /\ Done
          /\ \/ UNCHANGED <<unit, proc>>
             \/ proc' = stopped /\ unit' \in {unit, gone}
          /\ UNCHANGED <<files, astray>>
    /\ UNCHANGED <<db, bin, kio, desk, sudo, half>>

ReleaseLocksForInstance_OfGroup(i) ==
    [g \in Group |-> IF lock[g] = i /\ config.group = g THEN None ELSE lock[g]]

\* Every lock of the instance, of an earlier group too.
ReleaseLocksForInstance(i) == [g \in Group |-> IF lock[g] = i THEN None ELSE lock[g]]

\* A failure is only logged; the next pass tries again.
Release ==
    /\ pc = "release"
    /\ \/ lock' = ReleaseLocksForInstance(at) /\ UNCHANGED left
       \/ (\E g \in Group : lock[g] = at) /\ Event /\ lock' = lock
    /\ Go("settle")
    /\ UNCHANGED <<row, disk, proc, kio, desk, sudo, changed, half, astray>>

\* ON DELETE CASCADE takes the locks along.
DeleteInstance(i) ==
    /\ row' = [row EXCEPT ![i] = NoRow]
    /\ lock' = [g \in Group |-> IF lock[g] = i THEN None ELSE lock[g]]

\* The row goes as the pass listed it, whatever it says by now.
Settle ==
    /\ pc = "settle"
    /\ \/ seen[at].want = "removed" /\ DeleteInstance(at) /\ UNCHANGED left
       \/ seen[at].want = "removed" /\ Event /\ UNCHANGED db
       \/ seen[at].want = "stopped" /\ SetObserved(at, "stopped") /\ UNCHANGED <<lock, left>>
    /\ Done
    /\ UNCHANGED <<disk, proc, kio, desk, sudo, half, astray>>

-----------------------------------------------------------------------------
(* Everybody else.                                                         *)

\* Something of the instance is up, or the pass is about to see to it.
Up(i) == unit[i] # None \/ proc[i] # Off \/ kiosk.by = i \/ seen[i] # None

Upsert(i, cfg) ==
    /\ Event
    /\ row' = [row EXCEPT ![i] = [there |-> TRUE, want |-> "installed", cfg |-> cfg,
                                  obs |-> row[i].obs]]
    /\ astray' = IF Up(i) /\ (cfg.flavor = "kiosk") # (row[i].cfg.flavor = "kiosk")
                 THEN astray \union {i} ELSE astray
    /\ UNCHANGED <<lock, disk, proc, kio, desk, sudo, turn, half>>

\* set_state, and the soft delete.
SetState(i, want) ==
    /\ row[i].there /\ row[i].want # want /\ Event
    /\ row' = [row EXCEPT ![i].want = want]
    /\ UNCHANGED <<lock, disk, proc, kio, desk, sudo, turn, half, astray>>

\* The delete with hard=1: no pass sees the instance again.
HardDelete(i) ==
    /\ row[i].there /\ Event
    /\ DeleteInstance(i)
    /\ astray' = IF Up(i) THEN astray \union {i} ELSE astray
    /\ UNCHANGED <<disk, proc, kio, desk, sudo, turn, half>>

\* obacht-power-toggle enable and disable.
TogglePower ==
    /\ Event
    /\ sudo' = ~sudo
    /\ UNCHANGED <<db, disk, proc, kio, desk, turn, half, astray>>

\* A service fails for good.
ServiceDies(i) ==
    /\ proc[i] # Off /\ Event
    /\ proc' = [proc EXCEPT ![i] = Off]
    /\ UNCHANGED <<db, disk, kio, desk, sudo, turn, half, astray>>

AgentRestarts ==
    /\ Event /\ pc # "idle"
    /\ seen' = [i \in Instance |-> None] /\ at' = None /\ pc' = "idle"
    /\ changed' = FALSE
    /\ half' = IF pc \in {"install", "restart"} THEN half \union {at} ELSE half
    /\ UNCHANGED <<db, disk, proc, kio, desk, sudo, astray>>

-----------------------------------------------------------------------------
Managed == EnsureManagedBinary \/ ExtractManagedTgz \/ WriteFiles \/ InstallUnit \/ Restart

Pass ==
    \/ PassBegin
    \/ \E i \in Instance : Turn(i) \/ Skip(i)
    \/ TryAcquireLock \/ InsertLock
    \/ Managed
    \/ ApplyKiosk \/ ApplyHost
    \/ Observe
    \/ RemoveKiosk \/ RemoveManaged
    \/ Release \/ Settle

Request ==
    \E i \in Instance :
        \/ \E cfg \in Config : Upsert(i, cfg)
        \/ \E want \in Desired : SetState(i, want)
        \/ HardDelete(i)

Next == Pass \/ Request \/ TogglePower \/ AgentRestarts
        \/ \E i \in Instance : ServiceDies(i)

Spec == Init /\ [][Next]_vars

\* The ticker starts a pass every 30 seconds and a pass does not stop half way.
FairSpec == Spec /\ WF_vars(Pass)

-----------------------------------------------------------------------------
TypeOK ==
    /\ row \in [Instance -> Row]
    /\ lock \in [Group -> Instance \union {None}]
    /\ bin \in [Digest -> {"absent", "torn", "whole"}]
    /\ files \in [Instance -> Files \union {None}]
    /\ unit \in [Instance -> Digest \union {None}]
    /\ proc \in [Instance -> Service \union {Off}]
    /\ kiosk \in Session \union {NoKiosk}
    /\ dm \in BOOLEAN /\ desk \in BOOLEAN /\ snap \in {"nofile", "none", "dm"}
    /\ unrestored \in BOOLEAN /\ sudo \in BOOLEAN
    /\ seen \in [Instance -> Listed \union {None}]
    /\ at \in Instance \union {None} /\ pc \in Pc
    /\ (at = None) = (pc = "idle") /\ (at # None => seen[at] # None)
    /\ changed \in BOOLEAN
    /\ half \subseteq Instance /\ astray \subseteq Instance
    /\ left \in Nat

\* The instances that run under a group, unless they went astray.
Uses(i, g) == \/ proc[i] # Off /\ proc[i].group = g
              \/ kiosk.by = i /\ kiosk.group = g
Users == [g \in Group |-> {i \in Instance \ astray : Uses(i, g)}]

\* The instances of an exclusivity group run one at a time: every step is one of
\* ExclusiveUse, also when a lock moves on, when an instance changes its group
\* and when a call fails half way.
Exclusive == INSTANCE ExclusiveUse WITH users <- Users
OneUserPerGroup == Exclusive!Spec

\* An instance whose row is gone has left no unit, no process and no kiosk session,
\* except where astray says: the row was deleted with hard=1, or turned from a kiosk
\* into a service or back, while something of it was up or its turn was due, or
\* systemd would not stop what was removed.
GoneIsGone ==
    \A i \in Instance \ astray :
        ~row[i].there => unit[i] = None /\ proc[i] = Off /\ kiosk.by # i

\* The desktop that a kiosk stood down stays on record until it is back, through any
\* order of enables and disables that fail half way.  It is lost in one way only:
\* systemd refuses to enable it and restoreDM drops the record all the same.
DesktopRecorded == desk /\ ~dm => snap = "dm" \/ unrestored

\* An instance is reported installed while its service runs the configured
\* binary with the configured files, unless an earlier Apply broke off after it
\* had written them.
ReportedRuns ==
    (pc = "observe" /\ config.flavor = "managed" /\ at \notin half /\ proc[at] # Off)
      => proc[at].bin = config.bin /\ proc[at].files = config.files

Wanted(i) == row[i].there /\ row[i].want = "installed" /\ row[i].cfg.valid
OthersOut(i) == \A j \in Instance \ {i} : row[j].there => row[j].want # "installed"

\* When the other instances are stopped or removed, an installed service gets
\* its lock, whatever group they held it under, and runs.
Served ==
    \A i \in Instance :
        <>[](/\ Wanted(i) /\ OthersOut(i) /\ sudo
             /\ row[i].cfg.flavor = "managed" /\ bin[row[i].cfg.bin] # "torn")
          => <>[](proc[i] # Off)

\* The comment at instance.upsert: "Linux managed_service/kiosk singletons are
\* enforced by the reconciler's exclusivityGroup lock".  So the kiosk that holds
\* its group for good keeps its session.
HolderKeepsSession ==
    \A i \in Instance :
        <>[](/\ Wanted(i) /\ row[i].cfg.flavor = "kiosk" /\ sudo
             /\ row[i].cfg.group # None /\ lock[row[i].cfg.group] = i)
          => <>[](kiosk.by = i)
=============================================================================
