------------------------------- MODULE Uplink -------------------------------
(***************************************************************************)
(* The agent's channel to the backend: the websocket client                *)
(* (internal/api/wsclient.go) and the goroutines that send through it, the *)
(* syncer's loop, the callbacks started on every connect, and IPC requests *)
(* that register anew (internal/sync).  What a snapshot of the store says  *)
(* is a version: `rows` counts its changes.  What a registration says is   *)
(* left out: no property is about it.                                      *)
(***************************************************************************)
EXTENDS Naturals

CONSTANTS
    Loop,            \* the goroutine of Syncer.Run
    Callback,        \* goroutines of onConnect, reused once ended
    Request,         \* concurrent IPC requests
    None,
    MaxDisturbances  \* bound: changes, errors, network failures, crashes

Sender == {Loop} \union Callback \union Request

ASSUME UplinkAssumption ==
    /\ Loop \notin Callback \union Request
    /\ Callback \intersect Request = {}
    /\ None \notin Sender
    /\ MaxDisturbances \in Nat

VARIABLES
    rows, meta,        \* what the store holds: the rows, the token
    backend,           \* the snapshot the backend was told last
    link,              \* the TCP connection of c.conn, as the network has it
    spc,               \* where Client.Run is
    conn, connected,   \* c.conn # nil, c.connected
    authed,            \* the backend has authenticated this session
    holder,            \* who holds c.mu in a write that blocks
    token,             \* c.token
    onConnect,         \* c.onConnect is set
    pushNow,           \* the channel of capacity one
    job, stage, val,   \* each sender: what it sends, how far it is, what it read
    called, announced, \* history: this session had a callback, was sent a registration
    asked,             \* history: the newest rows a push was asked for
    seen, missed,      \* history: newest snapshot received, a push was lost
    panicked,          \* the process has died of a panic
    left               \* what is left of the bound

history == <<announced, asked, seen, missed>>
device  == <<rows, meta>>
client  == <<spc, conn, connected, authed, token, onConnect, called>>
senders == <<job, stage, val>>
vars    == <<device, backend, link, client, holder, pushNow, senders,
             history, panicked, left>>

Job == {"none", "register", "snapshot", "token"}
Stage == {"idle", "start", "ask", "read", "check", "write", "blocked", "save", "set"}
Version == 0 .. MaxDisturbances

\* The agent has just started `go wsClient.Run` and `go syncer.Run`.
Init ==
    /\ rows = 0 /\ meta = 0 /\ backend = 0
    /\ link = "none" /\ spc = "idle" /\ conn = FALSE /\ connected = FALSE
    /\ holder = None /\ token = 0 /\ onConnect = FALSE /\ pushNow = FALSE
    /\ job = [s \in Sender |-> "none"]
    /\ stage = [s \in Sender |-> IF s = Loop THEN "start" ELSE "idle"]
    /\ val = [s \in Sender |-> 0]
    /\ authed = FALSE /\ called = FALSE /\ panicked = FALSE
    /\ announced = FALSE /\ asked = 0 /\ seen = 0 /\ missed = FALSE
    /\ left = MaxDisturbances

Disturbed == left > 0 /\ left' = left - 1

\* c.mu is free; the agent is alive.
Unlocked == holder = None /\ ~panicked

-----------------------------------------------------------------------------
(* Client.Run and session.                                                 *)

\* The dial, with the token read just before, and c.conn = conn.
Dial ==
    /\ spc = "idle" /\ Unlocked
    /\ \/ spc' = "open" /\ conn' = TRUE /\ link' = "up" /\ left' = left
       \/ UNCHANGED <<spc, conn, link>> /\ Disturbed
    /\ UNCHANGED <<device, backend, connected, authed, token, onConnect, called, holder,
                   pushNow, senders, history, panicked>>

\* A definition named X_Fault is X with a plausible bug; nothing else uses it.

\* A goroutine of onConnect starts, and first does sendRegister.  Goroutines are
\* interchangeable: which of those that ended is reused makes no difference.
Spawn ==
    \E c \in Callback :
      /\ stage[c] = "idle" /\ c = (CHOOSE d \in Callback : stage[d] = "idle")
      /\ job' = [job EXCEPT ![c] = "register"]
      /\ stage' = [stage EXCEPT ![c] = "read"]

Handshake_CallsBackOnce ==
    /\ spc = "open" /\ link = "up" /\ Unlocked
    /\ spc' = "pump" /\ connected' = TRUE
    /\ called' = onConnect /\ announced' = FALSE
    /\ IF onConnect /\ ~called THEN Spawn
                               ELSE UNCHANGED <<job, stage>>
    /\ UNCHANGED <<device, backend, link, conn, authed, token, onConnect, holder, pushNow,
                   val, asked, seen, missed, panicked, left>>

\* The open frame, "40", its acknowledgement, then connected = true and the
\* callback in a goroutine of its own.
Handshake ==
    /\ spc = "open" /\ link = "up" /\ Unlocked
    /\ spc' = "pump" /\ connected' = TRUE
    /\ called' = onConnect /\ announced' = FALSE
    /\ IF onConnect THEN Spawn ELSE UNCHANGED <<job, stage>>
    /\ UNCHANGED <<device, backend, link, conn, authed, token, onConnect, holder, pushNow,
                   val, asked, seen, missed, panicked, left>>

\* A read fails: the connection broke, or nothing came for 60 s, or a frame of the
\* handshake was not the expected one, and the session is given up.
ReadFails ==
    /\ spc \in {"open", "pump"} /\ ~panicked
    /\ \/ link # "up" /\ link' = link /\ left' = left
       \/ spc = "open" /\ link = "up" /\ link' = "broken" /\ Disturbed
    /\ spc' = "ended"
    /\ UNCHANGED <<device, backend, conn, connected, authed, token, onConnect, called,
                   holder, pushNow, senders, history, panicked>>

\* disconnect, and the backoff: the next round of Run.
Disconnect ==
    /\ spc = "ended" /\ Unlocked
    /\ spc' = "idle" /\ conn' = FALSE /\ connected' = FALSE /\ link' = "none"
    /\ authed' = FALSE /\ announced' = FALSE
    /\ UNCHANGED <<device, backend, token, onConnect, called, holder, pushNow,
                   senders, asked, seen, missed, panicked, left>>

ClientStep == Dial \/ Handshake \/ ReadFails \/ Disconnect

-----------------------------------------------------------------------------
(* The senders.  A callback registers and then sends a snapshot.           *)

Goto(s, j, st) == job' = [job EXCEPT ![s] = j] /\ stage' = [stage EXCEPT ![s] = st]
Stop(s) == Goto(s, "none", "idle")
Sent(s) == IF s \in Callback /\ job[s] = "register" THEN Goto(s, "snapshot", "ask")
                                                   ELSE Stop(s)

SenderOnly == UNCHANGED <<device, client, pushNow>>

Ask_Called(s) ==
    /\ stage[s] = "ask" /\ Unlocked
    /\ IF connected /\ called THEN Goto(s, job[s], "read") ELSE Stop(s)
    /\ UNCHANGED <<backend, link, holder, val, history, panicked, left>> /\ SenderOnly

\* Connected, asked by pushObserved, ReloadUserKeys and Reregister.
Ask(s) ==
    /\ stage[s] = "ask" /\ Unlocked
    /\ IF connected THEN Goto(s, job[s], "read") ELSE Stop(s)
    /\ UNCHANGED <<backend, link, holder, val, history, panicked, left>> /\ SenderOnly

\* The payload is put together; a store error ends a push.
Read(s) ==
    /\ stage[s] = "read" /\ ~panicked
    /\ \/ /\ Goto(s, job[s], "check")
          /\ val' = IF job[s] = "snapshot" THEN [val EXCEPT ![s] = rows] ELSE val
          /\ missed' = missed /\ left' = left
       \/ job[s] = "snapshot" /\ Stop(s) /\ val' = val /\ missed' = TRUE /\ Disturbed
    /\ UNCHANGED <<backend, link, holder, announced, asked, seen, panicked>> /\ SenderOnly

\* Emit, the first critical section.
Check(s) ==
    /\ stage[s] = "check" /\ Unlocked
    /\ IF connected /\ conn THEN Goto(s, job[s], "write") ELSE Sent(s)
    /\ UNCHANGED <<backend, link, holder, val, history, panicked, left>> /\ SenderOnly

Writes(s) == stage[s] = "write" /\ Unlocked

\* The backend has acknowledged the session, and takes its events.  Until it has
\* authenticated it too, it may drop them (pushTelemetry's comment says so of
\* agent:register); a dropped snapshot is left to the ticker.
Acknowledged == spc = "pump"
Taken(s) ==
    /\ backend' = IF job[s] = "snapshot" THEN val[s] ELSE backend
    /\ seen' = IF job[s] = "snapshot" /\ val[s] > seen THEN val[s] ELSE seen
    /\ missed' = missed
Dropped(s) ==
    /\ ~authed
    /\ missed' = (missed \/ job[s] = "snapshot")
    /\ UNCHANGED <<backend, seen>>

\* Emit, the second critical section: the write goes to c.conn as it is now.
\* In a session that is still in its handshake the backend drops the event, and
\* may close the connection.
Write(s) ==
    /\ Writes(s) /\ conn
    /\ \/ /\ link = "up" /\ Acknowledged /\ link' = link
          /\ Taken(s) \/ Dropped(s)
          /\ announced' = (announced \/ job[s] = "register")
       \/ /\ link = "up" /\ ~Acknowledged /\ link' \in {"up", "broken"}
          /\ UNCHANGED <<backend, announced, seen, missed>>
       \/ link # "up" /\ UNCHANGED <<backend, announced, seen, missed, link>>
    /\ Sent(s) /\ val' = [val EXCEPT ![s] = 0]
    /\ UNCHANGED <<asked, holder, panicked, left>> /\ SenderOnly

\* c.conn is nil.  net/http recovers a handler; any other goroutine takes the
\* process with it.
WriteNil(s) ==
    /\ Writes(s) /\ ~conn
    /\ IF s \in Request THEN Stop(s) /\ panicked' = panicked
                        ELSE panicked' = TRUE /\ UNCHANGED <<job, stage>>
    /\ UNCHANGED <<backend, link, holder, val, history, left>> /\ SenderOnly

\* The peer takes nothing: the write blocks, and c.mu with it.
WriteBlocks(s) ==
    /\ Writes(s) /\ conn /\ link = "stalled"
    /\ Goto(s, job[s], "blocked") /\ holder' = s
    /\ UNCHANGED <<backend, link, val, history, panicked, left>> /\ SenderOnly

\* The write returns an error, and the deferred Unlock runs.
WriteUnblocks(s) ==
    /\ stage[s] = "blocked" /\ link = "broken" /\ ~panicked
    /\ Sent(s) /\ holder' = None
    /\ UNCHANGED <<backend, link, val, history, panicked, left>> /\ SenderOnly

SenderStep(s) ==
    \/ Ask(s) \/ Read(s) \/ Check(s) \/ Write(s) \/ WriteNil(s)
    \/ WriteBlocks(s) \/ WriteUnblocks(s)

-----------------------------------------------------------------------------
(* Syncer.Run.                                                             *)

LoopOnly == UNCHANGED <<rows, backend, link, spc, conn, connected, authed,
                        called, holder, history, panicked>>

\* OnConnect and the handlers; then the first refresh, which is one of LoopRefresh.
LoopStart ==
    /\ stage[Loop] = "start" /\ Unlocked
    /\ onConnect' = TRUE
    /\ Stop(Loop)
    /\ UNCHANGED <<meta, token, pushNow, val, left>> /\ LoopOnly

LoopTick ==
    /\ stage[Loop] = "idle" /\ ~panicked
    /\ Goto(Loop, "snapshot", "ask")
    /\ UNCHANGED <<meta, token, onConnect, pushNow, val, left>> /\ LoopOnly

LoopPushNow ==
    /\ stage[Loop] = "idle" /\ ~panicked /\ pushNow
    /\ pushNow' = FALSE
    /\ Goto(Loop, "snapshot", "ask")
    /\ UNCHANGED <<meta, token, onConnect, val, left>> /\ LoopOnly

\* refreshDeviceToken got a new token; a refresh without one changes nothing.
LoopRefresh ==
    /\ stage[Loop] = "idle" /\ Unlocked /\ Disturbed
    /\ Goto(Loop, "token", "save")
    /\ val' = [val EXCEPT ![Loop] = token + 1]
    /\ UNCHANGED <<meta, token, onConnect, pushNow>> /\ LoopOnly

LoopSave_GoesOn ==
    /\ stage[Loop] = "save" /\ ~panicked
    /\ Goto(Loop, "token", "set")
    /\ \/ meta' = val[Loop] /\ left' = left
       \/ meta' = meta /\ Disturbed
    /\ UNCHANGED <<token, onConnect, pushNow, val>> /\ LoopOnly

\* SetMeta; when it fails the old token stays in use.
LoopSave ==
    /\ stage[Loop] = "save" /\ ~panicked
    /\ \/ meta' = val[Loop] /\ Goto(Loop, "token", "set") /\ left' = left
       \/ meta' = meta /\ Stop(Loop) /\ Disturbed
    /\ UNCHANGED <<token, onConnect, pushNow, val>> /\ LoopOnly

\* SetToken.
LoopSet ==
    /\ stage[Loop] = "set" /\ Unlocked
    /\ token' = val[Loop]
    /\ Stop(Loop)
    /\ UNCHANGED <<meta, onConnect, pushNow, val, left>> /\ LoopOnly

LoopStep ==
    \/ LoopStart \/ LoopTick \/ LoopPushNow \/ LoopRefresh \/ LoopSave \/ LoopSet
    \/ SenderStep(Loop)

-----------------------------------------------------------------------------
(* Changes, requests, the network and crashes.                             *)

ChangeRows_Unbuffered ==
    /\ Disturbed /\ ~panicked
    /\ rows' = rows + 1 /\ asked' = rows' /\ missed' = FALSE
    /\ pushNow' = (pushNow \/ stage[Loop] = "idle")
    /\ UNCHANGED <<meta, backend, link, client, holder, senders, announced, seen,
                   panicked>>

\* The worker or a teardown changed a row and calls PushNow.
ChangeRows ==
    /\ Disturbed /\ ~panicked
    /\ rows' = rows + 1 /\ asked' = rows' /\ missed' = FALSE
    /\ pushNow' = TRUE
    /\ UNCHANGED <<meta, backend, link, client, holder, senders, announced, seen,
                   panicked>>

\* What a snapshot says changed and nobody calls PushNow: a system instance, a
\* readiness that was reset, a domain's status, a template's state.
ChangeRowsQuietly ==
    /\ Disturbed /\ ~panicked
    /\ rows' = rows + 1
    /\ UNCHANGED <<meta, backend, link, client, holder, pushNow, senders, history,
                   panicked>>

\* An IPC request pinned or unpinned a key, or set the power mode.
Reregister(s) ==
    /\ Disturbed /\ ~panicked
    /\ stage[s] = "idle"
    /\ Goto(s, "register", "ask")
    /\ UNCHANGED <<device, backend, link, client, holder, pushNow, val, history, panicked>>

\* The backend has checked the session's token.
BackendAuthenticates ==
    /\ spc = "pump" /\ link = "up" /\ ~authed
    /\ authed' = TRUE
    /\ UNCHANGED <<device, backend, link, spc, conn, connected, token, onConnect, called,
                   holder, pushNow, senders, history, panicked, left>>

\* The connection breaks, or nothing gets through any more.
LinkFails ==
    /\ Disturbed
    /\ link = "up" /\ link' \in {"broken", "stalled"}
    /\ UNCHANGED <<device, backend, client, holder, pushNow, senders, history, panicked>>

\* TCP gives up on data that is not acknowledged.
KernelGivesUp ==
    /\ link = "stalled" /\ holder # None
    /\ link' = "broken"
    /\ UNCHANGED <<device, backend, client, holder, pushNow, senders, history,
                   panicked, left>>

Reborn_NoToken ==
    /\ link' = "none" /\ spc' = "idle" /\ conn' = FALSE /\ connected' = FALSE
    /\ holder' = None /\ token' = None /\ onConnect' = FALSE /\ pushNow' = FALSE
    /\ job' = [s \in Sender |-> "none"]
    /\ stage' = [s \in Sender |-> IF s = Loop THEN "start" ELSE "idle"]
    /\ val' = [s \in Sender |-> 0]
    /\ authed' = FALSE /\ called' = FALSE /\ announced' = FALSE /\ panicked' = FALSE
    /\ UNCHANGED <<asked, seen, missed>>

\* The memory of the next process: the token comes from the store.
Reborn ==
    /\ link' = "none" /\ spc' = "idle" /\ conn' = FALSE /\ connected' = FALSE
    /\ holder' = None /\ token' = meta /\ onConnect' = FALSE /\ pushNow' = FALSE
    /\ job' = [s \in Sender |-> "none"]
    /\ stage' = [s \in Sender |-> IF s = Loop THEN "start" ELSE "idle"]
    /\ val' = [s \in Sender |-> 0]
    /\ authed' = FALSE /\ called' = FALSE /\ announced' = FALSE /\ panicked' = FALSE
    /\ UNCHANGED <<asked, seen, missed>>

\* systemd starts the agent again.
Restart ==
    /\ panicked
    /\ Reborn
    /\ UNCHANGED <<device, backend, left>>

Crash ==
    /\ Disturbed /\ ~panicked
    /\ Reborn
    /\ UNCHANGED <<device, backend>>

Next ==
    \/ ClientStep \/ LoopStep
    \/ \E s \in Callback \union Request : SenderStep(s)
    \/ \E s \in Request : Reregister(s)
    \/ ChangeRows \/ ChangeRowsQuietly \/ BackendAuthenticates
    \/ LinkFails \/ KernelGivesUp \/ Restart \/ Crash

\* Goroutines run, tickers tick, reads have a deadline, TCP a retransmission
\* limit, the backend authenticates, and systemd restarts the agent.
Fairness ==
    /\ WF_vars(ClientStep) /\ WF_vars(LoopStep)
    /\ \A s \in Callback \union Request : WF_vars(SenderStep(s))
    /\ WF_vars(KernelGivesUp) /\ WF_vars(BackendAuthenticates) /\ WF_vars(Restart)

Spec == Init /\ [][Next]_vars /\ Fairness

-----------------------------------------------------------------------------
(* Properties.                                                             *)

TypeOK ==
    /\ rows \in Version /\ meta \in Version /\ token \in Version
    /\ backend \in Version
    /\ link \in {"none", "up", "broken", "stalled"}
    /\ spc \in {"idle", "open", "pump", "ended"}
    /\ conn \in BOOLEAN /\ connected \in BOOLEAN /\ authed \in BOOLEAN
    /\ onConnect \in BOOLEAN
    /\ holder \in Sender \union {None}
    /\ pushNow \in BOOLEAN /\ called \in BOOLEAN /\ announced \in BOOLEAN
    /\ asked \in Version /\ seen \in Version /\ missed \in BOOLEAN
    /\ job \in [Sender -> Job] /\ stage \in [Sender -> Stage]
    /\ val \in [Sender -> Version]
    /\ panicked \in BOOLEAN
    /\ left \in 0 .. MaxDisturbances

\* Once a session's callbacks are past their registration, a session that is up
\* has been sent one: no reconnect leaves the backend with a session the agent
\* never registered in, whatever older callbacks are still running (session,
\* OnConnect, sendRegister).  Two things it does not say: a session connected
\* before Syncer.Run has set the callback has none (~called), and a backend that is
\* still authenticating may drop the event, which is sent once.
Announced ==
    connected /\ link = "up" /\ called
      /\ (\A c \in Callback : job[c] # "register")
      => announced

\* A sender that has yet to read the rows, or carries those asked for.
Carries(s) ==
    \/ job[s] = "snapshot" /\ stage[s] \in {"ask", "read"}
    \/ job[s] = "snapshot" /\ stage[s] \in {"check", "write"} /\ val[s] >= asked
    \/ s \in Callback /\ job[s] = "register"

\* A change that calls PushNow does not wait for the ticker: as long as a session is
\* up and has not received the rows a push was asked for, a push that will tell them
\* is on its way or in the channel; a kick that finds the loop busy schedules one
\* more (PushNow, Run).  Left to the ticker are the changes nobody calls PushNow for
\* (ChangeRowsQuietly), and a push that met a store error or was dropped by a
\* backend still authenticating (missed, until the next kick).
KickNotLost ==
    connected /\ link = "up" /\ called /\ seen < asked /\ ~panicked /\ ~missed
      => pushNow \/ \E s \in Sender : Carries(s)

\* A token the agent dials with survives a restart: it never falls back to one
\* it had replaced (refreshDeviceToken).
TokenSurvives == token <= meta

\* Whatever is lost on the way (a dropped session, an event dropped by a backend that
\* is still authenticating, a write that blocks with the client's lock held, an older
\* snapshot that overtakes a newer one, a panic) and whoever forgot to kick, in the
\* end the backend knows the store (pushObserved, Run).
SnapshotArrives == <>[](backend = rows)

\* Emit never writes to a connection that is gone.
NoPanic == ~panicked
=============================================================================
