# TLA+ verification of obacht-agent

obacht-agent is the daemon on a self-hosted device (a Raspberry Pi, or a Mac
with a VM). It keeps the desired state of the installed apps in SQLite,
converges Docker towards it, takes orders from `obachtctl` over a unix socket
and user-signed mutations from the backend over a websocket, and reports back.

This directory holds TLA+ models of its core, the TLC configurations that check
them on small instances, and proofs that TLAPS checks for every value of the
constants. `PROJECT.json` maps every definition to the lines it models.

## Inventory

| Part | State | Operations | Interacts with |
|---|---|---|---|
| Reconcile loop (`internal/reconciler`) | trigger and kick channels, work queue, active job, snapshots of a pass | `Trigger`, `Run`, `reconcile`, `enqueueApply`, `runApplyWorker`, `applyOne`, teardown, orphan collection | store, both drivers, IPC, syncer (notify), ingress (trigger) |
| Container driver (`runtime/container`) | containers labelled by instance and configuration hash (in dockerd) | `Apply`, `Remove`, `List` | called by worker and pass |
| Compose driver (`runtime/compose`) | workspace directory, project (in dockerd), template secrets | `Apply`, `Remove`, `List` | called by worker and pass |
| Store (`internal/store`) | SQLite on one connection: instances, services, secrets, locks, domains, bindings, nonces, audit | one statement each | everything |
| IPC server (`internal/ipc`) | none of its own; concurrent HTTP handlers | instance upsert, set state, delete; domains; keys; template endpoints | store, `Trigger`, key reload |
| Signed mutations (`internal/signedmut`, `sync/signed_mutation.go`) | verifier's key set, nonce table | verify, dispatch, audit, prune | websocket read loop, store, IPC (reload) |
| Trust store (`signedmut/pinning.go`, `main.go`) | `user-keys.d`, import marker | pin, unpin, one-time import, load, hot reload | IPC, verifier |
| Websocket client, syncer (`internal/api`, `internal/sync`) | connection, connected flag, handlers, push channel | session, `Emit`, reconnect, register, push, token refresh | backend, every goroutine that emits |
| Readiness prober (`internal/readiness`) | starting goroutine per instance, failure counters, `service_ready` | `Begin`, `Forget`, `Set`, `RunSteady` | pass, worker, store |
| Ingress (`internal/ingress`, `store/domains.go`) | domains, bindings, services; staged Caddyfile, last hash, Caddy container, forwarders | `Bootstrap`, `Apply`, `Reload`; domain and binding requests | ingress loop, IPC, signed path, pass and worker (services) |
| System runtime and locks (`runtime/system`, `store/locks.go`, `cmd/obacht-power-toggle`) | binaries, files, units, the kiosk session, the recorded display manager, exclusivity locks | `Apply`, `Remove`, the root helper's `unit`, `svc`, `kiosk`, Power Mode | pass, systemd |
| Template configuration (`internal/manifest`) | the form values inside `config_json`, the echo the backend holds | materialise, resolve the keep-sentinel, redact | signed path, `obachtctl`, syncer, drivers |

What is hard here: the pass, the worker and the request handlers interleave at
every statement and every Docker call; the pass acts on snapshots that are
seconds old; a crash may fall between any two steps, and only SQLite, Docker and
the workspaces survive it; Docker calls fail half-way; the backend may repeat
envelopes; the wall clock of a device without a battery jumps.

What makes each part correct:

- *Reconcile loop:* apply and teardown of one instance never overlap; no job is
  lost or doubled; an uninstall leaves nothing in Docker; after the last request every
  instance reaches what its row asks for, through any crash.
- *Signed mutations:* an envelope takes effect at most once; only valid ones
  burn a nonce; a revoked key stays revoked; the audit log tells what happened.
- *Websocket client, syncer:* every session is announced; a change that asks for a
  push reaches the backend without waiting for the ticker, and every change in the
  end, through any failure; no sender meets a connection that is gone; a token in use survives a
  restart.
- *Readiness:* the verdict stored is that of the current incarnation of the app.
- *Ingress:* no change of the tables is lost on its way to Caddy; status and
  forwarded ports are those of the tables; Caddy serves what was last loaded, as
  long as nothing but Apply loads it.
- *System runtime and locks:* one user per group; the lock moves on when its
  holder stops; an uninstall leaves nothing; the desktop can be brought back; what
  is reported installed is what runs.
- *Template configuration:* a value the user keeps stays, a secret does not leave
  the device, the sentinel never becomes a value, and a program runs with what the
  values denote.

`PROJECT.json` lists the hazards one by one, each at its line, with the
properties that cover it.

## Modules

| Module | Models | |
|---|---|---|
| `Reconciler` | reconcile loop, both drivers, instance rows, IPC instance requests; implements `Deployment` | specification and properties |
| `MCReconciler` | which runtimes an instance may have | instance for TLC |
| `ReconcilerProofs` | seven theorems about `Reconciler` | proofs |
| `Deployment` | what the reconciler promises for an instance | abstract specification |
| `DeploymentProofs` | `Reconciler` implements `Deployment`; its orphan collection | proofs |
| `SignedMutation` | envelopes, verifier, nonces, trust store, start-up, key requests | specification and properties |
| `MCSignedMutation` | five envelopes | instance for TLC |
| `SignedMutationProofs` | five theorems about `SignedMutation` | proofs |
| `Readiness` | readiness prober and the reconciler's calls into it | specification and properties |
| `ReadinessProofs` | two theorems about `Readiness` | proofs |
| `Uplink` | websocket client, syncer, IPC requests that register | specification and properties |
| `UplinkProofs` | four theorems about `Uplink` | proofs |
| `Ingress` | domain, binding and service tables, their requests, the ingress manager, Caddy | specification and properties |
| `IngressProofs` | four theorems about `Ingress` | proofs |
| `ExclusiveUse` | what an exclusivity group promises | abstract specification |
| `SystemRuntime` | `reconcileSystem`, locks, Linux driver, root helper; implements `ExclusiveUse` | specification and properties |
| `MCSystemRuntime` | which configurations there are | instance for TLC |
| `SystemRuntimeProofs` | five theorems about `SystemRuntime` | proofs |
| `TemplateConfig` | form values, manifest, sentinel, echo, what the driver starts | specification and properties |
| `MCTemplateConfig` | two keys and four manifests | instance for TLC |
| `TemplateConfigProofs` | five theorems about `TemplateConfig` | proofs |

A definition called `X_Fault` (for example `Busy_IgnoresQueue`) is `X` with a
plausible bug. It is used by no specification; replacing `X` by it shows that a
property notices the bug.

### Reconciler

State: `row` is the instances table (desired state, runtime, configuration,
observed state, whether services are registered), `ctr` the container
`obacht-<id>` with its state and configuration hash, `proj` a compose project
split into the workspace file (`ws`) and what is up (`up`), `tsec` the rows of
`template_secrets`. `trigger` and `kick` are the two channels of capacity one;
`queue`, `pending` and `active` are `workQueue`, `workPending`, `workActive`.
`wpc`, `wrow`, `wobs` and `ppc`, `pdes`, `pobs`, `ptodo`, `rid`, `rstep` are the
local variables of the worker and of the pass; `req` is an IPC request between
the read and the write of its row.

SQLite is opened with one connection, so each statement is a step. Each Docker
or compose call is a step, and so is each critical section under `workMu`. The
worker goes `read`, `parse`, `mark`, then `find`, `create`, `start` (container)
or `write`, `up` (compose), then `svc`, `obs`, `fresh`, `finish`. A pass goes
`list`, `observe`, `each` (enqueue, defer or tear down every row), `gcctr`,
`gccmp`. A configuration is an opaque value compared by hash; `BadCfg` are the
ones that do not parse. Rows of the runtime `system` are not in this module.

A hard delete (`DELETE /instances/{id}?hard=1`) is allowed for the instances in
`HardDeletable`; `DownMayFail` lets both ways of taking a compose project down
fail; `Ticking` is the 30 s ticker. The properties name the instances they hold
for: `Soft` are those nobody hard-deletes, `Steady` those of them that keep their
runtime, `Kept` those of them that `compose down`, where it may fail, is not needed
for. What happens to the other instances in the meantime is not restricted.

A teardown keeps the code's two kinds of failure apart. When Docker or the cleanup
of a workspace fails the row stays and the next pass tries again
(`TeardownFails`). When the template secrets of a container cannot be dropped the
code logs it and deletes the row (`loop.go:869-871`, `TeardownDropSecrets`), so
`UninstallLeavesNothing` is about the secrets of compose instances only. `Settled`
describes a stopped compose instance as the code leaves it, without workspace and
secrets; the comment at `loop.go:1095-1096` says otherwise, see the findings.

`Deployment` is the loop as a user of the device sees it: what is wanted of each
instance, the wishes the agent last read, its job (none, apply, teardown), the
configuration that is up and whether it is reported installed. An apply begins
with the wish of that moment and may bring up only that configuration; a teardown
begins with a wish that may be outdated; a report needs the configuration to be up;
an instance is forgotten when nothing of it is up and its removal was read; a
restart drops the jobs and nothing else. The mapping (`Wanted`, `Doing`, `Held`)
takes the job from the worker's and the pass's program counters, and what is up
from Docker. `DeploysAsAsked` is `Deployment`'s specification under it. The lost
re-install of `reconciler_reinstall` is a behaviour of `Deployment` too: `Forget`
looks at the wish that was read.

### SignedMutation

State: `disk` is `user-keys.d`, `keys` the verifier's set, `seen` the nonce table
with the time of each mark, `clock` the wall clock, which may be set back by up
to `MaxBack`. `hpc`, `henv`, `hkeys`, `hnow`, `hout`, `hctx` are the handler's
locals; there is one handler, because handlers run in the websocket read loop.
`areq` are the IPC key requests, of which several may run. `boot` follows `main`
through the one-time import, the start of the IPC server, the load of the keys
and the wiring of the reload callback. `applied`, `oklog`, `cut`, `unpinned`,
`revoked` and `hrevoked` are history: what was done, what was logged, whose handler
did not get to its audit row, which keys had their pin removed and were not pinned
again, which of these count as revoked, and which did when the handler started.

Results that the code ignores may be failures here too: `GetMeta` and `SetMeta` of
the import marker, a pin during the import, the append of the audit row. A key is
revoked when its unpin is answered `reloaded`, or at the next start if it was
answered `reloaded:false` or not at all: the IPC server is up before the reload is
wired (`main.go:225`), and such an unpin is in effect in later runs of the agent
only. A start that imports `authorized_keys` (an empty `user-keys.d`, and no marker
that it can read) is the one thing that takes a key out of `revoked`; that it may
undo a deliberate unpin is a finding.

An envelope is its signer, nonce, window and two Booleans for signature and
device. The window is computed as the code does it, in 64-bit arithmetic with
wrap-around (`Sub`), and `BurnsOnlyValid` states it in plain integers. `Verify`
does not check the range of the two fields; `canonicalize`, which it calls for the
signed bytes, refuses integers beyond 2^53 - 1 (`Canonical`, `jcs.go`), and this
keeps the two readings in agreement: one of the envelopes of the run has a window
that wraps, and without `Canonical` it is accepted.
The effect of a mutation on the instance rows is `Upsert`, `SetStateRead` and
`SetStateWrite` of `Reconciler`; here a dispatch succeeds or fails.

### Readiness

One container instance, and every goroutine that has a say in its signal: the
apply worker, the pass and the starting goroutines (`Run`; an identity is reused
once its goroutine has ended). `row` is the instance row reduced to desired
state, whether `observed_state` is `installed`, and `service_ready`. `ctr` is the
container: absent, exited, running but not answering (`booting`), or answering
(`serving`); `stale` says that its configuration is not the row's; `addr` is its
address. `active`, `failures` and `ips` are the Prober's maps at this instance,
`cancelled` the runs whose context is cancelled. `rpc`, `wpc` and `ppc` follow
`runStarting`, `applyOne` and `reconcile` from one lock, statement or Docker call
to the next; the worker and the pass are the ones of `Reconciler`, cut down to
what readiness reads.

Three simplifications. A probe is one step, and an `Inspect` that fails or an
answer that comes too late is an app that does not answer. `Set` is one write,
with the argument given at its definition. Deadlines are a choice: a failed probe
may be the last one or not. The deployment is Linux, where the container's
address is reachable; `bound` says that the probe goes through Caddy, which falls
back to the address when Caddy does not answer.

### Uplink

Who sends: the loop of `Syncer.Run`, the goroutines of `onConnect` (`Callback`; an
identity is reused once its goroutine has ended) and IPC requests that register
anew (`Request`). Each has a `job` (a registration, a snapshot, a token refresh),
a `stage` and the `val` it read. A sender goes `ask` (`Connected`), `read` (the
store), `check` and `write` (the two critical sections of `Emit`); a write into a
stalled connection is `blocked` with `c.mu` in its hands (`holder`). `spc` follows
`Client.Run` through dial, handshake (`open`), read loop (`pump`), the end of the
session and the backoff (`idle`). `conn`, `connected`, `token` and `onConnect` are
the client's fields, `pushNow` the channel of capacity one, `link` the TCP
connection as the network has it. `backend` is what the backend was told last.
`authed` says that the backend has authenticated the session. `called`, `announced`,
`asked`, `seen` and `missed` are history: this session had a callback, was sent a
registration; the newest rows a push was asked for, the newest snapshot the backend
received in this session, and whether a push met an error or was dropped.

Data are versions: `rows` counts changes of what a snapshot says, `meta` is the
stored token; what a registration says is left out. A change of the rows kicks the
push channel (`ChangeRows`) or does not (`ChangeRowsQuietly`: the writers of
`loop.go:523-527`, `707` and `900-977`, `caddy.go:192` and `server.go:854` never call
`PushNow`). An event that is written while the backend authenticates may be
dropped (`Dropped`): `syncer.go:361-363` says so of the registration, which is sent
once per session, so `Announced` speaks of what was sent and not of what the backend
took. A session that connects before `Syncer.Run` has set the callback has none.

Three simplifications. A snapshot is one read, where the code makes several; a
change between two of them is told by the push it kicks, or by the ticker.
Telemetry is sent on the path of a snapshot and is left out, as are progress events,
which are sent once and never again. The pong to a server's ping takes the lock that
`Emit` takes, and checks for nil under it. An event written before the handshake
is done is dropped by the backend, which may close the connection.

### Ingress

State: `dom`, `bind` and `svc` are the three tables, `rec` and `trig` the trigger
channels of the reconciler and of the ingress loop. Bootstrap, Apply and the
handlers are threads with a `pc`; Bootstrap and Apply share no lock. Apply goes
`domains`, `bindings`, `services` (one SELECT each), `rendered`, `writing`
(the file is truncated and written in place), `ensure`, `copy` and `put` (only
where the file is copied into the container), `reload` and `post` (the command
reads the file, then posts it), `observe`. A handler changes a table, may run the
same chain as `Reload`, and then notifies whom its `todo` names: this differs from
request to request, which is what `NoLostUpdate` is about. `file` is the staged
Caddyfile, `inner` the copy in the container, `caddy` the container and what it
serves. A configuration is the function from domains to sites that the text says.

`owed` and `off` are history. `owed` says that an error left the next attempt to
the tick, which the code does knowingly. `off` is the set of causes, since the last
Apply that had something to load, for which Caddy may serve another configuration
than `lastHash` says:

- `boot`: Bootstrap wrote the file, with a render that may be older than Apply's;
- `overlap`: Bootstrap and Apply wrote it at the same time;
- `late`: a handler's Reload delivered a text it had read before Apply replaced it;
- `failed`: a call failed after the file was written;
- `exited`: Caddy exited and Docker did not start it again; an Apply that renders
  the same text does not look at Caddy (`caddy.go:154-163`);
- `unnoticed`: the reload command failed and `reloadCaddy` took it for done, as it
  checks neither the status of the exec's start nor the decoding of its inspection
  (`caddy.go:886-910`).

In each case Caddy stays as it is until the tables change again. `InSync` says that
these six are all, and that none of them outlives the next Apply that loads.

### SystemRuntime and ExclusiveUse

A pass takes the system instances one after another, from the rows it listed
(`seen`). A turn goes `lock`, `insert` (the two statements of `TryAcquireLock`),
`apply`, then `extract`, `files`, `install`, `restart` for a managed service or
one step for a kiosk, and `observe`; or `remove`, `release`, `settle`. A call of
the root helper is one step with its whole effect or a prefix of it. `unit`,
`files`, `proc` are what systemd and the disk hold of an instance, `kiosk` is the
one session of the device, `dm` the display manager, `snap` the record of it, `desk`
what it was before any kiosk. `sudo` is Power Mode: without it every helper call
fails.

The root helper ignores what `systemctl` answers in several places, so a refused
call is a choice there: the `disable --now` of a service that is removed, the
`disable` of the display manager when a kiosk is enabled, and its `enable` and
`start` when the kiosk is disabled, after which the record is deleted in any case
(`power-toggle/main.go:465-468`). A configuration without a
flavor (`none`, `empty`) is refused, or passed over when it is empty
(`ErrEmptySpec`, action `Skip`), and its removal goes the way of a service.

`half`, `astray` and `unrestored` are history and mark what the code does not
repair. An Apply that wrote files and did not get to the restart (`half`) leaves a
service that runs the old ones: the next Apply finds nothing changed. An instance is
`astray` when, with something of it up or its turn due, it was hard-deleted or
changed between kiosk and service, or when systemd did not stop what was removed:
Remove then tears down the wrong kind, is not called, or did not work.
`unrestored` says that systemd refused to bring the desktop back and the record of
it is gone.

`ExclusiveUse` has one variable, the users of each group, and one action: some
instances stop, and one may start under groups that are then free. The refinement
mapping takes the users from what really runs (`proc`, `kiosk`) and not from the
table of locks; the property `OneUserPerGroup` is `ExclusiveUse`'s specification
under that mapping.

### TemplateConfig

One instance, and the way of its form values around the loop: the backend holds a
`form`, a user changes a field and sends all of it with a manifest (`Ask`), the
handler resolves every keep-sentinel against the stored row and materialises and
writes the row in a second step, the syncer echoes the row with secrets replaced
by the sentinel, and the driver starts a program (`app`) with the result. Other
requests rewrite or delete the row in between.

Two history variables tell what was asked for from what became of it. `user` holds,
key by key, the value that the requests asked for in the order they were answered;
no write to the row changes it. `lost` are the keys whose value was taken by
something nobody asked for: a write of a row that was read before another request
wrote it (a request that was overtaken is `torn`), or a read that failed on the
signed path, after which every sentinel means the empty value.

A text is opaque, except that some consist of one placeholder; substitution is
the code's bounded iteration (`Rounds`). `Denotes` is the reference: the end of a
chain of references in the user's values, by existence and without iteration. A
manifest is reduced to the keys its fields name. `needs` stands for the fields
that may not be empty (image, primary service). Rows of an older agent, which
carry no list of secret keys, are initial states; what their manifest declared is
remembered, and `SecretsHidden` makes the exception that `secrets.go:126-128` makes,
a declared secret whose key does not look like one. A raw upsert stores what it is
given, the sentinel included (`raw`); the properties say nothing of such a row
itself, and hold again of every row that is built from it.

## Runs

| Run | Result | What it shows |
|---|---|---|
| `reconciler_safety` | pass | queue, kick and exclusion invariants, clean uninstall, no false orphans, honest `installed`, with a Docker or store failure anywhere |
| `reconciler_live` | pass | convergence and service of every queued job, and `Deployment` for the compose instance, through a crash anywhere |
| `reconciler_reinstall` | violation | a re-install during an uninstall is deleted |
| `signed_mutation_safety` | pass | at most once, revocation, audit, nonce order; with crashes, timeouts and failing calls whose result is ignored |
| `signed_mutation_unpin_race` | violation | two concurrent key requests can bring an unpinned key back |
| `readiness` | pass | one owner of the verdict; the signal follows the app; a stopped instance ends without one |
| `uplink` | pass | sessions are sent a registration, kicks and tokens kept, the newest snapshot arrives, through dropped and stalled connections, dropped events, changes without a kick, store errors, panics and crashes |
| `uplink_emit_race` | violation | a disconnect between the two halves of `Emit` ends the agent |
| `ingress` | pass | no table change is lost, status and forwarders settle, Caddy serves the last loaded file up to six named causes; with failed and unnoticed calls, a dying agent or Caddy, Bootstrap beside Apply |
| `system` | pass | the driver and its locks implement exclusive use; nothing stays behind that systemd stopped; the desktop is recorded until systemd was asked for it; reports are true; a lock moves on |
| `system_kiosk_flap` | violation | a stopped kiosk tears down the holder's session in every pass |
| `template_config` | pass | kept values stay up to the named losses, secrets are hidden, the sentinel is never stored, programs get what the values denote |

The four violations are disagreements between a comment of the repository and
what its code does. Seven more divergences show in passing runs: the property makes
an exception for what the code does, and with the exception taken out TLC finds the
state the comment rules out. `PROJECT.json` quotes all of them under `findings`:

- Stopping a compose app deletes its workspace and template secrets
  (`compose.go:394-409`), although `loop.go:1095-1096` says it does not
  (`Converges`).
- A start may import `authorized_keys` again after a deliberate unpin, which
  `main.go:260-262` rules out: the marker is missing when an earlier start could not
  read the file or failed to set it, or when this one cannot read it
  (`RevocationHolds`).
- Several writers of what a snapshot says never call `PushNow`, although
  `main.go:215` and `syncer.go:156-157` promise real transitions at once
  (`KickNotLost`).
- Apply never looks at Caddy, although `docs/ARCHITECTURE.md` names Caddy's
  configuration as an observed state the loop converges (`InSync`).
- The helper drops the record of the desktop also when systemd refused to bring it
  back (`power-toggle/main.go:465-468` against `260-262`, `DesktopRecorded`).
- A failed read of the row counts as a missing row on the signed path
  (`signed_mutation.go:390-394`), so that kept values become empty, against
  `secrets.go:17-18`; `obachtctl` treats the same failure as fatal
  (`KeepMeansKeep`).
- A set-state request writes the whole row it read and undoes a reconfiguration
  that was answered in between (`server.go:513-544`, `KeepMeansKeep`).

The models show more of this kind, which no property asks for:

- A hard delete during a compose apply (`HardDeletable` not empty) lets the orphan
  collection remove the workspace beside the apply, because it does not ask
  `workerBusyWith` (`loop.go:575`); the project then runs and nothing can find it.
  `RunningProjectsAreFindable` is therefore about the instances nobody hard-deletes.
- A stop that falls between the second read of `applyOne` and the reset of
  `workActive` (`loop.go:445`, `392`) is deferred by its own pass and left to the
  tick, which the comment at `loop.go:442-444` means to avoid.
- With two addresses (`Addr`), a container that Docker restarts at another one stays
  unhealthy: `containerIP` prefers the cached address and only `Begin` and `Forget`
  drop it (`probe.go:396`).
- A kiosk is restarted by every pass (`driver_linux.go:163-173`), although
  `driver_linux.go:92-93` calls the steady state one that does not touch systemd.
- `obachtctl instance set-state` marshals its body twice (`obachtctl/main.go:358`):
  the server answers 400 to a JSON string. The request itself is modelled.

### Bounds

`reconciler_safety`: two instances, one of each runtime, are needed for a queue
of two jobs and for a pass that handles one instance while the worker handles
the other; a third would only add queue positions (the queue invariants are
proved for any number). Two configurations make a reconfiguration. Two requests
suffice for install and uninstall, install and reconfigure, or one of each per
instance; with the one fault they reach every branch of apply and teardown.
`reconciler_live` trades the fault for a crash and the second good configuration
for one that does not parse; `Kept` is there the compose instance, and the
container instance is the one that is hard-deleted beside it. Under the bounds of
`reconciler_safety`, with a Docker failure for either instance, `DeploysAsAsked`
holds too (`Reconciler_refines.cfg`). `reconciler_reinstall` needs one instance and
three requests.

`signed_mutation_safety`: lifetime 1, skew 1, largest correction 1 and retention 3
satisfy `Retention >= MaxLifetime + Skew + MaxBack` with equality, the tightest
case; the real values are 600 s, 30 s and 24 h, which leaves the clock more than 23
h. The envelopes are a valid one, one that uses the same nonce again after it was
pruned, one whose window is too long, one whose window wraps in 64 bits and one with
a bad signature. Two faults (a crash, a timeout or a failing call whose result is
ignored) and two key operations allow a revoke after a restart, and an import that
undoes it. Deadlock checking is off where the bounded clock and the spent requests
let the model stop.

`readiness`: every row and container the agent may find when it starts is an
initial state, so that one disturbance (a request, a store or Docker error, an
app that hangs or exits, a crash) meets every phase, and the effects of an
earlier life are there from the start. Two runs are what a replaced goroutine
and its successor need; `Begin` waits while both are in use, and a cancelled run
always ends. `UnhealthyAfter` is 2, the least value at which a failure is counted
and does not yet flip the state; the code has 3. `Addr` has one element: Docker
keeps the address. `Bindings = {TRUE}` lets the run take both ways of probing.

`uplink`: two callbacks are those of a session that died and of its successor;
`Handshake` waits when both are in use, and a callback always ends. With the loop
and one request there are four senders, so that a registration and two snapshots
may overtake each other. Three disturbances are, for example, a change, a dropped
connection and a second change, or a change, a dropped event and a crash. The run
has 1.2 million states; the violation needs one callback and one drop.

`ingress`: one domain, instance and port, since sites do not interact, and one
handler beside Apply, Bootstrap and the pass, so that a change meets each of them
at every step; two events are two changes, or a change and a failure or crash.
`Containerized` takes the longer delivery, through the container. The run has 5.7
million states. The stopping of
the model when the events are used up is no deadlock of the system.

`system`: two instances compete. The configurations are a service and a kiosk in one
group, a second service in another group in two versions (same files, different
binaries, so that both a change of files and one of the binary are met), a kiosk
that does not validate, a host service that Apply refuses and an empty
configuration. Two events suffice for a change of group or flavor and a failure
after it; every instance may be installed at the start. The run has 2.0 million
states; the violation needs two kiosks and one request.

`template_config`: two keys, one of which looks secret by its name; texts are the
empty one, the sentinel, a plain one, one with a line break and a placeholder that
may refer to itself (so there are cycles); the manifests differ in runtime, secret
fields and defaults. Two handlers, one of each path, race; two events are two
requests, each of which takes several steps, on top of the rows an earlier agent
left. The run has 4.1 million states. A second placeholder, which would make chains
longer than one reference and so tell the cap of five rounds from a smaller one,
more than doubles its time; what the rounds compute for chains of any length is
lemma `SubstStringDenotes`.

### Fairness

`FairSpec` of `Reconciler` assumes weak fairness of the worker, of the pass, of
taking a trigger, of the ticker and of the second half of an IPC request. The
first two are goroutines that Go schedules and whose Docker calls end (each is
bound to a context or ends with an error); the ticker fires for ever; Go's
`select` picks among ready cases at random, so neither ticker nor trigger is
starved; an HTTP handler that has read a row goes on to write it. Nothing is
assumed of users, of Docker failures, of exits or of crashes, which may never
happen.

`Spec` of `Readiness` assumes weak fairness of the pass (the ticker starts the
next one), of the worker and of every starting goroutine. Strong fairness of
`RunTimesOut` stands for the deadline: a goroutine whose probes keep failing is
looked at again every 5 s, and one of these times lies after the deadline. The
app need not answer, Docker need not restart it, and no user does anything.

`Spec` of `Uplink` assumes weak fairness of `Client.Run`, of the loop (its ticker
fires every 30 s), of every callback and request, of the backend, which
authenticates a session or ends it, of TCP, which gives up on data nobody
acknowledges, and of systemd (`Restart=always`). A session that is stalled ends
because each read has a deadline of 60 s. A dial may fail only as often as the bound
allows: a network that never comes back promises nothing.

`FairSpec` of `SystemRuntime` assumes weak fairness of the pass: the ticker starts
one every 30 s, and it goes on from instance to instance whatever fails. `Served`
claims nothing while Power Mode is off, a binary is torn or another instance is
wanted too. `Ingress` and `TemplateConfig` claim safety only.

## Proofs

`ReconcilerProofs` proves, for any sets of instances and configurations:

- `TypeCorrect`: `TypeOK`, strengthened by `TypeInv`, which ties the worker's and
  the pass's program counters to `active`, `rid` and the rows they hold. Without
  it an access such as `row[active]` cannot be typed.
- `OneJob`: `OneJobPerInstance`, which is inductive with `TypeInv`. Most steps do
  not touch the queue (lemma `WorkFrame`); the enqueue and the pop are the cases.
- `KickIsKept`: `NoLostKick`, from `OneJob`'s facts and the program counters.
- `ApplyRemoveExclusion`: `NoApplyRemoveOverlap`. The invariant `Exclusion` says
  that the instance being torn down has a row or had one in the snapshot that
  asked for it, that only the pass deletes the rows of soft instances, and that
  therefore the orphan collection never meets one that the worker holds. For an
  instance that is itself hard-deleted the property is false, because the orphan
  collection does not ask `workerBusyWith`.
- `InstalledMeansApplied`: `InstalledIsEarned`. `EarnedInv` says what each step of
  an apply leaves for the next one; nothing takes it away in between, because the
  exclusion keeps every teardown from the instance.
- `UninstallIsComplete`: `UninstallLeavesNothing`. `KindInv` ties rows, their copies
  and the teardown to the instance's runtime, `LeaveInv` says that a teardown which
  is about to delete the row has removed container, workspace and, for compose, the
  secrets, and the exclusion that no apply puts anything back. After a change of
  runtime a removal asks only the driver the row names, and the rest is left to the
  orphan collection of a later pass.
- `RunningProjectsAreFindable`: when `compose down` works (`DownMayFail = FALSE`,
  the one premise), `ProjectFindable`. `FindInv` is the property, `CleanInv` says
  that what is about to lose its workspace is down; they rest on the exclusion
  and on `ConfigInv` (the worker's configuration is a real one).

The last four are proved instance by instance: a hard delete, a change of runtime or
a failed `compose down` of one instance leaves what is said of the others intact.

`DeploymentProofs` proves, for any sets of instances and configurations:

- `ReconcilerImplementsDeployment`: `DeploysAsAsked`. The invariant is `RefineInv`:
  `DeployInv` (the queue, the exclusion and the invariants of the apply and the
  teardown above), `FindInv` and `CleanInv`, and two that only the refinement needs.
  `ReadInv`: a teardown that is going to delete the row has read that the row is to
  be removed. `OrphanInv`: a steady instance
  that the snapshot lacks has neither container nor workspace, so the orphan
  collection, which is no job of `Deployment`, never takes one up. One lemma per
  abstract action (`AskMaps`, `LookMaps`, ...) says which change of one instance is
  that action, and one per group of concrete steps (`WorkerImplements`,
  `VisitImplements`, `TeardownImplements`, `OtherImplements`) which of them it is.
- `NoFalseOrphans`: `OrphansAreStrangers`, inductive with `RefineInv`.

`SignedMutationProofs` proves, for any keys, envelopes and bounds:

- `TypeCorrect`: `TypeOK` is inductive.
- `ReplayProtection`: `AtMostOnce`. The inductive invariant `OnceInv` says that an
  envelope that was applied, or was accepted and is about to be, is `Spent`: its
  nonce is in the table, or was marked so long ago that even a clock set back by
  `MaxBack` cannot reopen its window. The latter needs `Retention >= MaxLifetime
  + Skew + MaxBack` and `2 * MaxSafe <= IntMax`, assumptions on the constants
  (`MaxSafe` is the 2^53 - 1 of `canonicalize`). Envelopes may hold any
  64-bit integers: those whose window would wrap do not pass `Canonical`.
- `OnlyValidBurns`: `BurnsOnlyValid`, the order of the checks in `Verify` and the
  equivalence of the 64-bit window with the integer one for what `Canonical` lets
  through.
- `RevocationIsFinal`: `RevocationHolds` when there is one key request at a time
  (`TrustInv`: a revoked key is neither on disk, in the verifier nor in a loaded
  set), through restarts, up to the start that imports the keys anew. With two
  requests it is false, the finding of `signed_mutation_unpin_race`.
- `AuditTellsTheTruth`: `LogMatchesEffect`. `LogInv` adds that the outcome `ok`
  exists only between a dispatch that took effect and its row, and that a handler
  whose context is gone, or whose append failed, is among the cut ones.

`ReadinessProofs` proves, for any set of goroutines, addresses and any limit:

- `TypeCorrect`: `TypeOK` is inductive.
- `OneOwner`: `Ownership`. It needs `Quiet`, that a goroutine that has ended left
  no cancelled context behind: otherwise the next `Begin` could register a run
  that counts as cancelled. Only `Begin`, `Forget`, `markDone` and the end of a
  run touch the registration (lemmas `OwnerBegin`, `OwnerReturns`); every other
  step is `OwnerMoves` or `OwnerUnchanged`.

`UplinkProofs` proves, for any callbacks, requests and number of disturbances:

- `TypeCorrect`: `TypeOK`. Versions are bounded by what has been spent of the
  disturbances, so the invariant is `TypeInv`, which adds `Bounded`.
- `TokenIsKept`: `TokenSurvives`, also from `Bounded`: between the two halves of a
  refresh the loop holds a token that is not older than the one in use, and after
  the first half one that is stored.
- `SessionsAnnounced`: `Announced`, with `SessionInv`: `connected` belongs to one
  session (it is false while the next is dialled), and a session whose connection
  works is being read. A callback that stops registering has then either written its
  registration, or met a session that is over (lemma `AnnounceSender`).
- `KicksAreKept`: `KickNotLost`, inductive with `SessionInv`. What was asked for is
  in the channel, the loop takes a kick only to send a snapshot, and a sender that
  gives up has met a store error, a backend that dropped the event or a session that
  is over.

`IngressProofs` proves, for any domains, instances, ports and handlers:

- `TypeCorrect`: `TypeOK` is inductive.
- `UpdatesAreNotLost` and `StatusIsCurrent`: `NoLostUpdate` and `StatusSettles`.
  `UpdateInv` says that a trigger is pending or everything Apply has read so far,
  and what it has loaded, is that of the tables now (`UpToDate`). A handler changes
  a table before it triggers, so a change never finds `UpToDate` without `Pending`
  (`Rested`: an idle handler owes no trigger).
- `CaddyServesLastHash`: `InSync`. `SyncInv` follows the text from the file through
  the container to Caddy, step by step, unless one of the six causes (`off`) came
  between; `BootInv` says that Bootstrap writes the file and starts
  Caddy, and neither copies nor reloads.

`SystemRuntimeProofs` proves, for any instances, groups and configurations:

- `TypeCorrect`: `TypeOK` is inductive; `DesktopIsRecorded`: so is
  `DesktopRecorded`, as the snapshot is written first and removed last. It says
  nothing of a desktop that systemd refused to bring back (`unrestored`).
- `NothingStaysBehind`: `GoneIsGone`, and `ExclusiveUseHolds`: `OneUserPerGroup`,
  the refinement of `ExclusiveUse`. Both rest on `OwnerInv`: what is up of an
  instance belongs to its row, is of the row's kind and holds the lock of its group
  (`Mine`), and after `Remove` nothing is up (`TurnInv`). For the refinement every
  step either starts nothing or starts the instance whose turn it is, which then
  holds the lock. Instances that went astray (hard-deleted or changed in kind while
  they were up, or not stopped by systemd) are excepted by the properties.
- `ReportsAreTrue`: `ReportedRuns`, from `ReportInv`: a service runs what is on
  disk unless its restart is due in this turn or was missed (`Fresh`), and the disk
  holds what the turn wrote (`Written`).

`TemplateConfigProofs` proves, for any keys, texts, manifests and handlers:

- `TypeCorrect`: `TypeOK` is inductive.
- `SentinelNeverStored`, `KeptIsKept`, `SecretsStayHome` and
  `ProgramsGetTheirValues`: `SentinelStaysOut`, `KeepMeansKeep`, `SecretsHidden` and
  `AppDenotes`, all from one invariant `ConfigInv`. It says what holds of any
  row by itself (`RowInv`), that the row has the values that were asked for and not
  lost (`WishInv`), what a request took along of the row that is there now, unless it
  was overtaken (`ReqInv`), and that the program was started from such a row
  (`AppInv`). That the substituter's five rounds end at the end of a
  chain of references is lemma `SubstStringDenotes`: a round follows at most one
  reference (`Chain`, `Reaches`).

The assumptions are those of the modules on their constants, and where a theorem
has a premise it is named above. Only model-checked are the liveness properties
`Converges`, `QueuedIsServed`, `Truthful`, `StoppedIsCleared`, `SnapshotArrives`
and `Served`: liveness under fairness is out of the prover's reach.

## Not modelled

Of the reconciler: the synchronous `RunOnce` (tests and `reconcile run`), image
pulls and reclaim, networks, post-start hooks. `templateState` may overwrite the
observed state from inside an app; it is left out, so `InstalledIsEarned` is about
the agent's own writes. Of readiness: host services that report through their
hooks, host ports, and Docker's own health check, which the agent falls back to
where it has no route to the container. Of the channel to the backend: telemetry,
progress events, pongs, and the dispatch of incoming events other than signed
mutations. Of ingress: the scan of certificates and the permissions of their store
(read-only or best effort), the recovery of ports a dead container still binds, and
the text of the Caddyfile. Of the system runtime: the macOS driver and its garbage
collection, the text of units and `unitpolicy`, which checks that text. Of the
manifest: signatures and the trust bundle, services, disk requirement, version
comparison, the guard against a second host service, and the compose allowlist.
The bootstrap exchange with the backend is sequential and runs once; file transfer,
log streaming and inventory keep no state.

## Plan

1. The macOS side: the system driver's garbage collection and the host-service
   singleton guard, as further actions of `SystemRuntime`.
2. The template endpoints of the IPC server (`templateState`, secrets), in
   `Reconciler` and `TemplateConfig`; the bootstrap exchange.
3. The pure validators (unit policy, compose allowlist) as operators against a
   reference definition.
