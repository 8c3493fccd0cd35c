--------------------------- MODULE SignedMutation ---------------------------
(***************************************************************************)
(* User-signed mutations (internal/signedmut, internal/sync/               *)
(* signed_mutation.go): the one inbound event that may change the device.  *)
(* The backend may drop, delay, reorder and repeat envelopes at will.  The *)
(* agent checks each one against the user keys its verifier holds and the  *)
(* wall clock, burns the nonce, and only then dispatches.  Meanwhile       *)
(* obachtctl pins and unpins keys over IPC, and the agent may die.         *)
(*                                                                         *)
(* Handlers run in the websocket read loop, one at a time; IPC requests    *)
(* run concurrently.                                                       *)
(***************************************************************************)
EXTENDS Integers, FiniteSets

CONSTANTS
    Key,            \* user keys
    Nonce,
    Env,            \* the envelopes in circulation, see EnvType
    None,           \* no envelope
    Admin,          \* IPC requests that may be served concurrently
    InitialKeys,    \* pinned by install.sh
    AuthKeys,       \* ed25519 lines of authorized_keys
    AuthLate,       \* authorized_keys is not readable at first
    Skew,           \* clockSkew
    MaxLifetime,    \* maxLifetime
    Retention,      \* nonceRetention
    MaxBack,        \* how far the wall clock may be set back
    IntMax,         \* the largest int64
    MaxSafe,        \* maxSafeInteger
    MaxTime,        \* bound: the wall clock
    MaxKeyOps,      \* bound: pins and unpins
    MaxFaults       \* bound: crashes, timeouts of a handler, failing store calls

Never == -1         \* not in signed_mutation_nonces

\* What Verify reads of an envelope: the signer, whether the signature and the
\* device binding hold, the nonce and the validity window.
EnvType == [key : Key, nonce : Nonce, sig : BOOLEAN, dev : BOOLEAN,
            iat : Int, exp : Int]

\* iat and exp are any int64.
ASSUME EnvAssumption ==
    /\ Env \subseteq EnvType /\ None \notin Env
    /\ \A e \in Env : {e.iat, e.exp} \subseteq -IntMax - 1 .. IntMax

\* A nonce outlives every window it could be replayed in, even when the clock
\* is set back: 24h against 10min + 30s leaves hours for the clock.
ASSUME TimeAssumption ==
    /\ Skew \in Nat /\ MaxLifetime \in Nat /\ Retention \in Nat /\ MaxBack \in Nat
    /\ Retention >= MaxLifetime + Skew + MaxBack
    /\ IntMax \in Nat /\ MaxSafe \in Nat
    /\ 2 * MaxSafe <= IntMax  \* 2^53 - 1 against 2^63 - 1
    /\ MaxTime \in Nat

ASSUME BoundsAssumption ==
    /\ InitialKeys \subseteq Key /\ AuthKeys \subseteq Key /\ AuthLate \in BOOLEAN
    /\ MaxKeyOps \in Nat /\ MaxFaults \in Nat

VARIABLES
    clock, high,    \* the wall clock, and the latest time it ever showed
    disk,           \* the keys pinned in user-keys.d
    auth,           \* authorized_keys can be read
    marker,         \* agent_meta user_keys_imported
    boot,           \* how far main has come
    itodo,          \* keys importUserKeysOnce has still to pin
    keys,           \* the verifier's keys
    seen,           \* signed_mutation_nonces: when each nonce was marked
    hpc, henv,      \* the handler and the envelope it handles
    hkeys,          \* getVerifier's snapshot
    hnow,           \* the time Verify was called with
    hout,           \* the outcome so far
    hctx,           \* the handler's context is still alive
    areq,           \* the IPC key requests
    applied,        \* how often each envelope was dispatched successfully
    oklog,          \* envelopes with a security.signed_mutation.ok audit row
    cut,            \* dispatched envelopes whose handler then died, outlived its
                    \* context or could not append the audit row
    unpinned,       \* keys whose pin was removed, not pinned since
    revoked,        \* the ones that count as unpinned, see RevocationHolds
    hrevoked,       \* revoked when the handler got its envelope
    kops, faults    \* what is left of the bounds

handler == <<hpc, henv, hkeys, hnow, hout, hctx, hrevoked>>
trust   == <<disk, auth, marker, boot, itodo, keys, areq, unpinned,
             revoked>>
effects == <<seen, applied, oklog, cut>>
time    == <<clock, high>>
bounds  == <<kops, faults>>
vars    == <<handler, trust, effects, time, bounds>>

NoKeyReq == [pc |-> "idle", unpin |-> {}, loaded |-> {}]
KeyReq == [pc : {"idle", "load", "swap"}, unpin : SUBSET Key, loaded : SUBSET Key]

\* A definition named X_Fault is X with a plausible bug; nothing else uses it.

Init ==
    /\ clock = 0 /\ high = 0
    /\ disk = InitialKeys
    /\ auth = ~AuthLate
    /\ marker = FALSE
    /\ boot = "import"
    /\ itodo = {}
    /\ keys = {}
    /\ seen = [n \in Nonce |-> Never]
    /\ hpc = "idle" /\ henv = None /\ hkeys = {} /\ hnow = 0
    /\ hout = "none" /\ hctx = TRUE
    /\ areq = [a \in Admin |-> NoKeyReq]
    /\ applied = [e \in Env |-> 0]
    /\ oklog = {}
    /\ cut = {}
    /\ unpinned = {} /\ revoked = {} /\ hrevoked = {}
    /\ kops = MaxKeyOps /\ faults = MaxFaults

-----------------------------------------------------------------------------
(* Start-up: importUserKeysOnce, ipcSrv.Listen, LoadUserKeys, the callback.*)

BootOnly == UNCHANGED <<handler, effects, time, kops, auth, areq>>

\* The store, or the disk, fails a call whose result the code ignores.
Fault == faults > 0 /\ faults' = faults - 1

BootImport_IgnoresMarker ==
    /\ boot = "import"
    /\ marker' = (marker \/ disk # {})
    /\ IF disk # {} \/ ~auth
       THEN boot' = "load" /\ itodo' = {}
       ELSE boot' = "pinning" /\ itodo' = AuthKeys
    /\ UNCHANGED <<disk, keys, unpinned, revoked, faults>> /\ BootOnly

\* The import is skipped when the marker is found, when keys are pinned already
\* (which sets the marker) and while authorized_keys cannot be read.  A marker
\* that cannot be read counts as missing, one that cannot be set is not missed.
\* A start that does import is free to pin again what was unpinned before.
BootImport ==
    /\ boot = "import"
    /\ \E found \in {marker, FALSE}, stored \in BOOLEAN :
          /\ IF found = marker /\ stored THEN faults' = faults ELSE Fault
          /\ marker' = (marker \/ (disk # {} /\ stored))
          /\ IF found \/ disk # {} \/ ~auth
             THEN boot' = "load" /\ itodo' = {} /\ UNCHANGED <<unpinned, revoked>>
             ELSE /\ boot' = "pinning" /\ itodo' = AuthKeys
                  /\ unpinned' = unpinned \ AuthKeys
                  /\ revoked' = revoked \ AuthKeys
    /\ UNCHANGED <<disk, keys>> /\ BootOnly

\* One line of authorized_keys; a key that cannot be pinned is skipped.
BootPin(k) ==
    /\ boot = "pinning" /\ k \in itodo
    /\ itodo' = itodo \ {k}
    /\ \/ disk' = disk \union {k} /\ faults' = faults
       \/ disk' = disk /\ Fault
    /\ UNCHANGED <<marker, boot, keys, unpinned, revoked>> /\ BootOnly

BootImported ==
    /\ boot = "pinning" /\ itodo = {}
    /\ \/ marker' = TRUE /\ faults' = faults
       \/ marker' = marker /\ Fault
    /\ boot' = "load"
    /\ UNCHANGED <<disk, itodo, keys, unpinned, revoked>> /\ BootOnly

\* IPC is served from here on, the hot reload is wired one step later.
BootLoad ==
    /\ boot = "load"
    /\ keys' = disk
    /\ revoked' = revoked \union unpinned
    /\ boot' = "hook"
    /\ UNCHANGED <<disk, marker, itodo, unpinned, faults>> /\ BootOnly

BootHook ==
    /\ boot = "hook"
    /\ boot' = "up"
    /\ UNCHANGED <<disk, marker, itodo, keys, unpinned, revoked, faults>> /\ BootOnly

-----------------------------------------------------------------------------
(* obachtctl trust pin / unpin.                                            *)

KeyReqOnly == UNCHANGED <<handler, effects, time, auth, marker, boot, itodo,
                          faults>>

\* PinUserKey and UnpinUserKey change the directory first.
Pin(a, k) ==
    /\ boot \in {"load", "hook", "up"} /\ areq[a].pc = "idle"
    /\ kops > 0 /\ kops' = kops - 1
    /\ disk' = disk \union {k}
    /\ unpinned' = unpinned \ {k} /\ revoked' = revoked \ {k}
    /\ areq' = [areq EXCEPT ![a] = [NoKeyReq EXCEPT !.pc = "load"]]
    /\ UNCHANGED keys /\ KeyReqOnly

Unpin(a, k) ==
    /\ boot \in {"load", "hook", "up"} /\ areq[a].pc = "idle"
    /\ kops > 0 /\ kops' = kops - 1
    /\ disk' = disk \ {k}
    /\ unpinned' = unpinned \union {k}
    /\ areq' = [areq EXCEPT ![a] = [NoKeyReq EXCEPT !.pc = "load", !.unpin = {k}]]
    /\ UNCHANGED <<keys, revoked>> /\ KeyReqOnly

\* notifyUserKeysChanged before the callback is set: "reloaded": false.
KeyReqUnwired(a) ==
    /\ areq[a].pc = "load" /\ boot # "up"
    /\ areq' = [areq EXCEPT ![a] = NoKeyReq]
    /\ UNCHANGED <<disk, keys, unpinned, revoked, kops>> /\ KeyReqOnly

\* ReloadUserKeys reads the directory ...
KeyReqLoad(a) ==
    /\ areq[a].pc = "load" /\ boot = "up"
    /\ areq' = [areq EXCEPT ![a].pc = "swap", ![a].loaded = disk]
    /\ UNCHANGED <<disk, keys, unpinned, revoked, kops>> /\ KeyReqOnly

\* ... and swaps the verifier under verifierMu; then the request is answered.
KeyReqSwap(a) ==
    /\ areq[a].pc = "swap"
    /\ keys' = areq[a].loaded
    /\ revoked' = revoked \union (areq[a].unpin \ disk)
    /\ areq' = [areq EXCEPT ![a] = NoKeyReq]
    /\ UNCHANGED <<disk, unpinned, kops>> /\ KeyReqOnly

-----------------------------------------------------------------------------
(* handleSignedMutation.                                                   *)

HandlerOnly == UNCHANGED <<trust, time, kops>>
HandlerIdle == /\ hpc' = "idle" /\ henv' = None /\ hkeys' = {} /\ hnow' = 0
               /\ hout' = "none" /\ hctx' = TRUE /\ hrevoked' = {}
CutOff == cut' = IF hpc = "audit" /\ hout = "ok" THEN cut \union {henv} ELSE cut

\* int64 subtraction: wraps around.
Sub(a, b) ==
    CASE a - b > IntMax -> a - b - 2 * (IntMax + 1)
      [] a - b < -IntMax - 1 -> a - b + 2 * (IntMax + 1)
      [] OTHER -> a - b

\* canonicalize takes integers within the safe range of JavaScript only.
Canonical(e) == {e.iat, e.exp} \subseteq -MaxSafe .. MaxSafe

Denials_AnyInteger(e, ks, now) ==
    {r \in {"untrusted_key", "sig", "device_mismatch", "future_iat", "expired",
            "window"} :
        CASE r = "untrusted_key"   -> e.key \notin ks
          [] r = "sig"             -> ~e.sig
          [] r = "device_mismatch" -> ~e.dev
          [] r = "future_iat"      -> e.iat > now + Skew
          [] r = "expired"         -> e.exp <= now
          [] r = "window"          -> Sub(e.exp, e.iat) > MaxLifetime \/ e.exp <= e.iat}

\* Why Verify refuses an envelope; it reports the first one.
Denials(e, ks, now) ==
    {r \in {"untrusted_key", "malformed", "sig", "device_mismatch", "future_iat",
            "expired", "window"} :
        CASE r = "untrusted_key"   -> e.key \notin ks
          [] r = "malformed"       -> ~Canonical(e)
          [] r = "sig"             -> ~e.sig
          [] r = "device_mismatch" -> ~e.dev
          [] r = "future_iat"      -> e.iat > now + Skew
          [] r = "expired"         -> e.exp <= now
          [] r = "window"          -> Sub(e.exp, e.iat) > MaxLifetime \/ e.exp <= e.iat}

\* An envelope arrives, again or for the first time; without keys all are denied.
Receive(e) ==
    /\ boot = "up" /\ hpc = "idle"
    /\ henv' = e
    /\ hkeys' = keys /\ hrevoked' = revoked
    /\ UNCHANGED <<hnow, hctx, hout>>
    /\ hpc' = IF keys = {} THEN "audit" ELSE "verify"
    /\ UNCHANGED <<effects, faults>> /\ HandlerOnly

\* Verify: the nonce is inserted last, INSERT OR IGNORE tells a replay; a dead
\* context makes the insert fail, which denies as well.
Verify ==
    /\ hpc = "verify"
    /\ hnow' = clock
    /\ IF Denials(henv, hkeys, clock) = {} /\ hctx
       THEN /\ hpc' = "prune"
            /\ hout' = IF seen[henv.nonce] = Never THEN "accepted" ELSE "denied"
            /\ seen' = IF seen[henv.nonce] = Never
                       THEN [seen EXCEPT ![henv.nonce] = clock] ELSE seen
       ELSE hpc' = "audit" /\ hout' = "denied" /\ seen' = seen
    /\ UNCHANGED <<henv, hkeys, hctx, hrevoked, applied, oklog, cut, faults>>
    /\ HandlerOnly

Prune_KeepsOnlyNow ==
    /\ hpc = "prune"
    /\ seen' = IF hctx
               THEN [n \in Nonce |-> IF seen[n] < hnow THEN Never ELSE seen[n]]
               ELSE seen
    /\ hpc' = IF hout = "accepted" THEN "dispatch" ELSE "audit"
    /\ UNCHANGED <<henv, hkeys, hnow, hout, hctx, hrevoked, applied, oklog, cut,
                   faults>>
    /\ HandlerOnly

\* CheckAndMarkNonce, second statement; its failure is ignored.
Prune ==
    /\ hpc = "prune"
    /\ seen' = IF hctx
               THEN [n \in Nonce |-> IF seen[n] < hnow - Retention THEN Never
                                                                  ELSE seen[n]]
               ELSE seen
    /\ hpc' = IF hout = "accepted" THEN "dispatch" ELSE "audit"
    /\ UNCHANGED <<henv, hkeys, hnow, hout, hctx, hrevoked, applied, oklog, cut,
                   faults>>
    /\ HandlerOnly

Dispatch_ReportsReload ==
    /\ hpc = "dispatch"
    /\ hout' \in {"ok", "error"}
    /\ applied' = [applied EXCEPT ![henv] = @ + 1]
    /\ hpc' = "audit"
    /\ UNCHANGED <<henv, hkeys, hnow, hctx, hrevoked, seen, oklog, cut, faults>>
    /\ HandlerOnly

\* dispatchSignedMutation: the store write is the last step that may fail.
Dispatch ==
    /\ hpc = "dispatch"
    /\ \/ hctx /\ hout' = "ok" /\ applied' = [applied EXCEPT ![henv] = @ + 1]
       \/ hout' = "error" /\ applied' = applied
    /\ hpc' = "audit"
    /\ UNCHANGED <<henv, hkeys, hnow, hctx, hrevoked, seen, oklog, cut, faults>>
    /\ HandlerOnly

\* auditSignedMutation on the handler's own context: the row is lost once that
\* has expired, or when the append fails by itself; either error is discarded
\* and the result is emitted in any case.
Audit ==
    /\ hpc = "audit"
    /\ \/ /\ oklog' = IF hout = "ok" /\ hctx THEN oklog \union {henv} ELSE oklog
          /\ UNCHANGED <<cut, faults>>
       \/ oklog' = oklog /\ CutOff /\ Fault
    /\ HandlerIdle
    /\ UNCHANGED <<seen, applied>> /\ HandlerOnly

Expire_Returns ==
    /\ hpc # "idle" /\ hctx
    /\ Fault
    /\ hctx' = FALSE /\ hpc' = "idle"
    /\ CutOff
    /\ UNCHANGED <<henv, hkeys, hnow, hout, hrevoked, seen, applied, oklog>>
    /\ HandlerOnly

\* signedMutationOpTimeout passes.
Expire ==
    /\ hpc # "idle" /\ hctx
    /\ Fault
    /\ hctx' = FALSE
    /\ CutOff
    /\ UNCHANGED <<hpc, henv, hkeys, hnow, hout, hrevoked, seen, applied, oklog>>
    /\ HandlerOnly

-----------------------------------------------------------------------------
(* The environment.                                                        *)

Tick ==
    /\ clock < MaxTime
    /\ clock' = clock + 1
    /\ high' = IF clock' > high THEN clock' ELSE high
    /\ UNCHANGED <<handler, trust, effects, bounds>>

\* NTP, or a device without a battery-backed clock.
SetBack ==
    /\ \E t \in 0 .. clock - 1 : high - MaxBack <= t /\ clock' = t
    /\ UNCHANGED <<high, handler, trust, effects, bounds>>

AuthKeysAppear ==
    /\ ~auth /\ auth' = TRUE
    /\ UNCHANGED <<disk, marker, boot, itodo, keys, areq, unpinned, revoked>>
    /\ UNCHANGED <<handler, effects, time, bounds>>

Crash ==
    /\ Fault
    /\ boot' = "import" /\ itodo' = {} /\ keys' = {}
    /\ HandlerIdle
    /\ CutOff
    /\ areq' = [a \in Admin |-> NoKeyReq]
    /\ UNCHANGED <<disk, auth, marker, unpinned, revoked, seen, applied, oklog,
                   time, kops>>

BootStep ==
    \/ BootImport \/ BootImported \/ BootLoad \/ BootHook
    \/ \E k \in Key : BootPin(k)

KeyReqStep ==
    \E a \in Admin : \/ KeyReqUnwired(a) \/ KeyReqLoad(a) \/ KeyReqSwap(a)
                     \/ \E k \in Key : Pin(a, k) \/ Unpin(a, k)

HandlerStep ==
    \/ \E e \in Env : Receive(e)
    \/ Verify \/ Prune \/ Dispatch \/ Audit \/ Expire

Next ==
    \/ BootStep \/ KeyReqStep \/ HandlerStep
    \/ Tick \/ SetBack \/ AuthKeysAppear \/ Crash

Spec == Init /\ [][Next]_vars

-----------------------------------------------------------------------------
(* Properties.                                                             *)

\* Every variable of the model has its type.
TypeOK ==
    /\ clock \in Nat /\ high \in Nat
    /\ disk \subseteq Key /\ keys \subseteq Key /\ itodo \subseteq Key
    /\ auth \in BOOLEAN /\ marker \in BOOLEAN
    /\ boot \in {"import", "pinning", "load", "hook", "up"}
    /\ seen \in [Nonce -> Nat \union {Never}]
    /\ hpc \in {"idle", "verify", "prune", "dispatch", "audit"}
    /\ henv \in Env \union {None} /\ (hpc = "idle" <=> henv = None)
    /\ hkeys \subseteq Key /\ hnow \in Nat
    /\ hout \in {"none", "denied", "accepted", "ok", "error"}
    /\ hctx \in BOOLEAN
    /\ areq \in [Admin -> KeyReq]
    /\ applied \in [Env -> Nat]
    /\ oklog \subseteq Env /\ cut \subseteq Env
    /\ unpinned \subseteq Key /\ revoked \subseteq Key /\ hrevoked \subseteq Key
    /\ kops \in Nat /\ faults \in Nat

\* No envelope changes the device twice, however often it is delivered, across
\* restarts, the pruning of CheckAndMarkNonce and a clock that is set back.
AtMostOnce == \A e \in Env : applied[e] <= 1

\* Verify: "a mutation that fails any earlier check does not burn its nonce".
\* The property reads the window in plain integers, the code in int64, which
\* wraps around: only the range that canonicalize imposes keeps them together.
BurnsOnlyValid ==
    [][\A n \in Nonce : seen[n] = Never /\ seen'[n] # Never =>
         /\ henv.nonce = n /\ henv.key \in hkeys /\ henv.sig /\ henv.dev
         /\ henv.iat - Skew <= clock /\ clock < henv.exp
         /\ henv.iat < henv.exp /\ henv.exp <= henv.iat + MaxLifetime]_vars

\* adminUnpinUserKey "hot-reloads the verifier", and an unpin "is not silently
\* undone on the next start" (main.go): an envelope is not dispatched when it
\* arrives after the unpin of its key was answered "reloaded", or in any later
\* run of the agent, if that unpin was answered "reloaded": false or not at all.
\* One start may undo it: one that finds user-keys.d empty and no marker,
\* because an earlier start could not read authorized_keys or could not set the
\* marker, or because it cannot read it itself; it imports authorized_keys anew.
RevocationHolds == hpc = "dispatch" => henv.key \notin hrevoked

\* auditSignedMutation: an ok row stands for a dispatched mutation, and a
\* dispatched mutation has one unless its handler was cut off: by a crash, by
\* the timeout, or by a failing append, whose error the handler discards.
LogMatchesEffect ==
    \A e \in Env :
        /\ e \in oklog => applied[e] > 0
        /\ applied[e] > 0 =>
             e \in oklog \union cut \/ (henv = e /\ hpc = "audit" /\ hout = "ok")
=============================================================================
