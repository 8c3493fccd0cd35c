------------------------ MODULE SignedMutationProofs ------------------------
(***************************************************************************)
(* Proofs about SignedMutation, for any keys, envelopes, numbers of        *)
(* concurrent requests, durations and bounds that meet the assumptions.    *)
(***************************************************************************)
EXTENDS SignedMutation, TLAPS

-----------------------------------------------------------------------------
(* What the checks of Verify establish.                                    *)

\* An envelope has the fields of its type.
LEMMA EnvFields ==
    ASSUME NEW e \in Env
    PROVE  /\ e.key \in Key /\ e.nonce \in Nonce /\ e.iat \in Int /\ e.exp \in Int
           /\ e # None
<1>1. e \in EnvType /\ e # None
  BY EnvAssumption
<1> QED BY <1>1 DEF EnvType

\* Of an envelope that canonicalize takes, the int64 subtraction is exact.
LEMMA SubExact ==
    ASSUME NEW e \in Env, Canonical(e)
    PROVE  Sub(e.exp, e.iat) = e.exp - e.iat
<1>1. /\ -MaxSafe <= e.iat /\ e.iat <= MaxSafe
      /\ -MaxSafe <= e.exp /\ e.exp <= MaxSafe
  BY TimeAssumption, EnvFields DEF Canonical
<1> QED BY <1>1, EnvFields, TimeAssumption DEF Sub

\* No denial means that every check passed, window and lifetime included.
LEMMA NoDenials ==
    ASSUME NEW e \in Env, NEW ks, NEW now \in Nat, Denials(e, ks, now) = {}
    PROVE  /\ e.key \in ks /\ e.sig /\ e.dev
           /\ e.iat <= now + Skew /\ now < e.exp
           /\ e.iat < e.exp /\ e.exp <= e.iat + MaxLifetime
<1> DEFINE R == {"untrusted_key", "malformed", "sig", "device_mismatch", "future_iat",
                 "expired", "window"}
<1>1. \A r \in R : r \notin Denials(e, ks, now)
  OBVIOUS
<1>2. e.key \in ks
  BY <1>1 DEF Denials
<1>3. e.sig
  BY <1>1 DEF Denials
<1>4. e.dev
  BY <1>1 DEF Denials
<1>5. ~(e.iat > now + Skew)
  BY <1>1 DEF Denials
<1>6. ~(e.exp <= now)
  BY <1>1 DEF Denials
<1>7. ~(Sub(e.exp, e.iat) > MaxLifetime \/ e.exp <= e.iat)
  BY <1>1 DEF Denials
<1>8. Canonical(e)
  BY <1>1 DEF Denials
<1>9. Sub(e.exp, e.iat) = e.exp - e.iat
  BY <1>8, SubExact
<1> HIDE DEF R
<1> QED BY <1>2, <1>3, <1>4, <1>5, <1>6, <1>7, <1>9, EnvFields, TimeAssumption

-----------------------------------------------------------------------------
(* Type correctness.                                                       *)

\* The idle request is a request, and a request's fields have their types.
LEMMA KeyReqType ==
    /\ NoKeyReq \in KeyReq
    /\ \A k \in Key : /\ [NoKeyReq EXCEPT !.pc = "load"] \in KeyReq
                      /\ [NoKeyReq EXCEPT !.pc = "load", !.unpin = {k}] \in KeyReq
    /\ \A r \in KeyReq : r.unpin \subseteq Key /\ r.loaded \subseteq Key
BY DEF NoKeyReq, KeyReq

\* The types hold initially.
LEMMA TypeInit == Init => TypeOK
<1> SUFFICES ASSUME Init PROVE TypeOK
  OBVIOUS
<1>1. auth \in BOOLEAN /\ marker \in BOOLEAN /\ hctx \in BOOLEAN
  BY Zenon DEF Init
<1>2. areq \in [Admin -> KeyReq]
  BY KeyReqType DEF Init
<1>3. /\ seen \in [Nonce -> Nat \union {Never}] /\ applied \in [Env -> Nat]
      /\ disk \subseteq Key /\ kops \in Nat /\ faults \in Nat
  BY BoundsAssumption DEF Init
<1>4. hpc = "idle" <=> henv = None
  BY DEF Init
<1> QED BY <1>1, <1>2, <1>3, <1>4 DEF Init, TypeOK

\* Every step keeps them.
LEMMA TypeStep == TypeOK /\ [Next]_vars => TypeOK'
<1> SUFFICES ASSUME TypeOK, [Next]_vars PROVE TypeOK'
  OBVIOUS
<1> USE DEF TypeOK
<1>1. CASE BootImport
  <2>1. faults' \in Nat
    BY <1>1 DEF BootImport, Fault
  <2>2. marker' \in BOOLEAN
    BY <1>1, Zenon DEF BootImport
  <2>3. /\ itodo' \subseteq Key /\ unpinned' \subseteq Key /\ revoked' \subseteq Key
        /\ boot' \in {"import", "pinning", "load", "hook", "up"}
    BY <1>1, BoundsAssumption DEF BootImport
  <2> QED BY <1>1, <2>1, <2>2, <2>3 DEF BootImport, BootOnly, handler, effects, time
<1>2. ASSUME NEW k \in Key, BootPin(k) PROVE TypeOK'
  BY <1>2 DEF BootPin, Fault, BootOnly, handler, effects, time
<1>3. CASE BootImported
  <2>1. faults' \in Nat
    BY <1>3 DEF BootImported, Fault
  <2>2. marker' \in BOOLEAN
    BY <1>3, Zenon DEF BootImported
  <2> QED BY <1>3, <2>1, <2>2 DEF BootImported, BootOnly, handler, effects, time
<1>4. CASE BootLoad
  BY <1>4 DEF BootLoad, BootOnly, handler, effects, time
<1>5. CASE BootHook
  BY <1>5 DEF BootHook, BootOnly, handler, effects, time
<1>6. ASSUME NEW a \in Admin, NEW k \in Key, Pin(a, k) PROVE TypeOK'
  <2>1. areq' \in [Admin -> KeyReq]
    BY <1>6, KeyReqType DEF Pin
  <2> QED BY <1>6, <2>1 DEF Pin, KeyReqOnly, handler, effects, time
<1>7. ASSUME NEW a \in Admin, NEW k \in Key, Unpin(a, k) PROVE TypeOK'
  <2>1. areq' \in [Admin -> KeyReq]
    BY <1>7, KeyReqType DEF Unpin
  <2> QED BY <1>7, <2>1 DEF Unpin, KeyReqOnly, handler, effects, time
<1>8. ASSUME NEW a \in Admin, KeyReqUnwired(a) PROVE TypeOK'
  <2>1. areq' \in [Admin -> KeyReq]
    BY <1>8, KeyReqType DEF KeyReqUnwired
  <2> QED BY <1>8, <2>1 DEF KeyReqUnwired, KeyReqOnly, handler, effects, time
<1>9. ASSUME NEW a \in Admin, KeyReqLoad(a) PROVE TypeOK'
  <2>1. areq' \in [Admin -> KeyReq]
    BY <1>9 DEF KeyReqLoad, KeyReq
  <2> QED BY <1>9, <2>1 DEF KeyReqLoad, KeyReqOnly, handler, effects, time
<1>10. ASSUME NEW a \in Admin, KeyReqSwap(a) PROVE TypeOK'
  <2>1. areq' \in [Admin -> KeyReq]
    BY <1>10, KeyReqType DEF KeyReqSwap
  <2>2. keys' \subseteq Key /\ revoked' \subseteq Key
    BY <1>10, KeyReqType DEF KeyReqSwap
  <2> QED BY <1>10, <2>1, <2>2 DEF KeyReqSwap, KeyReqOnly, handler, effects, time
<1>11. ASSUME NEW e \in Env, Receive(e) PROVE TypeOK'
  BY <1>11, EnvAssumption DEF Receive, HandlerOnly, trust, time, effects
<1>12. CASE Verify
  <2>1. henv \in Env /\ henv.nonce \in Nonce
    BY <1>12, EnvFields DEF Verify
  <2>2. seen' \in [Nonce -> Nat \union {Never}]
    BY <1>12, <2>1 DEF Verify
  <2> QED BY <1>12, <2>1, <2>2 DEF Verify, HandlerOnly, trust, time
<1>13. CASE Prune
  <2>1. seen' \in [Nonce -> Nat \union {Never}]
    BY <1>13 DEF Prune
  <2> QED BY <1>13, <2>1 DEF Prune, HandlerOnly, trust, time
<1>14. CASE Dispatch
  <2>1. applied' \in [Env -> Nat]
    BY <1>14 DEF Dispatch
  <2> QED BY <1>14, <2>1 DEF Dispatch, HandlerOnly, trust, time
<1>15. CASE Audit
  <2>1. oklog' \subseteq Env /\ cut' \subseteq Env /\ faults' \in Nat
    BY <1>15 DEF Audit, CutOff, Fault
  <2>2. /\ hpc' = "idle" /\ henv' = None /\ hkeys' = {} /\ hnow' = 0
        /\ hout' = "none" /\ hrevoked' = {}
    BY <1>15 DEF Audit, HandlerIdle
  <2>3. hctx' \in BOOLEAN
    BY <1>15, Zenon DEF Audit, HandlerIdle
  <2> QED BY <1>15, <2>1, <2>2, <2>3 DEF Audit, HandlerOnly, trust, time
<1>16. CASE Expire
  <2>1. hctx' \in BOOLEAN
    BY <1>16, Zenon DEF Expire
  <2>2. cut' \subseteq Env /\ faults' \in Nat
    BY <1>16 DEF Expire, CutOff, Fault
  <2> QED BY <1>16, <2>1, <2>2 DEF Expire, HandlerOnly, trust, time
<1>17. CASE Tick
  BY <1>17 DEF Tick, handler, trust, effects, bounds
<1>18. CASE SetBack
  BY <1>18 DEF SetBack, handler, trust, effects, bounds
<1>19. CASE AuthKeysAppear
  BY <1>19 DEF AuthKeysAppear, handler, effects, time, bounds
<1>20. CASE Crash
  <2>1. areq' \in [Admin -> KeyReq]
    BY <1>20, KeyReqType DEF Crash
  <2>2. cut' \subseteq Env /\ faults' \in Nat
    BY <1>20 DEF Crash, CutOff, Fault
  <2> QED BY <1>20, <2>1, <2>2 DEF Crash, HandlerIdle, time
<1>21. CASE UNCHANGED vars
  BY <1>21 DEF vars, handler, trust, effects, time, bounds
<1> QED BY <1>1, <1>2, <1>3, <1>4, <1>5, <1>6, <1>7, <1>8, <1>9, <1>10, <1>11,
           <1>12, <1>13, <1>14, <1>15, <1>16, <1>17, <1>18, <1>19, <1>20, <1>21
        DEF Next, BootStep, KeyReqStep, HandlerStep

\* Type correctness of the signed-mutation path, for every value of the
\* constants.
THEOREM TypeCorrect == Spec => []TypeOK
<1> QED BY TypeInit, TypeStep, PTL DEF Spec

-----------------------------------------------------------------------------
(* Replay protection.                                                      *)

\* The envelope can never be accepted again: its nonce is still in the table,
\* long enough to outlive the window, or no clock will ever show a time inside
\* the window.
Spent(e) ==
    \/ seen[e.nonce] # Never /\ e.exp <= seen[e.nonce] + MaxLifetime + Skew
    \/ e.exp <= high - MaxBack

\* Accepted and not yet dispatched.
InFlight(e) == henv = e /\ hpc \in {"prune", "dispatch"} /\ hout = "accepted"

TimeInv == clock <= high /\ high - MaxBack <= clock /\ hnow <= high

OnceInv ==
    /\ TimeInv
    /\ hpc = "dispatch" => hout = "accepted"
    /\ \A e \in Env : /\ applied[e] <= 1
                      /\ applied[e] = 1 => Spent(e)
                      /\ InFlight(e) => applied[e] = 0 /\ Spent(e)

\* A step that touches neither the nonce table, the handler nor the effects,
\* and under which the latest time does not shrink, keeps OnceInv.
LEMMA OnceFrame ==
    ASSUME TypeOK, OnceInv, UNCHANGED <<seen, applied, hpc, henv, hout>>,
           high' \in Nat, high <= high', TimeInv'
    PROVE  OnceInv'
<1>1. ASSUME NEW e \in Env, Spent(e) PROVE Spent(e)'
  BY <1>1, EnvFields, TimeAssumption DEF Spent, TypeOK
<1>2. ASSUME NEW e \in Env PROVE InFlight(e)' <=> InFlight(e)
  BY DEF InFlight
<1> QED BY <1>1, <1>2 DEF OnceInv

\* Every step keeps OnceInv.
LEMMA OnceStep == TypeOK /\ TypeOK' /\ OnceInv /\ [Next]_vars => OnceInv'
<1> SUFFICES ASSUME TypeOK, TypeOK', OnceInv, [Next]_vars PROVE OnceInv'
  OBVIOUS
<1>1. CASE BootStep \/ KeyReqStep
  <2>1. UNCHANGED <<handler, effects, time>>
    BY <1>1 DEF BootStep, KeyReqStep, BootImport, BootPin, BootImported, BootLoad,
                BootHook, Pin, Unpin, KeyReqUnwired, KeyReqLoad, KeyReqSwap, BootOnly,
                KeyReqOnly
  <2>2. UNCHANGED <<seen, applied, hpc, henv, hout, hnow, clock, high>>
    BY <2>1 DEF handler, effects, time
  <2> QED BY <2>2, OnceFrame DEF OnceInv, TimeInv, TypeOK
<1>2. CASE Tick \/ SetBack \/ AuthKeysAppear \/ UNCHANGED vars
  <2>1. UNCHANGED <<seen, applied, hpc, henv, hout, hnow>>
    BY <1>2 DEF Tick, SetBack, AuthKeysAppear, vars, handler, effects
  <2>2. high <= high' /\ clock' <= high' /\ high' - MaxBack <= clock'
    <3>1. CASE Tick
      BY <3>1, TimeAssumption DEF Tick, TypeOK, OnceInv, TimeInv
    <3>2. CASE SetBack
      BY <3>2, TimeAssumption DEF SetBack, TypeOK, OnceInv, TimeInv
    <3>3. CASE AuthKeysAppear \/ UNCHANGED vars
      BY <3>3 DEF AuthKeysAppear, vars, time, TypeOK, OnceInv, TimeInv
    <3> QED BY <1>2, <3>1, <3>2, <3>3
  <2> QED BY <2>1, <2>2, OnceFrame DEF OnceInv, TimeInv, TypeOK
<1>3. CASE HandlerStep \/ Crash
  <2>1. UNCHANGED time
    BY <1>3 DEF HandlerStep, Receive, Verify, Prune, Dispatch, Audit, Expire, Crash,
                HandlerOnly
  <2>2. hnow' \in {hnow, clock, 0}
    BY <1>3 DEF HandlerStep, Receive, Verify, Prune, Dispatch, Audit, Expire, Crash,
                HandlerIdle
  <2>3. TimeInv' /\ UNCHANGED <<clock, high>>
    BY <2>1, <2>2 DEF time, OnceInv, TimeInv, TypeOK
  <2>4. ASSUME UNCHANGED <<seen, applied>>, hpc' \notin {"prune", "dispatch"}
        PROVE  OnceInv'
    <3>1. ASSUME NEW e \in Env PROVE ~InFlight(e)' /\ (Spent(e)' <=> Spent(e))
      BY <2>3, <2>4 DEF InFlight, Spent
    <3> QED BY <2>3, <2>4, <3>1 DEF OnceInv
  <2>5. ASSUME NEW e \in Env, Receive(e) PROVE OnceInv'
    BY <2>4, <2>5 DEF Receive, effects
  <2>6. CASE Audit \/ Crash
    BY <2>4, <2>6 DEF Audit, Crash, HandlerIdle
  <2>7. CASE Expire
    <3>1. ASSUME NEW e \in Env
          PROVE  (InFlight(e)' <=> InFlight(e)) /\ (Spent(e)' <=> Spent(e))
      BY <2>3, <2>7 DEF Expire, InFlight, Spent
    <3> QED BY <2>3, <2>7, <3>1 DEF Expire, OnceInv
  <2>8. CASE Verify
    <3>1. CASE seen' = seen /\ hout' = "denied"
      <4>1. ASSUME NEW e \in Env PROVE ~InFlight(e)' /\ (Spent(e)' <=> Spent(e))
        BY <2>3, <3>1 DEF InFlight, Spent
      <4> QED BY <2>3, <2>8, <3>1, <4>1 DEF Verify, OnceInv
    <3>2. CASE /\ Denials(henv, hkeys, clock) = {}
               /\ seen[henv.nonce] = Never /\ hout' = "accepted"
               /\ seen' = [seen EXCEPT ![henv.nonce] = clock]
      <4>1. henv \in Env /\ henv.nonce \in Nonce /\ henv' = henv /\ applied' = applied
        BY <2>8, EnvFields DEF Verify, TypeOK
      <4>2. /\ henv.iat <= clock + Skew /\ clock < henv.exp
            /\ henv.exp <= henv.iat + MaxLifetime
        BY <3>2, <4>1, NoDenials DEF TypeOK
      <4>3. applied[henv] = 0
        <5>1. ~Spent(henv)
          BY <3>2, <4>1, <4>2, EnvFields, TimeAssumption
             DEF Spent, OnceInv, TimeInv, TypeOK
        <5> QED BY <4>1, <5>1 DEF OnceInv, TypeOK
      <4>4. Spent(henv)'
        BY <3>2, <4>1, <4>2, EnvFields, TimeAssumption DEF Spent, TypeOK, Never
      <4>5. ASSUME NEW e \in Env, Spent(e) PROVE Spent(e)'
        <5>1. CASE e.nonce = henv.nonce
          BY <2>3, <3>2, <4>5, <5>1, EnvFields DEF Spent
        <5>2. CASE e.nonce # henv.nonce
          BY <2>3, <3>2, <4>1, <4>5, <5>2, EnvFields DEF Spent, TypeOK
        <5> QED BY <5>1, <5>2
      <4>6. hpc' = "prune"
        BY <2>8, <3>2 DEF Verify
      <4> QED BY <2>3, <4>1, <4>3, <4>4, <4>5, <4>6 DEF OnceInv, InFlight
    <3> QED BY <2>8, <3>1, <3>2 DEF Verify
  <2>9. CASE Prune
    <3>1. ASSUME NEW e \in Env, Spent(e) PROVE Spent(e)'
      <4>1. e.nonce \in Nonce /\ e.exp \in Int
        BY EnvFields
      <4>2. CASE seen'[e.nonce] = seen[e.nonce]
        BY <2>3, <3>1, <4>2 DEF Spent
      <4>3. CASE seen[e.nonce] < hnow - Retention
        BY <2>3, <3>1, <4>1, <4>3, TimeAssumption DEF Spent, OnceInv, TimeInv, TypeOK
      <4> QED BY <2>9, <4>1, <4>2, <4>3 DEF Prune
    <3>2. ASSUME NEW e \in Env, InFlight(e)' PROVE InFlight(e)
      BY <2>9, <3>2 DEF Prune, InFlight
    <3>3. hpc' = "dispatch" => hout' = "accepted"
      BY <2>9 DEF Prune
    <3> QED BY <2>3, <2>9, <3>1, <3>2, <3>3 DEF Prune, OnceInv
  <2>10. CASE Dispatch
    <3>1. henv \in Env /\ InFlight(henv)
      BY <2>10 DEF Dispatch, OnceInv, InFlight, TypeOK
    <3>2. applied[henv] = 0 /\ Spent(henv)
      BY <3>1 DEF OnceInv
    <3>3. ASSUME NEW e \in Env PROVE ~InFlight(e)' /\ (Spent(e)' <=> Spent(e))
      BY <2>3, <2>10 DEF Dispatch, InFlight, Spent
    <3>4. ASSUME NEW e \in Env PROVE applied'[e] <= 1 /\ (applied'[e] = 1 => Spent(e))
      BY <2>10, <3>1, <3>2 DEF Dispatch, OnceInv, TypeOK
    <3>5. hpc' # "dispatch"
      BY <2>10 DEF Dispatch
    <3> QED BY <2>3, <3>3, <3>4, <3>5 DEF OnceInv
  <2> QED BY <1>3, <2>5, <2>6, <2>7, <2>8, <2>9, <2>10 DEF HandlerStep
<1> QED BY <1>1, <1>2, <1>3 DEF Next

\* No envelope is dispatched twice: the retention of nonces covers the longest
\* window, the skew and every step back of the clock.
THEOREM ReplayProtection == Spec => []AtMostOnce
<1>1. Init => OnceInv
  BY TimeAssumption DEF Init, OnceInv, TimeInv, InFlight
<1>2. OnceInv => AtMostOnce
  BY DEF OnceInv, AtMostOnce
<1> QED BY <1>1, <1>2, OnceStep, TypeInit, TypeStep, PTL DEF Spec

\* Only an envelope that passes every check burns its nonce, its window read in
\* plain integers: the range that canonicalize imposes rules out that the int64
\* difference of the code wraps around, whatever int64 values are signed.
THEOREM OnlyValidBurns == Spec => BurnsOnlyValid
<1> DEFINE Burn == \A n \in Nonce : seen[n] = Never /\ seen'[n] # Never =>
         /\ henv.nonce = n /\ henv.key \in hkeys /\ henv.sig /\ henv.dev
         /\ henv.iat - Skew <= clock /\ clock < henv.exp
         /\ henv.iat < henv.exp /\ henv.exp <= henv.iat + MaxLifetime
<1>1. TypeOK /\ [Next]_vars => [Burn]_vars
  <2> SUFFICES ASSUME TypeOK, Next PROVE Burn
    OBVIOUS
  <2>1. CASE Verify
    <3> SUFFICES ASSUME NEW n \in Nonce, seen[n] = Never, seen'[n] # Never
                 PROVE  /\ henv.nonce = n /\ henv.key \in hkeys /\ henv.sig /\ henv.dev
                        /\ henv.iat - Skew <= clock /\ clock < henv.exp
                        /\ henv.iat < henv.exp /\ henv.exp <= henv.iat + MaxLifetime
      OBVIOUS
    <3>1. henv \in Env /\ Denials(henv, hkeys, clock) = {} /\ henv.nonce = n
      BY <2>1 DEF Verify, TypeOK
    <3>2. clock \in Nat
      BY DEF TypeOK
    <3>3. /\ henv.key \in hkeys /\ henv.sig /\ henv.dev
          /\ henv.iat <= clock + Skew /\ clock < henv.exp
          /\ henv.iat < henv.exp /\ henv.exp <= henv.iat + MaxLifetime
      BY <3>1, <3>2, NoDenials, Zenon
    <3>4. henv.iat - Skew <= clock
      BY <3>1, <3>2, <3>3, EnvFields, TimeAssumption
    <3> QED BY <3>1, <3>3, <3>4, Zenon
  <2>2. CASE Prune
    BY <2>2 DEF Prune, TypeOK
  <2>3. ASSUME ~Verify, ~Prune PROVE seen' = seen
    BY <2>3 DEF Next, BootStep, KeyReqStep, HandlerStep, BootImport, BootPin,
                BootImported, BootLoad, BootHook, Pin, Unpin, KeyReqUnwired, KeyReqLoad,
                KeyReqSwap, Receive, Dispatch, Audit, Expire, Tick, SetBack,
                AuthKeysAppear, Crash, BootOnly, KeyReqOnly, effects
  <2> QED BY <2>1, <2>2, <2>3
<1> QED BY <1>1, TypeInit, TypeStep, PTL DEF Spec, BurnsOnlyValid

-----------------------------------------------------------------------------
(* Revocation, while key requests do not overlap.                          *)

TrustInv ==
    /\ (revoked \union unpinned) \intersect (disk \union itodo) = {}
    /\ keys \intersect revoked = {}
    /\ boot \in {"import", "pinning"} => keys = {} /\ areq = [a \in Admin |-> NoKeyReq]
    /\ boot # "pinning" => itodo = {}
    /\ \A a \in Admin : areq[a].pc = "swap" => areq[a].loaded = disk

SnapshotInv ==
    /\ hkeys \intersect hrevoked = {}
    /\ hpc = "dispatch" => hout = "accepted"
    /\ hpc \in {"prune", "dispatch"} /\ hout = "accepted" => henv.key \in hkeys

\* Key requests and the start-up keep what is trusted apart from what is revoked.
LEMMA TrustStep ==
    ASSUME \A a, b \in Admin : a = b, TypeOK, TrustInv, [Next]_vars
    PROVE  TrustInv'
<1>1. CASE BootImport
  <2>1. CASE boot' = "load" /\ itodo' = {} /\ UNCHANGED <<unpinned, revoked>>
    BY <1>1, <2>1 DEF BootImport, BootOnly, TrustInv
  <2>2. CASE /\ boot' = "pinning" /\ itodo' = AuthKeys /\ unpinned' = unpinned \ AuthKeys
             /\ revoked' = revoked \ AuthKeys
    BY <1>1, <2>2 DEF BootImport, BootOnly, TrustInv
  <2> QED BY <1>1, <2>1, <2>2 DEF BootImport
<1>2. ASSUME NEW k \in Key, BootPin(k) PROVE TrustInv'
  <2>1. \A a \in Admin : areq'[a].pc # "swap"
    BY <1>2 DEF BootPin, BootOnly, TrustInv, NoKeyReq
  <2> QED BY <1>2, <2>1 DEF BootPin, BootOnly, TrustInv
<1>3. CASE BootImported \/ BootLoad \/ BootHook
  BY <1>3 DEF BootImported, BootLoad, BootHook, BootOnly, TrustInv
<1>4. ASSUME NEW a \in Admin, NEW k \in Key, Pin(a, k) \/ Unpin(a, k)
      PROVE  TrustInv'
  <2>1. \A b \in Admin : b = a
    OBVIOUS
  <2>2. areq'[a].pc = "load"
    BY <1>4 DEF Pin, Unpin, TypeOK, NoKeyReq
  <2> QED BY <1>4, <2>1, <2>2 DEF Pin, Unpin, KeyReqOnly, TrustInv
<1>5. ASSUME NEW a \in Admin, KeyReqUnwired(a) \/ KeyReqLoad(a) PROVE TrustInv'
  <2>1. \A b \in Admin : b = a
    OBVIOUS
  <2>2. areq'[a].pc = "swap" => areq'[a].loaded = disk
    BY <1>5 DEF KeyReqUnwired, KeyReqLoad, TypeOK, NoKeyReq, KeyReq
  <2>3. boot \in {"import", "pinning"} => FALSE
    BY <1>5 DEF KeyReqUnwired, KeyReqLoad, TrustInv, NoKeyReq
  <2> QED BY <1>5, <2>1, <2>2, <2>3 DEF KeyReqUnwired, KeyReqLoad, KeyReqOnly, TrustInv
<1>6. ASSUME NEW a \in Admin, KeyReqSwap(a) PROVE TrustInv'
  <2>1. \A b \in Admin : b = a
    OBVIOUS
  <2>2. areq'[a].pc = "idle"
    BY <1>6 DEF KeyReqSwap, TypeOK, NoKeyReq
  <2>3. areq[a].loaded = disk /\ boot \notin {"import", "pinning"}
    BY <1>6 DEF KeyReqSwap, TrustInv, NoKeyReq
  <2> QED BY <1>6, <2>1, <2>2, <2>3 DEF KeyReqSwap, KeyReqOnly, TrustInv
<1>7. CASE HandlerStep \/ Tick \/ SetBack \/ UNCHANGED vars
  <2>1. UNCHANGED trust
    BY <1>7 DEF HandlerStep, Receive, Verify, Prune, Dispatch, Audit, Expire, Tick,
                SetBack, HandlerOnly, vars
  <2> QED BY <2>1 DEF trust, TrustInv
<1>8. CASE AuthKeysAppear
  BY <1>8 DEF AuthKeysAppear, TrustInv
<1>9. CASE Crash
  <2>1. \A a \in Admin : areq'[a].pc # "swap"
    BY <1>9 DEF Crash, NoKeyReq
  <2> QED BY <1>9, <2>1 DEF Crash, TrustInv
<1> QED BY <1>1, <1>2, <1>3, <1>4, <1>5, <1>6, <1>7, <1>8, <1>9
        DEF Next, BootStep, KeyReqStep

\* The handler's snapshot never mixes the two.
LEMMA SnapshotStep ==
    ASSUME TypeOK, TrustInv, SnapshotInv, [Next]_vars
    PROVE  SnapshotInv'
<1>1. ASSUME NEW e \in Env, Receive(e) PROVE SnapshotInv'
  BY <1>1 DEF Receive, TrustInv, SnapshotInv
<1>2. CASE Verify
  <2>1. hout' = "accepted" => henv.key \in hkeys
    BY <1>2, NoDenials DEF Verify, TypeOK
  <2> QED BY <1>2, <2>1 DEF Verify, SnapshotInv
<1>3. CASE Prune \/ Dispatch \/ Expire
  BY <1>3 DEF Prune, Dispatch, Expire, SnapshotInv
<1>4. CASE Audit \/ Crash
  BY <1>4 DEF Audit, Crash, HandlerIdle, SnapshotInv
<1>5. CASE BootStep \/ KeyReqStep \/ Tick \/ SetBack \/ AuthKeysAppear \/ UNCHANGED vars
  <2>1. UNCHANGED handler
    BY <1>5 DEF BootStep, KeyReqStep, BootImport, BootPin, BootImported, BootLoad,
                BootHook, Pin, Unpin, KeyReqUnwired, KeyReqLoad, KeyReqSwap, Tick,
                SetBack, AuthKeysAppear, BootOnly, KeyReqOnly, vars
  <2> QED BY <2>1 DEF handler, SnapshotInv
<1> QED BY <1>1, <1>2, <1>3, <1>4, <1>5 DEF Next, HandlerStep

\* With one key request at a time, an unpin that was answered "reloaded" holds
\* for every envelope received after the answer, and any unpin for every envelope
\* received after the next start, through all starts that do not import
\* authorized_keys because they find no marker and no key.
THEOREM RevocationIsFinal ==
    ASSUME \A a, b \in Admin : a = b
    PROVE  Spec => []RevocationHolds
<1> DEFINE Inv == TypeOK /\ TrustInv /\ SnapshotInv
<1>1. Init => Inv
  BY TypeInit DEF Init, TrustInv, SnapshotInv, NoKeyReq
<1>2. Inv /\ [Next]_vars => Inv'
  BY TypeStep, TrustStep, SnapshotStep
<1>3. Inv => RevocationHolds
  BY DEF SnapshotInv, RevocationHolds
<1> QED BY <1>1, <1>2, <1>3, PTL DEF Spec

-----------------------------------------------------------------------------
(* The audit log and the effects.                                          *)

\* "ok" is the outcome of a dispatch that took effect and waits for its row; if
\* its context is gone the envelope is on the list of the cut handlers.
LogInv ==
    /\ LogMatchesEffect
    /\ hout = "ok" => hpc = "audit" /\ applied[henv] > 0
    /\ ~hctx /\ hout = "ok" => henv \in cut

\* A step that leaves the handler, its effects and the log alone keeps LogInv.
LEMMA LogFrame ==
    ASSUME LogInv, UNCHANGED <<handler, effects>>
    PROVE  LogInv'
BY DEF LogInv, LogMatchesEffect, handler, effects

\* Every step keeps LogInv.
LEMMA LogStep == TypeOK /\ LogInv /\ [Next]_vars => LogInv'
<1> SUFFICES ASSUME TypeOK, LogInv, [Next]_vars PROVE LogInv'
  OBVIOUS
<1>1. CASE BootStep \/ KeyReqStep \/ Tick \/ SetBack \/ AuthKeysAppear \/ UNCHANGED vars
  <2>1. UNCHANGED <<handler, effects>>
    BY <1>1 DEF BootStep, KeyReqStep, BootImport, BootPin, BootImported, BootLoad,
                BootHook, Pin, Unpin, KeyReqUnwired, KeyReqLoad, KeyReqSwap, BootOnly,
                KeyReqOnly, Tick, SetBack, AuthKeysAppear, vars
  <2> QED BY <2>1, LogFrame
<1>2. ASSUME NEW e \in Env, Receive(e) PROVE LogInv'
  <2>1. hpc = "idle"
    BY <1>2 DEF Receive
  <2>2. hout # "ok"
    BY <2>1 DEF LogInv
  <2>3. hout' # "ok"
    BY <1>2, <2>2 DEF Receive
  <2>4. UNCHANGED <<applied, oklog, cut>>
    BY <1>2 DEF Receive, effects
  <2>5. LogMatchesEffect'
    BY <2>1, <2>4 DEF LogInv, LogMatchesEffect
  <2> QED BY <2>3, <2>5 DEF LogInv
<1>3. CASE Verify \/ Prune
  <2>1. hout # "ok" /\ hout' # "ok"
    BY <1>3 DEF Verify, Prune, LogInv
  <2>2. UNCHANGED <<applied, oklog, cut, henv, hctx>>
    BY <1>3 DEF Verify, Prune
  <2>3. LogMatchesEffect'
    BY <2>1, <2>2 DEF LogInv, LogMatchesEffect
  <2> QED BY <2>1, <2>2, <2>3 DEF LogInv
<1>4. CASE Dispatch
  <2>1. henv \in Env /\ hpc # "audit" /\ hpc' = "audit"
    BY <1>4 DEF Dispatch, TypeOK
  <2>2. UNCHANGED <<oklog, cut, henv, hctx>>
    BY <1>4 DEF Dispatch
  <2>3. CASE hctx /\ hout' = "ok" /\ applied' = [applied EXCEPT ![henv] = @ + 1]
    <3>1. \A e \in Env : applied'[e] = IF e = henv THEN applied[e] + 1 ELSE applied[e]
      BY <2>3 DEF TypeOK
    <3>2. applied'[henv] > 0 /\ \A e \in Env \ {henv} : applied'[e] = applied[e]
      BY <2>1, <3>1 DEF TypeOK
    <3>3. \A e \in Env : applied[e] > 0 => applied'[e] > 0
      BY <3>1 DEF TypeOK
    <3>4. LogMatchesEffect'
      BY <2>1, <2>2, <2>3, <3>2, <3>3 DEF LogInv, LogMatchesEffect
    <3> QED BY <2>1, <2>2, <2>3, <3>2, <3>4 DEF LogInv
  <2>4. CASE hout' = "error" /\ applied' = applied
    <3>1. LogMatchesEffect'
      BY <2>1, <2>2, <2>4 DEF LogInv, LogMatchesEffect
    <3> QED BY <2>2, <2>4, <3>1 DEF LogInv
  <2> QED BY <1>4, <2>3, <2>4 DEF Dispatch
<1>5. CASE Audit
  <2>1. /\ henv \in Env
        /\ hout' # "ok" /\ hctx'
        /\ UNCHANGED applied /\ cut \subseteq cut'
    BY <1>5 DEF Audit, HandlerIdle, CutOff, TypeOK
  <2>2. hout = "ok" => henv \in oklog' \union cut'
    BY <1>5 DEF Audit, CutOff, LogInv
  <2>3. oklog \subseteq oklog' /\ \A e \in oklog' : e \in oklog \/ (e = henv /\ hout = "ok")
    BY <1>5 DEF Audit
  <2>4. LogMatchesEffect'
    BY <2>1, <2>2, <2>3 DEF LogInv, LogMatchesEffect
  <2> QED BY <2>1, <2>4 DEF LogInv
<1>6. CASE Expire
  <2>1. /\ UNCHANGED <<hpc, henv, hout, applied, oklog>>
        /\ cut \subseteq cut' /\ (hpc = "audit" /\ hout = "ok" => henv \in cut')
    BY <1>6 DEF Expire, CutOff
  <2> QED BY <2>1 DEF LogInv, LogMatchesEffect
<1>7. CASE Crash
  <2>1. /\ hout' # "ok" /\ hctx'
        /\ UNCHANGED <<applied, oklog>>
        /\ cut \subseteq cut' /\ (hpc = "audit" /\ hout = "ok" => henv \in cut')
    BY <1>7 DEF Crash, HandlerIdle, CutOff
  <2>2. LogMatchesEffect'
    BY <2>1 DEF LogInv, LogMatchesEffect
  <2> QED BY <2>1, <2>2 DEF LogInv
<1> QED BY <1>1, <1>2, <1>3, <1>4, <1>5, <1>6, <1>7 DEF Next, HandlerStep

\* The audit log says "ok" only of mutations that took effect, and of each one
\* whose handler was not killed, not out of time and able to append the row.
THEOREM AuditTellsTheTruth == Spec => []LogMatchesEffect
<1>1. Init => LogInv
  BY DEF Init, LogInv, LogMatchesEffect
<1>2. LogInv => LogMatchesEffect
  BY DEF LogInv
<1> QED BY <1>1, <1>2, LogStep, TypeInit, TypeStep, PTL DEF Spec
=============================================================================
