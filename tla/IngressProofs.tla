--------------------------- MODULE IngressProofs ----------------------------
(* Proofs about Ingress, for any domains, instances, ports, handlers and     *)
(* number of events, on a host and on a Mac, with faults and without.        *)
EXTENDS Ingress, TLAPS

-----------------------------------------------------------------------------
(* What the operators of the renderer return.                              *)

\* The processes.
LEMMA Processes ==
    /\ "apply" \in Proc /\ "boot" \in Proc /\ Handler \subseteq Proc
    /\ "apply" \in Renderer /\ "boot" \in Renderer
    /\ \A h \in Handler : h # "apply" /\ h # "boot" /\ h \notin Renderer
    /\ \A r \in Renderer : r \in Proc
BY IngressAssumption DEF Proc, Renderer

\* An upstream.
LEMMA UpstreamType ==
    ASSUME NEW b \in Binding, NEW s \in [Instance -> Service]
    PROVE  UpstreamFor(b, s) \in Upstream
<1>1. CASE b \in Instance
  <2>1. s[b] \in Service
    BY <1>1
  <2> QED BY <1>1, <2>1 DEF UpstreamFor, Upstream, Service
<1>2. CASE b \in Port \union {"none"}
  BY <1>2 DEF UpstreamFor, Upstream
<1> QED BY <1>1, <1>2 DEF Binding

\* A rendered configuration.
LEMMA RenderType ==
    ASSUME NEW ds \in [Domain -> Row], NEW bs \in [Domain -> Binding],
           NEW s \in [Instance -> Service]
    PROVE  Render(ds, bs, s) \in Config
<1>1. NoSite \in Site
  BY DEF NoSite, Site, Upstream
<1>2. ASSUME NEW d \in Domain
      PROVE  [there |-> TRUE, auth |-> ds[d].auth, to |-> UpstreamFor(bs[d], s)] \in Site
  <2>1. ds[d].auth \in BOOLEAN
    BY DEF Row
  <2>2. UpstreamFor(bs[d], s) \in Upstream
    BY UpstreamType
  <2> QED BY <2>1, <2>2 DEF Site
<1> QED BY <1>1, <1>2 DEF Render, Config

\* The rows a renderer sees are those of the table but for the status.
LEMMA ReadType ==
    ASSUME dom \in [Domain -> Row]
    PROVE  /\ Read \in [Domain -> Row]
           /\ \A d \in Domain : Read[d].there = dom[d].there /\ Read[d].auth = dom[d].auth
<1>1. ASSUME NEW d \in Domain
      PROVE  /\ [dom[d] EXCEPT !.obs = "pending"] \in Row
             /\ [dom[d] EXCEPT !.obs = "pending"].there = dom[d].there
             /\ [dom[d] EXCEPT !.obs = "pending"].auth = dom[d].auth
  BY DEF Row
<1> QED BY <1>1 DEF Read

\* The empty values.
LEMMA BlankType ==
    /\ NoRow \in Row /\ Empty \in Config /\ Blank \in Snapshot
    /\ Broken \in Config \union {Broken}
<1>1. NoSite \in Site
  BY DEF NoSite, Site, Upstream
<1>2. Empty \in Config
  BY <1>1 DEF Empty, Config
<1>3. NoRow \in Row
  BY DEF NoRow, Row
<1>4. [d \in Domain |-> NoRow] \in [Domain -> Row]
  BY <1>3
<1>5. [d \in Domain |-> "none"] \in [Domain -> Binding]
  BY DEF Binding
<1> QED BY <1>2, <1>3, <1>4, <1>5 DEF Blank, Snapshot

\* Forwarded ports are ports.
LEMMA ForwardedType == ASSUME NEW cfg PROVE Forwarded(cfg) \subseteq Port
BY DEF Forwarded

-----------------------------------------------------------------------------
(* Type correctness.                                                       *)

\* A counted event.
LEMMA EventType == ASSUME left \in Nat, Event PROVE left' \in Nat
BY DEF Event

\* A process moves on.
LEMMA GoType ==
    ASSUME TypeOK, NEW p \in Proc, NEW to \in ApplyPc \union HandlerPc, Go(p, to)
    PROVE  /\ pc' \in [Proc -> ApplyPc \union HandlerPc]
           /\ pc'[p] = to
           /\ \A q \in Proc : q # p => pc'[q] = pc[q]
BY DEF TypeOK, Go

\* A handler starts.
LEMMA HandlesType ==
    ASSUME TypeOK, NEW h \in Handler, NEW to \in {"ensure", "notify"},
           NEW whom \in SUBSET {"rec", "ing"}, Handles(h, to, whom),
           dom' \in [Domain -> Row], bind' \in [Domain -> Binding],
           svc' \in [Instance -> Service]
    PROVE  TypeOK'
<1>1. pc' \in [Proc -> ApplyPc \union HandlerPc]
  BY GoType, Processes DEF Handles, HandlerPc
<1>2. todo' \in [Handler -> SUBSET {"rec", "ing"}]
  BY DEF Handles, TypeOK
<1>3. left' \in Nat
  BY EventType DEF Handles, TypeOK
<1>4. UNCHANGED <<rec, trig, snap, held, edge, lastHash, fwd, owed, off>>
  BY DEF Handles
<1> QED BY <1>1, <1>2, <1>3, <1>4 DEF TypeOK, edge

\* Whom a handler notifies.
LEMMA ViaType ==
    \A via \in Via : /\ Both(via) \in SUBSET {"rec", "ing"} /\ Both(via) # {}
                     /\ Nudge(via) \in SUBSET {"rec", "ing"} /\ Nudge(via) # {}
BY DEF Via, Both, Nudge

\* The services and bindings of an instance that goes.
LEMMA CascadeType ==
    ASSUME TypeOK, NEW i \in Instance, Cascade(i)
    PROVE  /\ dom' \in [Domain -> Row] /\ bind' \in [Domain -> Binding]
           /\ svc' \in [Instance -> Service]
BY DEF TypeOK, Cascade, Binding, Service

\* A handler's or a worker's step.
LEMMA HandledType == ASSUME TypeOK, NEW h \in Handler, Handled(h) PROVE TypeOK'
<1>0. /\ dom \in [Domain -> Row] /\ bind \in [Domain -> Binding]
      /\ svc \in [Instance -> Service] /\ NoRow \in Row
  BY BlankType DEF TypeOK
<1>1. ASSUME NEW via \in Via, NEW d \in Domain, UpsertDomain(h, d, via) PROVE TypeOK'
  <2>1. [NoRow EXCEPT !.there = TRUE] \in Row
    BY DEF NoRow, Row
  <2>2. dom' \in [Domain -> Row]
    BY <1>0, <1>1, <2>1 DEF UpsertDomain, WithDomain
  <2> QED BY <1>0, <1>1, <2>2, HandlesType, ViaType DEF UpsertDomain
<1>2. ASSUME NEW via \in Via, NEW d \in Domain, DeleteDomain(h, d, via) PROVE TypeOK'
  <2>1. dom' \in [Domain -> Row] /\ bind' \in [Domain -> Binding]
    BY <1>0, <1>2 DEF DeleteDomain, Binding
  <2> QED BY <1>0, <1>2, <2>1, HandlesType, ViaType DEF DeleteDomain
<1>3. ASSUME NEW via \in Via, NEW d \in Domain, NEW a \in BOOLEAN,
             SetDomainBasicAuth(h, d, a, via) PROVE TypeOK'
  <2>1. dom' \in [Domain -> Row]
    <3>1. [dom[d] EXCEPT !.auth = a] \in Row
      BY <1>0 DEF Row
    <3>2. dom' = [dom EXCEPT ![d] = [dom[d] EXCEPT !.auth = a]]
      BY <1>0, <1>3 DEF SetDomainBasicAuth, WithAuth
    <3> QED BY <1>0, <3>1, <3>2
  <2> QED BY <1>0, <1>3, <2>1, HandlesType, ViaType DEF SetDomainBasicAuth
<1>4. ASSUME NEW via \in Via, NEW d \in Domain, NEW b \in Port \union Instance,
             UpsertBinding(h, d, b, via) PROVE TypeOK'
  <2>1. bind' \in [Domain -> Binding]
    BY <1>0, <1>4 DEF UpsertBinding, Binding
  <2> QED BY <1>0, <1>4, <2>1, HandlesType, ViaType DEF UpsertBinding
<1>5. ASSUME NEW via \in Via, NEW d \in Domain, DeleteBinding(h, d, via) PROVE TypeOK'
  <2>1. bind' \in [Domain -> Binding]
    BY <1>0, <1>5 DEF DeleteBinding, Binding
  <2> QED BY <1>0, <1>5, <2>1, HandlesType, ViaType DEF DeleteBinding
<1>6. ASSUME NEW i \in Instance, DeleteInstance(h, i) PROVE TypeOK'
  BY <1>6, HandlesType, CascadeType DEF DeleteInstance
<1>7. ASSUME NEW i \in Instance, WorkerService(h, i) PROVE TypeOK'
  <2>1. svc' \in [Instance -> Service]
    BY <1>0, <1>7 DEF WorkerService, Service
  <2>2. pc' \in [Proc -> ApplyPc \union HandlerPc]
    BY <1>7, GoType, Processes DEF WorkerService, HandlerPc
  <2>3. todo' \in [Handler -> SUBSET {"rec", "ing"}]
    BY <1>7 DEF WorkerService, TypeOK
  <2>4. owed' \in BOOLEAN
    BY <1>7 DEF WorkerService, TypeOK
  <2>5. left' \in Nat
    BY <1>7, EventType DEF WorkerService, TypeOK
  <2> QED BY <1>7, <2>1, <2>2, <2>3, <2>4, <2>5 DEF WorkerService, TypeOK, edge
<1>8. ASSUME NEW i \in Instance, NEW s \in Service \ {"gone"}, UpsertService(h, i, s)
      PROVE  TypeOK'
  <2>1. svc' \in [Instance -> Service]
    BY <1>0, <1>8 DEF UpsertService
  <2>2. (IF s = "none" THEN {"rec"} ELSE {"rec", "ing"}) \in SUBSET {"rec", "ing"}
    OBVIOUS
  <2> QED BY <1>0, <1>8, <2>1, <2>2, HandlesType DEF UpsertService
<1>9. CASE IngressReload(h)
  BY <1>0, <1>9, HandlesType DEF IngressReload, tables
<1>10. CASE Notify(h)
  <2>1. rec' \in BOOLEAN /\ trig' \in BOOLEAN
    BY <1>10, Zenon DEF Notify
  <2>2. todo' \in [Handler -> SUBSET {"rec", "ing"}]
    BY <1>10 DEF Notify, TypeOK
  <2>3. pc' \in [Proc -> ApplyPc \union HandlerPc]
    BY <1>10, GoType, Processes DEF Notify, HandlerPc
  <2> QED BY <1>10, <2>1, <2>2, <2>3 DEF Notify, TypeOK, tables, edge
<1> QED BY <1>1, <1>2, <1>3, <1>4, <1>5, <1>6, <1>7, <1>8, <1>9, <1>10 DEF Handled

\* Reading, writing, delivering and reporting.
LEMMA WritingType == ASSUME TypeOK, NEW r \in Renderer, Writing(r) PROVE TypeOK'
<1>0. /\ Other(r) \in Proc /\ r \in Proc /\ snap[r] \in Snapshot
      /\ snap[r].cfg \in Config
  BY Processes DEF Other, TypeOK, Snapshot
<1>1. CASE WriteBegin(r)
  <2>1. pc' \in [Proc -> ApplyPc \union HandlerPc]
    <3>1. {"overlap", "writing"} \subseteq ApplyPc
      BY DEF ApplyPc
    <3>2. /\ [pc EXCEPT ![r] = "overlap", ![Other(r)] = "overlap"]
                \in [Proc -> ApplyPc \union HandlerPc]
          /\ [pc EXCEPT ![r] = "writing"] \in [Proc -> ApplyPc \union HandlerPc]
      BY <1>0, <3>1 DEF TypeOK
    <3> QED BY <1>1, <3>2 DEF WriteBegin
  <2>2. off' \subseteq Cause
    BY <1>1 DEF WriteBegin, Cause, TypeOK
  <2> QED BY <1>1, <2>1, <2>2 DEF WriteBegin, TypeOK, tables
<1>2. CASE WriteEnd(r)
  <2>1. pc' \in [Proc -> ApplyPc \union HandlerPc]
    BY <1>0, <1>2, GoType DEF WriteEnd, ApplyPc
  <2>2. off' \subseteq Cause
    BY <1>2 DEF WriteEnd, Cause, TypeOK
  <2>3. file' \in Config \union {Broken}
    BY <1>0, <1>2 DEF WriteEnd
  <2> QED BY <1>2, <2>1, <2>2, <2>3 DEF WriteEnd, TypeOK, tables
<1> QED BY <1>1, <1>2 DEF Writing

\* ensureCaddyContainer, the copy, the reload and their errors.
LEMMA DeliveringType == ASSUME TypeOK, NEW p \in Proc, Delivering(p) PROVE TypeOK'
<1>0. /\ Blank \in Snapshot /\ held[p] \in Config \union {Broken}
      /\ file \in Config \union {Broken} /\ inner \in Config \union {Broken}
      /\ caddy \in Caddy
  BY BlankType DEF TypeOK
<1>1. CASE Ensure(p)
  <2>1. pc' \in [Proc -> ApplyPc \union HandlerPc]
    <3>1. AfterEnsure(p) \in ApplyPc
      BY DEF AfterEnsure, ApplyPc
    <3> QED BY <1>1, <3>1, GoType DEF Ensure
  <2>2. caddy' \in Caddy /\ inner' \in Config \union {Broken}
    BY <1>0, <1>1 DEF Ensure, EnsureCaddyContainer, Caddy
  <2>3. snap' \in [Renderer -> Snapshot]
    BY <1>0, <1>1 DEF Ensure, TypeOK
  <2> QED BY <1>1, <2>1, <2>2, <2>3 DEF Ensure, TypeOK, tables
<1>2. CASE ReadFile(p)
  <2>1. pc' \in [Proc -> ApplyPc \union HandlerPc]
    BY <1>2, GoType DEF ReadFile, ApplyPc
  <2>2. held' \in [Proc -> Config \union {Broken}]
    <3>1. Source(p) \in Config \union {Broken}
      BY <1>0 DEF Source
    <3> QED BY <1>2, <3>1 DEF ReadFile, TypeOK
  <2> QED BY <1>2, <2>1, <2>2 DEF ReadFile, TypeOK, tables, edge
<1>3. CASE Put(p)
  <2>1. pc' \in [Proc -> ApplyPc \union HandlerPc]
    BY <1>3, GoType DEF Put, ApplyPc
  <2>2. off' \subseteq Cause
    BY <1>3 DEF Put, Late, Cause, TypeOK
  <2> QED BY <1>0, <1>3, <2>1, <2>2 DEF Put, TypeOK, tables
<1>4. CASE Post(p)
  <2>1. pc' \in [Proc -> ApplyPc \union HandlerPc]
    BY <1>4, GoType DEF Post, ApplyPc, HandlerPc
  <2>2. off' \subseteq Cause
    BY <1>4 DEF Post, Reloads, Late, Cause, TypeOK
  <2>3. caddy' \in Caddy
    BY <1>0, <1>4 DEF Post, Reloads, Caddy
  <2>4. held' \in [Proc -> Config \union {Broken}]
    BY <1>4 DEF Post, TypeOK
  <2>5. lastHash' \in Config \union {NoHash}
    BY <1>4, Processes DEF Post, TypeOK, Snapshot
  <2>6. left' \in Nat
    BY <1>4, EventType DEF Post, Reloads, Fault, TypeOK
  <2> QED BY <1>4, <2>1, <2>2, <2>3, <2>4, <2>5, <2>6 DEF Post, TypeOK, tables
<1>5. CASE Fail(p)
  <2>1. pc' \in [Proc -> ApplyPc \union HandlerPc]
    BY <1>5, GoType DEF Fail, ApplyPc, HandlerPc
  <2>2. owed' \in BOOLEAN
    BY <1>5, Zenon DEF Fail
  <2>7. off' \subseteq Cause
    BY <1>5 DEF Fail, Late, Cause, TypeOK
  <2>3. caddy' \in Caddy
    BY <1>0, <1>5 DEF Fail, CaddyAfterError, Caddy
  <2>4. held' \in [Proc -> Config \union {Broken}]
    BY <1>5 DEF Fail, TypeOK
  <2>5. left' \in Nat
    BY <1>5, EventType DEF Fail, Fault, TypeOK
  <2>6. snap' \in [Renderer -> Snapshot]
    BY <1>0, <1>5 DEF Fail, TypeOK
  <2> QED BY <1>5, <2>1, <2>2, <2>3, <2>4, <2>5, <2>6, <2>7 DEF Fail, TypeOK, tables
<1> QED BY <1>1, <1>2, <1>3, <1>4, <1>5 DEF Delivering

\* The steps of Apply and of Bootstrap that only read, and the report.
LEMMA ReadingType ==
    ASSUME TypeOK,
           ApplyBegin \/ ListDomains \/ ListBindings \/ ApplyRender \/ Observe \/ BootRender
    PROVE  TypeOK'
<1>0. /\ snap["apply"] \in Snapshot /\ snap["boot"] \in Snapshot
      /\ Read \in [Domain -> Row] /\ Blank \in Snapshot
  BY Processes, ReadType, BlankType DEF TypeOK
<1>1. CASE ApplyBegin
  <2>1. pc' \in [Proc -> ApplyPc \union HandlerPc]
    BY <1>1, GoType, Processes DEF ApplyBegin, ApplyPc
  <2> QED BY <1>1, <2>1 DEF ApplyBegin, TypeOK, tables, edge
<1>2. CASE ListDomains
  <2>1. pc' \in [Proc -> ApplyPc \union HandlerPc]
    BY <1>2, GoType, Processes DEF ListDomains, ApplyPc
  <2>2. [snap["apply"] EXCEPT !.rows = Read] \in Snapshot
    BY <1>0 DEF Snapshot
  <2>3. snap' = [snap EXCEPT !["apply"] = [snap["apply"] EXCEPT !.rows = Read]]
    BY <1>2 DEF ListDomains, TypeOK
  <2>4. snap' \in [Renderer -> Snapshot]
    BY <2>2, <2>3 DEF TypeOK
  <2> QED BY <1>2, <2>1, <2>4 DEF ListDomains, TypeOK, tables, edge
<1>3. CASE ListBindings
  <2>1. pc' \in [Proc -> ApplyPc \union HandlerPc]
    BY <1>3, GoType, Processes DEF ListBindings, ApplyPc
  <2>2. [snap["apply"] EXCEPT !.bind = bind] \in Snapshot
    BY <1>0 DEF Snapshot, TypeOK
  <2>3. snap' = [snap EXCEPT !["apply"] = [snap["apply"] EXCEPT !.bind = bind]]
    BY <1>3 DEF ListBindings, TypeOK
  <2>4. snap' \in [Renderer -> Snapshot]
    BY <2>2, <2>3 DEF TypeOK
  <2> QED BY <1>3, <2>1, <2>4 DEF ListBindings, TypeOK, tables, edge
<1>4. CASE ApplyRender
  <2> DEFINE cfg == Render(snap["apply"].rows, snap["apply"].bind, svc)
  <2>1. pc' \in [Proc -> ApplyPc \union HandlerPc]
    BY <1>4, GoType, Processes DEF ApplyRender, ApplyUnchanged, ApplyPc
  <2>2. cfg \in Config
    BY <1>0, RenderType DEF Snapshot, TypeOK
  <2>3. [snap["apply"] EXCEPT !.cfg = cfg] \in Snapshot
    BY <1>0, <2>2 DEF Snapshot
  <2>4. snap' = [snap EXCEPT !["apply"] = [snap["apply"] EXCEPT !.cfg = cfg]]
    BY <1>4 DEF ApplyRender, TypeOK
  <2>5. snap' \in [Renderer -> Snapshot]
    BY <2>3, <2>4 DEF TypeOK
  <2>6. fwd' \subseteq Port
    BY <1>4, ForwardedType DEF ApplyRender
  <2>7. left' \in Nat
    BY <1>4, EventType DEF ApplyRender, Fault, TypeOK
  <2> QED BY <1>4, <2>1, <2>5, <2>6, <2>7 DEF ApplyRender, TypeOK, tables, edge
<1>5. CASE Observe
  <2>1. pc' \in [Proc -> ApplyPc \union HandlerPc]
    BY <1>5, GoType, Processes DEF Observe, ApplyPc
  <2>2. snap' \in [Renderer -> Snapshot]
    BY <1>0, <1>5 DEF Observe, TypeOK
  <2>3. dom' \in [Domain -> Row]
    <3>1. \A d \in Domain : SetDomainObserved(d, snap["apply"].cfg) \in Row
      BY DEF SetDomainObserved, Observed, TypeOK, Row
    <3>2. \A d \in Domain : dom[d] \in Row
      BY DEF TypeOK
    <3> QED BY <1>5, <3>1, <3>2 DEF Observe
  <2>4. left' \in Nat /\ owed' \in BOOLEAN
    BY <1>5, EventType DEF Observe, Fault, TypeOK
  <2> QED BY <1>5, <2>1, <2>2, <2>3, <2>4 DEF Observe, TypeOK, edge
<1>6. CASE BootRender
  <2> DEFINE cfg == Render(Read, bind, svc)
  <2>1. pc' \in [Proc -> ApplyPc \union HandlerPc]
    BY <1>6, GoType, Processes DEF BootRender, ApplyPc
  <2>2. cfg \in Config
    BY <1>0, RenderType DEF TypeOK
  <2>3. [snap["boot"] EXCEPT !.cfg = cfg] \in Snapshot
    BY <1>0, <2>2 DEF Snapshot
  <2>4. snap' = [snap EXCEPT !["boot"] = [snap["boot"] EXCEPT !.cfg = cfg]]
    BY <1>6 DEF BootRender, TypeOK
  <2>5. snap' \in [Renderer -> Snapshot]
    BY <2>3, <2>4 DEF TypeOK
  <2> QED BY <1>6, <2>1, <2>5 DEF BootRender, TypeOK, tables, edge
<1> QED BY <1>1, <1>2, <1>3, <1>4, <1>5, <1>6

\* A pass of the reconciler.
LEMMA PassType == ASSUME TypeOK, Pass PROVE TypeOK'
<1>1. UNCHANGED <<pc, snap, held, todo, edge, lastHash, fwd, off>>
  BY DEF Pass, manager
<1>2. CASE PassWrites /\ PassTriggers /\ UNCHANGED owed
  <2>1. /\ dom' \in [Domain -> Row] /\ bind' \in [Domain -> Binding]
        /\ svc' \in [Instance -> Service] /\ left' \in Nat
    <3>1. CASE UNCHANGED <<tables, left>>
      BY <3>1 DEF tables, TypeOK
    <3>2. ASSUME NEW i \in Instance, Event, Cascade(i)
          PROVE  /\ dom' \in [Domain -> Row] /\ bind' \in [Domain -> Binding]
                 /\ svc' \in [Instance -> Service] /\ left' \in Nat
      BY <3>2, CascadeType, EventType DEF TypeOK
    <3>3. ASSUME NEW i \in Instance, Event, NEW p \in Port, svc' = [svc EXCEPT ![i] = p],
                 UNCHANGED <<dom, bind>>
          PROVE  /\ dom' \in [Domain -> Row] /\ bind' \in [Domain -> Binding]
                 /\ svc' \in [Instance -> Service] /\ left' \in Nat
      BY <3>3, EventType DEF TypeOK, Service
    <3> QED BY <1>2, <3>1, <3>2, <3>3 DEF PassWrites
  <2> QED BY <1>1, <1>2, <2>1 DEF Pass, PassTriggers, TypeOK, edge
<1>3. CASE Fault /\ owed' = TRUE /\ UNCHANGED <<tables, trig>>
  BY <1>1, <1>3, EventType DEF Pass, Fault, TypeOK, tables, edge
<1> QED BY <1>2, <1>3 DEF Pass

\* The threads of an agent that starts.
LEMMA ThreadsType ==
    /\ [p \in Proc |-> IF p = "boot" THEN "domains" ELSE "idle"]
         \in [Proc -> ApplyPc \union HandlerPc]
    /\ [r \in Renderer |-> Blank] \in [Renderer -> Snapshot]
    /\ [p \in Proc |-> Broken] \in [Proc -> Config \union {Broken}]
    /\ [h \in Handler |-> {}] \in [Handler -> SUBSET {"rec", "ing"}]
BY BlankType DEF ApplyPc

\* Restarts.
LEMMA CrashType == ASSUME TypeOK, AgentRestarts \/ CaddyRestarts PROVE TypeOK'
<1>1. CASE AgentRestarts
  BY <1>1, ThreadsType, EventType DEF AgentRestarts, Fault, TypeOK, tables, edge
<1>2. CASE CaddyRestarts
  <2>1. caddy' \in Caddy
    BY <1>2 DEF CaddyRestarts, TypeOK, Caddy
  <2>2. off' \subseteq Cause
    BY <1>2 DEF CaddyRestarts, Cause, TypeOK
  <2> QED BY <1>2, <2>1, <2>2, EventType DEF CaddyRestarts, Fault, TypeOK, tables
<1> QED BY <1>1, <1>2

\* A device that starts.
LEMMA InitType == ASSUME Init PROVE TypeOK
<1>1. dom \in [Domain -> Row] /\ bind \in [Domain -> Binding] /\ svc \in [Instance -> Service]
  BY DEF Init, Row, Binding, Service
<1>2. /\ pc \in [Proc -> ApplyPc \union HandlerPc] /\ snap \in [Renderer -> Snapshot]
      /\ held \in [Proc -> Config \union {Broken}]
      /\ todo \in [Handler -> SUBSET {"rec", "ing"}]
  BY ThreadsType DEF Init, Threads
<1>3. file \in Config \union {Broken} /\ caddy \in Caddy
  BY BlankType DEF Init, Caddy
<1>4. inner \in Config \union {Broken}
  BY <1>3 DEF Init
<1> QED BY <1>1, <1>2, <1>3, <1>4, IngressAssumption DEF Init, TypeOK

\* Every step keeps the types.
LEMMA TypeStep == ASSUME TypeOK, [Next]_vars PROVE TypeOK'
<1>1. CASE UNCHANGED vars
  BY <1>1 DEF vars, tables, edge, TypeOK
<1>2. CASE Applying
  BY <1>2, ReadingType, WritingType, DeliveringType, Processes DEF Applying
<1>3. CASE Bootstrap
  BY <1>3, ReadingType, WritingType, DeliveringType, Processes DEF Bootstrap
<1>4. ASSUME NEW h \in Handler, Handled(h) \/ Delivering(h) PROVE TypeOK'
  BY <1>4, HandledType, DeliveringType, Processes
<1> QED BY <1>1, <1>2, <1>3, <1>4, PassType, CrashType DEF Next

\* Tables, threads, files and the container are well formed.
THEOREM TypeCorrect == Spec => []TypeOK
<1>1. Init => TypeOK BY InitType
<1>2. TypeOK /\ [Next]_vars => TypeOK' BY TypeStep
<1> QED BY <1>1, <1>2, PTL DEF Spec

-----------------------------------------------------------------------------
(* No update is lost.  Unless something is pending, what Apply has read so *)
(* far is what the tables still say: whoever changes them leaves something *)
(* pending in the same step, and only the start of an Apply clears it.     *)

\* Apply holds a configuration and has not loaded it yet.
Carrying == {"rendered", "writing", "overlap", "ensure", "copy", "put", "reload", "post"}

UpToDate ==
    LET at == pc["apply"]
        s == snap["apply"] IN
    /\ at = "idle" =>
         /\ lastHash = Current
         /\ \A d \in Domain : dom[d].there => dom[d].obs = Observed(d, Current)
    /\ at \in {"bindings", "services", "observe"} \union Carrying => s.rows = Read
    /\ at = "services" => s.bind = bind
    /\ at \in {"observe"} \union Carrying => s.cfg = Current
    /\ at \in {"idle", "observe"} \union Carrying => fwd \subseteq Forwarded(Current)
    /\ at = "observe" => lastHash = Current

UpdateInv == Pending \/ UpToDate

\* A handler that is idle owes no notification.
Rested == \A h \in Handler : pc[h] = "idle" => todo[h] = {}

\* The status is not rendered.
LEMMA RenderRead ==
    ASSUME dom \in [Domain -> Row] PROVE Render(Read, bind, svc) = Current
BY ReadType DEF Render, Current

\* Tables, Apply and its results stay, and what is pending stays pending.
LEMMA Undisturbed ==
    ASSUME UpdateInv,
           pc'["apply"] = pc["apply"] \/ {pc["apply"], pc'["apply"]} \subseteq Carrying,
           snap'["apply"] = snap["apply"], UNCHANGED <<dom, bind, svc, lastHash, fwd>>,
           Pending => Pending'
    PROVE  UpdateInv'
<1>1. CASE Pending
  BY <1>1 DEF UpdateInv
<1>2. CASE UpToDate
  <2>1. UNCHANGED <<Current, Read>>
    BY DEF Current, Read
  <2>2. \A d \in Domain : Observed(d, Current)' = Observed(d, Current)
    BY <2>1 DEF Observed
  <2>3. UNCHANGED Forwarded(Current)
    BY <2>1 DEF Forwarded
  <2>4. UpToDate'
    <3>1. CASE pc'["apply"] = pc["apply"]
      BY <1>2, <2>1, <2>2, <2>3, <3>1 DEF UpToDate
    <3>2. CASE {pc["apply"], pc'["apply"]} \subseteq Carrying
      BY <1>2, <2>1, <2>3, <3>2 DEF UpToDate, Carrying
    <3> QED BY <3>1, <3>2
  <2> QED BY <2>4 DEF UpdateInv
<1> QED BY <1>1, <1>2 DEF UpdateInv

\* What is pending depends on four variables.
LEMMA PendingStays ==
    ASSUME UNCHANGED <<rec, trig, owed, todo>> PROVE Pending => Pending'
BY DEF Pending

\* A handler that will notify somebody is pending.
LEMMA HandlesPending ==
    ASSUME TypeOK, NEW h \in Handler, NEW to, NEW whom, whom # {}, Handles(h, to, whom)
    PROVE  Pending'
<1>1. todo'[h] # {}
  BY DEF Handles, TypeOK
<1> QED BY <1>1 DEF Pending

\* Another process takes a step.
LEMMA GoElsewhere ==
    ASSUME TypeOK, NEW p \in Proc, p # "apply", NEW to, Go(p, to)
    PROVE  pc'["apply"] = pc["apply"]
BY Processes DEF TypeOK, Go

\* A handler or a worker leaves something pending, or changes nothing.
LEMMA HandledUpdate ==
    ASSUME TypeOK, Rested, UpdateInv, NEW h \in Handler, Handled(h) PROVE UpdateInv'
<1>0. h \in Proc /\ h # "apply"
  BY Processes
<1>1. ASSUME Pending' PROVE UpdateInv'
  BY <1>1 DEF UpdateInv
<1>2. ASSUME NEW via \in Via, NEW d \in Domain,
             \/ UpsertDomain(h, d, via) \/ DeleteDomain(h, d, via)
             \/ \E a \in BOOLEAN : SetDomainBasicAuth(h, d, a, via)
             \/ \E b \in Port \union Instance : UpsertBinding(h, d, b, via)
             \/ DeleteBinding(h, d, via)
      PROVE  UpdateInv'
  <2>1. PICK to, whom : whom # {} /\ Handles(h, to, whom)
    BY <1>2, ViaType
       DEF UpsertDomain, DeleteDomain, SetDomainBasicAuth, UpsertBinding, DeleteBinding
  <2> QED BY <1>1, <2>1, HandlesPending
<1>3. ASSUME NEW i \in Instance, DeleteInstance(h, i) PROVE UpdateInv'
  BY <1>1, <1>3, HandlesPending DEF DeleteInstance
<1>4. ASSUME NEW i \in Instance, WorkerService(h, i) PROVE UpdateInv'
  <2>1. CASE todo' = [todo EXCEPT ![h] = {"ing"}]
    <3>1. todo'[h] # {}
      BY <2>1 DEF TypeOK
    <3> QED BY <1>1, <3>1 DEF Pending
  <2>2. CASE owed' = TRUE
    BY <1>1, <2>2 DEF Pending
  <2> QED BY <1>4, <2>1, <2>2 DEF WorkerService
<1>5. ASSUME NEW i \in Instance, NEW s \in Service \ {"gone"}, UpsertService(h, i, s)
      PROVE  UpdateInv'
  <2>1. (IF s = "none" THEN {"rec"} ELSE {"rec", "ing"}) # {}
    OBVIOUS
  <2> QED BY <1>1, <1>5, <2>1, HandlesPending DEF UpsertService
<1>6. CASE IngressReload(h)
  <2>1. pc'["apply"] = pc["apply"]
    BY <1>0, <1>6, GoElsewhere DEF IngressReload, Handles
  <2>2. UNCHANGED <<rec, trig, owed, snap, lastHash, fwd, dom, bind, svc>>
    BY <1>6 DEF IngressReload, Handles, tables
  <2>3. pc[h] = "idle" /\ todo' = [todo EXCEPT ![h] = {}]
    BY <1>6 DEF IngressReload, Handles
  <2>4. todo' = todo
    BY <2>3 DEF Rested, TypeOK
  <2> QED BY <2>1, <2>2, <2>4, PendingStays, Undisturbed
<1>7. CASE Notify(h)
  <2>1. pc'["apply"] = pc["apply"]
    BY <1>0, <1>7, GoElsewhere DEF Notify
  <2>2. UNCHANGED <<owed, snap, lastHash, fwd, dom, bind, svc>>
    BY <1>7 DEF Notify, tables
  <2>3. Pending => Pending'
    <3>1. todo' = [todo EXCEPT ![h] = {}] /\ todo[h] \subseteq {"rec", "ing"}
      BY <1>7 DEF Notify, TypeOK
    <3>2. (rec => rec') /\ (trig => trig')
      BY <1>7, Zenon DEF Notify
    <3>3. todo[h] # {} => rec' \/ trig'
      <4>1. todo[h] # {} => "rec" \in todo[h] \/ "ing" \in todo[h]
        BY <3>1
      <4> QED BY <1>7, <4>1, Zenon DEF Notify
    <3>4. \A g \in Handler : g # h => todo'[g] = todo[g]
      BY <3>1 DEF TypeOK
    <3> QED BY <2>2, <3>2, <3>3, <3>4 DEF Pending
  <2> QED BY <2>1, <2>2, <2>3, Undisturbed
<1> QED BY <1>2, <1>3, <1>4, <1>5, <1>6, <1>7 DEF Handled

\* Copying, loading and failing by anybody but Apply.
LEMMA DeliveringUpdate ==
    ASSUME TypeOK, UpdateInv, NEW p \in Proc, p # "apply", Delivering(p) PROVE UpdateInv'
<1>1. pc'["apply"] = pc["apply"]
  BY GoElsewhere DEF Delivering, Ensure, ReadFile, Put, Post, Fail
<1>2. UNCHANGED <<dom, bind, svc, lastHash, fwd, rec, trig, todo>>
  BY DEF Delivering, Ensure, ReadFile, Put, Post, Fail, tables
<1>3. snap'["apply"] = snap["apply"]
  BY Processes DEF Delivering, Ensure, ReadFile, Put, Post, Fail, TypeOK
<1>4. owed => owed'
  <2>1. CASE Fail(p)
    BY <2>1, Zenon DEF Fail
  <2>2. CASE UNCHANGED owed
    BY <2>2
  <2> QED BY <2>1, <2>2 DEF Delivering, Ensure, ReadFile, Put, Post
<1>5. Pending => Pending'
  BY <1>2, <1>4 DEF Pending
<1> QED BY <1>1, <1>2, <1>3, <1>5, Undisturbed

\* Writing the file.
LEMMA WritingUpdate ==
    ASSUME TypeOK, UpdateInv, NEW r \in Renderer, Writing(r) PROVE UpdateInv'
<1>1. UNCHANGED <<dom, bind, svc, lastHash, fwd, rec, trig, todo, owed, snap>>
  BY DEF Writing, WriteBegin, WriteEnd, tables
<1>2. pc'["apply"] = pc["apply"] \/ {pc["apply"], pc'["apply"]} \subseteq Carrying
  <2>1. CASE WriteBegin(r)
    <3>1. pc' \in {[pc EXCEPT ![r] = "overlap", ![Other(r)] = "overlap"],
                   [pc EXCEPT ![r] = "writing"]}
      BY <2>1 DEF WriteBegin
    <3>2. CASE r = "apply"
      <4>1. pc'["apply"] \in {"overlap", "writing"}
        BY <3>1, <3>2, Processes DEF TypeOK, Other
      <4> QED BY <2>1, <3>2, <4>1 DEF WriteBegin, Carrying
    <3>3. CASE r = "boot"
      <4>1. CASE pc' = [pc EXCEPT ![r] = "writing"]
        BY <3>3, <4>1, Processes DEF TypeOK
      <4>2. CASE pc' # [pc EXCEPT ![r] = "writing"]
        <5>1. pc["apply"] \in {"writing", "overlap"}
          BY <2>1, <3>3, <4>2 DEF WriteBegin, Other
        <5>2. pc'["apply"] = "overlap"
          BY <3>1, <3>3, <4>2, Processes DEF TypeOK, Other
        <5> QED BY <5>1, <5>2 DEF Carrying
      <4> QED BY <4>1, <4>2
    <3> QED BY <3>2, <3>3 DEF Renderer
  <2>2. CASE WriteEnd(r)
    <3>1. CASE r = "apply"
      <4>1. pc'["apply"] = "ensure"
        BY <2>2, <3>1, Processes, GoType DEF WriteEnd, ApplyPc
      <4> QED BY <2>2, <3>1, <4>1 DEF WriteEnd, Carrying
    <3>2. CASE r # "apply"
      BY <2>2, <3>2, Processes, GoElsewhere DEF WriteEnd
    <3> QED BY <3>1, <3>2
  <2> QED BY <2>1, <2>2 DEF Writing
<1> QED BY <1>1, <1>2, PendingStays, Undisturbed

\* Apply delivers what it has rendered.
LEMMA ApplyDeliversUpdate ==
    ASSUME TypeOK, UpdateInv, Delivering("apply") PROVE UpdateInv'
<1>1. CASE Ensure("apply") \/ ReadFile("apply") \/ Put("apply")
  <2>1. UNCHANGED <<dom, bind, svc, lastHash, fwd, rec, trig, todo, owed, snap>>
    BY <1>1 DEF Ensure, ReadFile, Put, tables
  <2>2. {pc["apply"], pc'["apply"]} \subseteq Carrying
    <3>1. pc["apply"] \in {"ensure", "copy", "put", "reload"}
      BY <1>1 DEF Ensure, ReadFile, Put
    <3>2. pc'["apply"] \in {"copy", "put", "reload", "post"}
      BY <1>1, Processes, GoType
         DEF Ensure, ReadFile, Put, AfterEnsure, ApplyPc
    <3> QED BY <3>1, <3>2 DEF Carrying
  <2> QED BY <2>1, <2>2, PendingStays, Undisturbed
<1>2. CASE Post("apply")
  <2>1. UNCHANGED <<dom, bind, svc, fwd, rec, trig, todo, owed, snap>>
    BY <1>2 DEF Post, tables
  <2>2. pc["apply"] = "post" /\ pc'["apply"] = "observe" /\ lastHash' = snap["apply"].cfg
    BY <1>2, Processes, GoType DEF Post, ApplyPc
  <2>3. CASE Pending
    BY <2>1, <2>3, PendingStays DEF UpdateInv
  <2>4. CASE UpToDate
    <3>1. UNCHANGED <<Current, Read>>
      BY <2>1 DEF Current, Read
    <3>2. UNCHANGED Forwarded(Current)
      BY <3>1 DEF Forwarded
    <3> QED BY <2>1, <2>2, <2>4, <3>1, <3>2 DEF UpdateInv, UpToDate, Carrying
  <2> QED BY <2>3, <2>4 DEF UpdateInv
<1>3. CASE Fail("apply")
  <2>1. owed'
    BY <1>3, Zenon DEF Fail
  <2> QED BY <2>1 DEF UpdateInv, Pending
<1> QED BY <1>1, <1>2, <1>3 DEF Delivering

\* Apply reads.
LEMMA ApplyReadsUpdate ==
    ASSUME TypeOK, UpdateInv, ApplyBegin \/ ListDomains \/ ListBindings \/ ApplyRender
    PROVE  UpdateInv'
<1>1. UNCHANGED <<dom, bind, svc, lastHash>>
  BY DEF ApplyBegin, ListDomains, ListBindings, ApplyRender, tables
<1>2. UNCHANGED <<Current, Read>>
  BY <1>1 DEF Current, Read
<1>3. CASE ApplyBegin
  <2>1. pc'["apply"] = "domains"
    BY <1>3, Processes, GoType DEF ApplyBegin, ApplyPc
  <2> QED BY <2>1 DEF UpdateInv, UpToDate, Carrying
<1>4. CASE ListDomains
  <2>1. pc'["apply"] = "bindings" /\ snap'["apply"].rows = Read
    <3>1. snap' = [snap EXCEPT !["apply"] = [snap["apply"] EXCEPT !.rows = Read]]
      BY <1>4 DEF ListDomains, TypeOK
    <3>2. snap'["apply"] = [snap["apply"] EXCEPT !.rows = Read]
      BY <3>1, Processes DEF TypeOK
    <3>3. snap'["apply"].rows = Read
      BY <3>2, Processes DEF TypeOK, Snapshot
    <3> QED BY <1>4, <3>3, Processes, GoType DEF ListDomains, ApplyPc
  <2> QED BY <1>2, <2>1 DEF UpdateInv, UpToDate, Carrying
<1>5. CASE ListBindings
  <2>1. /\ pc["apply"] = "bindings" /\ pc'["apply"] = "services"
        /\ snap'["apply"].bind = bind /\ snap'["apply"].rows = snap["apply"].rows
    <3>1. snap' = [snap EXCEPT !["apply"] = [snap["apply"] EXCEPT !.bind = bind]]
      BY <1>5 DEF ListBindings, TypeOK
    <3>2. snap'["apply"] = [snap["apply"] EXCEPT !.bind = bind]
      BY <3>1, Processes DEF TypeOK
    <3>3. snap'["apply"].bind = bind /\ snap'["apply"].rows = snap["apply"].rows
      BY <3>2, Processes DEF TypeOK, Snapshot
    <3> QED BY <1>5, <3>3, Processes, GoType DEF ListBindings, ApplyPc
  <2>2. CASE Pending
    BY <1>5, <2>2, PendingStays DEF UpdateInv, ListBindings
  <2>3. CASE UpToDate
    BY <1>1, <1>2, <2>1, <2>3 DEF UpdateInv, UpToDate, Carrying
  <2> QED BY <2>2, <2>3 DEF UpdateInv
<1>6. CASE ApplyRender
  <2> DEFINE cfg == Render(snap["apply"].rows, snap["apply"].bind, svc)
  <2>1. /\ pc["apply"] = "services" /\ fwd' \subseteq Forwarded(cfg)
        /\ \/ pc'["apply"] = "rendered"
           \/ pc'["apply"] = "observe" /\ lastHash = cfg
    BY <1>6, Processes, GoType DEF ApplyRender, ApplyUnchanged, ApplyPc
  <2>2. snap'["apply"].cfg = cfg /\ snap'["apply"].rows = snap["apply"].rows
    <3>1. snap' = [snap EXCEPT !["apply"] = [snap["apply"] EXCEPT !.cfg = cfg]]
      BY <1>6 DEF ApplyRender, TypeOK
    <3>2. snap'["apply"] = [snap["apply"] EXCEPT !.cfg = cfg]
      BY <3>1, Processes DEF TypeOK
    <3> HIDE DEF cfg
    <3> QED BY <3>2, Processes DEF TypeOK, Snapshot
  <2>3. CASE Pending
    BY <1>6, <2>3, PendingStays DEF UpdateInv, ApplyRender
  <2>4. CASE UpToDate
    <3>1. snap["apply"].rows = Read /\ snap["apply"].bind = bind
      BY <2>1, <2>4 DEF UpToDate
    <3>2. cfg = Current
      BY <3>1, RenderRead DEF TypeOK
    <3>3. Forwarded(Current)' = Forwarded(Current)
      BY <1>2 DEF Forwarded
    <3> HIDE DEF cfg
    <3> QED BY <1>1, <1>2, <2>1, <2>2, <3>1, <3>2, <3>3 DEF UpdateInv, UpToDate, Carrying
  <2> QED BY <2>3, <2>4 DEF UpdateInv
<1> QED BY <1>3, <1>4, <1>5, <1>6

\* Apply reports: what it read is what is there, so every status is renewed.
LEMMA ObserveUpdate == ASSUME TypeOK, UpdateInv, Observe PROVE UpdateInv'
<1>0. PICK failed \in SUBSET {d \in Domain : snap["apply"].rows[d].there} :
        /\ dom' = [d \in Domain |->
                     IF snap["apply"].rows[d].there /\ d \notin failed
                     THEN SetDomainObserved(d, snap["apply"].cfg) ELSE dom[d]]
        /\ IF failed = {} THEN UNCHANGED <<left, owed>> ELSE Fault /\ owed' = TRUE
  BY DEF Observe
<1>1. CASE failed # {}
  BY <1>0, <1>1 DEF UpdateInv, Pending
<1>2. CASE failed = {} /\ Pending
  BY <1>0, <1>2, PendingStays DEF Observe, UpdateInv
<1>3. CASE failed = {} /\ UpToDate
  <2>1. /\ pc["apply"] = "observe" /\ pc'["apply"] = "idle"
        /\ UNCHANGED <<bind, svc, lastHash, fwd>>
    BY Processes, GoType DEF Observe, ApplyPc
  <2>2. /\ snap["apply"].rows = Read /\ snap["apply"].cfg = Current
        /\ lastHash = Current /\ fwd \subseteq Forwarded(Current)
    BY <1>3, <2>1 DEF UpToDate
  <2>3. ASSUME NEW d \in Domain
        PROVE  /\ dom'[d].there = dom[d].there /\ dom'[d].auth = dom[d].auth
               /\ dom[d].there => dom'[d].obs = Observed(d, Current)
    <3>1. snap["apply"].rows[d].there = dom[d].there
      BY <2>2, ReadType DEF TypeOK
    <3>2. dom'[d] = IF dom[d].there THEN [dom[d] EXCEPT !.obs = Observed(d, Current)]
                    ELSE dom[d]
      BY <1>0, <1>3, <2>2, <3>1 DEF SetDomainObserved
    <3>3. dom[d] \in Row
      BY DEF TypeOK
    <3> QED BY <3>2, <3>3 DEF Row
  <2>4. UNCHANGED Current
    BY <2>1, <2>3 DEF Current, Render
  <2>5. \A d \in Domain : Observed(d, Current)' = Observed(d, Current)
    BY <2>4 DEF Observed
  <2>6. UNCHANGED Forwarded(Current)
    BY <2>4 DEF Forwarded
  <2>7. UpToDate'
    BY <2>1, <2>2, <2>3, <2>4, <2>5, <2>6 DEF UpToDate, Carrying
  <2> QED BY <2>7 DEF UpdateInv
<1> QED BY <1>1, <1>2, <1>3 DEF UpdateInv

\* Every step keeps Rested.
LEMMA RestedStep == ASSUME TypeOK, Rested, [Next]_vars PROVE Rested'
<1> SUFFICES ASSUME NEW h \in Handler PROVE pc'[h] = "idle" => todo'[h] = {}
  BY DEF Rested
<1>a. h \in Proc /\ h # "apply" /\ h # "boot" /\ h \notin Renderer
  BY Processes
<1>b. ASSUME pc'[h] = pc[h], todo'[h] = todo[h] PROVE pc'[h] = "idle" => todo'[h] = {}
  BY <1>b DEF Rested
<1>1. CASE UNCHANGED <<pc, todo>>
  BY <1>1, <1>b
<1>2. CASE ApplyBegin \/ ListDomains \/ ListBindings \/ ApplyRender \/ Observe \/ BootRender
  <2>1. PICK p \in Renderer : \E to : Go(p, to)
    BY <1>2, Processes DEF ApplyBegin, ListDomains, ListBindings, ApplyRender,
                           ApplyUnchanged, Observe, BootRender
  <2>2. pc'[h] = pc[h]
    BY <1>a, <2>1, Processes DEF Go, TypeOK
  <2>3. UNCHANGED todo
    BY <1>2 DEF ApplyBegin, ListDomains, ListBindings, ApplyRender, Observe, BootRender
  <2> QED BY <1>b, <2>2, <2>3
<1>3. ASSUME NEW r \in Renderer, Writing(r) PROVE pc'[h] = "idle" => todo'[h] = {}
  <2>1. UNCHANGED todo
    BY <1>3 DEF Writing, WriteBegin, WriteEnd
  <2>2. pc'[h] = pc[h]
    BY <1>3, <1>a, Processes DEF Writing, WriteBegin, WriteEnd, Go, Other, TypeOK, Renderer
  <2> QED BY <1>b, <2>1, <2>2
<1>4. ASSUME NEW p \in Proc, Delivering(p) PROVE pc'[h] = "idle" => todo'[h] = {}
  <2>1. UNCHANGED todo
    BY <1>4 DEF Delivering, Ensure, ReadFile, Put, Post, Fail
  <2>2. PICK to : Go(p, to) /\ (p = h => to # "idle")
    BY <1>4, <1>a DEF Delivering, Ensure, ReadFile, Put, Post, Fail, AfterEnsure
  <2>3. CASE p = h
    BY <1>a, <2>2, <2>3 DEF Go, TypeOK
  <2>4. CASE p # h
    BY <1>a, <1>b, <2>1, <2>2, <2>4 DEF Go, TypeOK
  <2> QED BY <2>3, <2>4
<1>5. ASSUME NEW g \in Handler, Handled(g) PROVE pc'[h] = "idle" => todo'[h] = {}
  <2>1. PICK to, whom : /\ Go(g, to) /\ todo' = [todo EXCEPT ![g] = whom]
                        /\ to = "idle" => whom = {}
    <3>1. CASE \E to \in {"ensure", "notify"} : \E whom : Handles(g, to, whom)
      BY <3>1 DEF Handles
    <3>2. CASE Notify(g)
      BY <3>2 DEF Notify
    <3>3. ASSUME NEW i \in Instance, WorkerService(g, i)
          PROVE  \E to, whom : /\ Go(g, to) /\ todo' = [todo EXCEPT ![g] = whom]
                               /\ to = "idle" => whom = {}
      <4>1. todo = [todo EXCEPT ![g] = todo[g]]
        BY DEF TypeOK
      <4> QED BY <3>3, <4>1 DEF WorkerService
    <3> QED BY <1>5, <3>1, <3>2, <3>3
            DEF Handled, UpsertDomain, DeleteDomain, SetDomainBasicAuth, UpsertBinding,
                DeleteBinding, DeleteInstance, UpsertService, IngressReload
  <2>2. CASE g = h
    BY <1>a, <2>1, <2>2 DEF Go, TypeOK
  <2>3. CASE g # h
    BY <1>a, <1>b, <2>1, <2>3, Processes DEF Go, TypeOK
  <2> QED BY <2>2, <2>3
<1>6. CASE AgentRestarts
  BY <1>6 DEF AgentRestarts
<1>7. CASE Pass \/ CaddyRestarts \/ UNCHANGED vars
  BY <1>1, <1>7 DEF Pass, manager, CaddyRestarts, vars
<1> QED BY <1>2, <1>3, <1>4, <1>5, <1>6, <1>7, Processes DEF Next, Applying, Bootstrap

\* Every step keeps UpdateInv.
LEMMA UpdateStep ==
    ASSUME TypeOK, Rested, UpdateInv, [Next]_vars PROVE UpdateInv'
<1>1. CASE Applying
  BY <1>1, ApplyReadsUpdate, WritingUpdate, ApplyDeliversUpdate, ObserveUpdate, Processes
     DEF Applying
<1>2. CASE Bootstrap
  <2>1. CASE BootRender
    <3>1. pc'["apply"] = pc["apply"] /\ snap'["apply"] = snap["apply"]
      BY <2>1, Processes, GoElsewhere DEF BootRender, TypeOK
    <3>2. UNCHANGED <<dom, bind, svc, lastHash, fwd, rec, trig, owed, todo>>
      BY <2>1 DEF BootRender, tables
    <3> QED BY <3>1, <3>2, PendingStays, Undisturbed
  <2> QED BY <1>2, <2>1, WritingUpdate, DeliveringUpdate, Processes DEF Bootstrap
<1>3. ASSUME NEW h \in Handler, Handled(h) \/ Delivering(h) PROVE UpdateInv'
  BY <1>3, HandledUpdate, DeliveringUpdate, Processes
<1>4. CASE Pass
  <2>1. trig' \/ owed'
    BY <1>4 DEF Pass, PassTriggers
  <2> QED BY <2>1 DEF UpdateInv, Pending
<1>5. CASE AgentRestarts
  BY <1>5 DEF AgentRestarts, UpdateInv, Pending
<1>6. CASE CaddyRestarts \/ UNCHANGED vars
  <2>1. UNCHANGED <<pc, snap, dom, bind, svc, lastHash, fwd, rec, trig, owed, todo>>
    BY <1>6 DEF CaddyRestarts, tables, vars
  <2> QED BY <2>1, PendingStays, Undisturbed
<1> QED BY <1>1, <1>2, <1>3, <1>4, <1>5, <1>6 DEF Next

\* Both hold of every behaviour.
LEMMA UpdateHolds == Spec => [](Rested /\ UpdateInv)
<1>1. Init => Rested /\ UpdateInv
  <2> SUFFICES ASSUME Init PROVE Rested /\ UpdateInv OBVIOUS
  <2>1. Rested
    BY DEF Init, Threads, Rested
  <2>2. UpdateInv
    BY DEF Init, UpdateInv, Pending
  <2> QED BY <2>1, <2>2
<1>2. TypeOK /\ (Rested /\ UpdateInv) /\ [Next]_vars => (Rested /\ UpdateInv)'
  BY RestedStep, UpdateStep
<1> QED BY <1>1, <1>2, TypeCorrect, PTL DEF Spec

\* Once nothing is pending, the file Apply last loaded is the one the tables call
\* for, for any number of handlers, workers, failed calls and crashes.
THEOREM UpdatesAreNotLost == Spec => []NoLostUpdate
<1>1. Rested /\ UpdateInv => NoLostUpdate
  BY DEF UpdateInv, UpToDate, NoLostUpdate, Settled
<1> QED BY <1>1, UpdateHolds, PTL

\* ... and so are the status of the domains and the forwarded ports.
THEOREM StatusIsCurrent == Spec => []StatusSettles
<1>1. Rested /\ UpdateInv => StatusSettles
  BY DEF UpdateInv, UpToDate, StatusSettles, Settled
<1> QED BY <1>1, UpdateHolds, PTL

-----------------------------------------------------------------------------
(* Caddy and lastHash agree unless one of the causes in `off` has come     *)
(* after the last Apply that wrote the file.                               *)

\* What Caddy would load.
Loaded == IF Containerized THEN inner ELSE file

\* Apply has nothing of its own in the file.
Resting == {"idle", "domains", "bindings", "services", "rendered", "observe"}

Sync ==
    LET at == pc["apply"] IN
    /\ at \in Resting /\ lastHash # NoHash =>
         /\ caddy = [state |-> "running", cfg |-> lastHash]
         /\ Loaded = lastHash /\ file = lastHash
    /\ at \in {"ensure", "copy", "put", "reload", "post"} => file = snap["apply"].cfg
    /\ at \in {"put", "post"} => held["apply"] = file
    /\ at \in {"reload", "post"} => Loaded = file

SyncInv == off # {} \/ Sync

\* Bootstrap neither copies nor reloads.
BootInv == pc["boot"] \in {"idle", "domains", "rendered", "writing", "overlap", "ensure"}

\* Every step keeps BootInv.
LEMMA BootStep == ASSUME TypeOK, BootInv, [Next]_vars PROVE BootInv'
<1>a. "boot" \in Proc /\ "apply" \in Proc /\ Handler \subseteq Proc
  BY Processes
<1>1. CASE UNCHANGED pc
  BY <1>1 DEF BootInv
<1>2. ASSUME NEW p \in Proc, p # "boot", \E to : Go(p, to) PROVE BootInv'
  BY <1>2, <1>a DEF Go, TypeOK, BootInv
<1>3. CASE ApplyBegin \/ ListDomains \/ ListBindings \/ ApplyRender \/ Observe
  BY <1>2, <1>3, <1>a DEF ApplyBegin, ListDomains, ListBindings, ApplyRender,
                          ApplyUnchanged, Observe
<1>4. CASE BootRender
  BY <1>4, <1>a DEF BootRender, Go, TypeOK, BootInv
<1>5. ASSUME NEW r \in Renderer, Writing(r) PROVE BootInv'
  <2>1. r \in Proc /\ Other(r) \in Proc
    BY Processes DEF Other
  <2>2. CASE WriteBegin(r)
    BY <1>a, <2>1, <2>2 DEF WriteBegin, TypeOK, BootInv
  <2>3. CASE WriteEnd(r)
    BY <1>a, <2>1, <2>3 DEF WriteEnd, Go, TypeOK, BootInv
  <2> QED BY <1>5, <2>2, <2>3 DEF Writing
<1>6. ASSUME NEW p \in Proc, p # "boot", Delivering(p) PROVE BootInv'
  BY <1>2, <1>6 DEF Delivering, Ensure, ReadFile, Put, Post, Fail
<1>7. CASE Delivering("boot")
  <2>1. PICK to \in {"idle"} : Go("boot", to)
    BY <1>7, Processes
       DEF Delivering, Ensure, ReadFile, Put, Post, Fail, AfterEnsure, BootInv
  <2> QED BY <1>a, <2>1 DEF Go, TypeOK, BootInv
<1>8. ASSUME NEW h \in Handler, Handled(h) PROVE BootInv'
  <2>1. \E to : Go(h, to)
    BY <1>8 DEF Handled, UpsertDomain, DeleteDomain, SetDomainBasicAuth, UpsertBinding,
                DeleteBinding, DeleteInstance, UpsertService, IngressReload, Handles,
                Notify, WorkerService
  <2> QED BY <1>2, <2>1, Processes
<1>9. CASE AgentRestarts
  BY <1>9, <1>a DEF AgentRestarts, BootInv
<1>10. CASE Pass \/ CaddyRestarts \/ UNCHANGED vars
  BY <1>1, <1>10 DEF Pass, manager, CaddyRestarts, vars
<1> QED BY <1>3, <1>4, <1>5, <1>6, <1>7, <1>8, <1>9, <1>10, Processes
        DEF Next, Applying, Bootstrap

\* Apply and the file stay; Caddy may be given the file, or load its own again.
LEMMA SyncKept ==
    ASSUME TypeOK, SyncInv,
           pc'["apply"] = pc["apply"], snap'["apply"] = snap["apply"],
           held'["apply"] = held["apply"], UNCHANGED <<lastHash, file>>,
           off' = {} => /\ off = {}
                    /\ inner' \in {inner, file}
                    /\ \/ caddy' = caddy
                       \/ caddy.state # "running"
                       \/ caddy' = [state |-> "running", cfg |-> file]
                       \/ caddy' = [caddy EXCEPT !.cfg = Loaded]
    PROVE  SyncInv'
<1>1. CASE off' # {}
  BY <1>1 DEF SyncInv
<1>2. CASE off' = {}
  <2>1. Sync
    BY <1>2 DEF SyncInv
  <2>2. Loaded' \in {Loaded, file}
    BY <1>2 DEF Loaded
  <2>3. pc["apply"] \in Resting /\ lastHash # NoHash
          => caddy' = [state |-> "running", cfg |-> lastHash]
    BY <1>2, <2>1 DEF Sync
  <2>4. Sync'
    BY <2>1, <2>2, <2>3 DEF Sync
  <2> QED BY <2>4 DEF SyncInv
<1> QED BY <1>1, <1>2

\* Anybody but Apply copies, reloads or fails.
LEMMA DeliveringSync ==
    ASSUME TypeOK, BootInv, SyncInv, NEW p \in Proc, p # "apply", Delivering(p)
    PROVE  SyncInv'
<1>0. p \in Renderer => p = "boot"
  BY DEF Renderer
<1>1. pc'["apply"] = pc["apply"]
  BY GoElsewhere DEF Delivering, Ensure, ReadFile, Put, Post, Fail
<1>2. snap'["apply"] = snap["apply"]
  BY Processes DEF Delivering, Ensure, ReadFile, Put, Post, Fail, TypeOK
<1>3. held'["apply"] = held["apply"]
  BY Processes DEF Delivering, Ensure, ReadFile, Put, Post, Fail, TypeOK
<1>4. UNCHANGED <<lastHash, file>>
  BY DEF Delivering, Ensure, ReadFile, Put, Post, Fail, edge
<1>5. caddy \in Caddy
  BY DEF TypeOK
<1>6. ASSUME off' = {}, pc[p] \in {"put", "post"}, off' = off \union Late(p) PROVE held[p] = file
  <2>1. p \in Handler
    BY <1>6 DEF BootInv, Proc, Renderer
  <2> QED BY <1>6, <2>1 DEF Late
<1>7. CASE Ensure(p) \/ ReadFile(p)
  <2>1. UNCHANGED off
    BY <1>7 DEF Ensure, ReadFile
  <2>2. inner' \in {inner, file} /\ (caddy' = caddy \/ caddy.state # "running")
    BY <1>7 DEF Ensure, ReadFile, EnsureCaddyContainer, edge
  <2> QED BY <1>1, <1>2, <1>3, <1>4, <2>1, <2>2, SyncKept
<1>8. CASE Put(p)
  <2>1. off' = off \union Late(p) /\ pc[p] = "put" /\ inner' = held[p] /\ caddy' = caddy
    BY <1>8 DEF Put
  <2>2. off' = {} => off = {}
    BY <2>1
  <2>3. off' = {} => held[p] = file
    BY <1>6, <2>1
  <2> QED BY <1>1, <1>2, <1>3, <1>4, <2>1, <2>2, <2>3, SyncKept
<1>9. CASE Post(p)
  <2>1. /\ off' = off \union Late(p) /\ pc[p] = "post" /\ inner' = inner
        /\ \/ caddy' = [caddy EXCEPT !.cfg = held[p]] /\ caddy.state = "running"
           \/ caddy' = caddy
    BY <1>9 DEF Post, Reloads
  <2>2. off' = {} => off = {}
    BY <2>1
  <2>3. off' = {} => held[p] = file
    BY <1>6, <2>1
  <2>4. caddy' = caddy \/ caddy' = [state |-> "running", cfg |-> held[p]]
    BY <1>5, <2>1 DEF Caddy
  <2> QED BY <1>1, <1>2, <1>3, <1>4, <2>1, <2>2, <2>3, <2>4, SyncKept
<1>10. CASE Fail(p)
  <2>1. /\ CaddyAfterError(p) /\ inner' = inner
    BY <1>10 DEF Fail
  <2>2. off' = {} => off = {} /\ Late(p) = {}
    BY <1>10 DEF Fail
  <2>3. ASSUME off' = {} PROVE caddy' = caddy \/ caddy.state # "running"
                           \/ caddy' = [state |-> "running", cfg |-> file]
    <3>1. CASE pc[p] = "post" /\ caddy.state = "running" /\ held[p] # Broken
      <4>1. held[p] = file
        BY <2>2, <2>3, <3>1 DEF Late, BootInv, Proc, Renderer
      <4>2. caddy' \in {caddy, [caddy EXCEPT !.cfg = held[p]]}
        BY <2>1, <3>1 DEF CaddyAfterError
      <4> QED BY <1>5, <3>1, <4>1, <4>2 DEF Caddy
    <3>2. CASE pc[p] = "ensure" /\ caddy.state # "running"
      BY <3>2
    <3> QED BY <2>1, <3>1, <3>2 DEF CaddyAfterError
  <2> QED BY <1>1, <1>2, <1>3, <1>4, <2>1, <2>2, <2>3, SyncKept
<1> QED BY <1>7, <1>8, <1>9, <1>10 DEF Delivering

\* Apply stays at rest.
LEMMA SyncRests ==
    ASSUME SyncInv, pc["apply"] \in Resting, pc'["apply"] \in Resting,
           UNCHANGED <<lastHash, file, inner, caddy>>, off' = {} => off = {}
    PROVE  SyncInv'
<1>1. Loaded' = Loaded
  BY DEF Loaded
<1> QED BY <1>1 DEF SyncInv, Sync, Resting

\* Apply reads and reports.
LEMMA ApplyReadsSync ==
    ASSUME TypeOK, SyncInv,
           ApplyBegin \/ ListDomains \/ ListBindings \/ ApplyRender \/ Observe
    PROVE  SyncInv'
<1>1. UNCHANGED <<lastHash, file, inner, caddy, off>>
  BY DEF ApplyBegin, ListDomains, ListBindings, ApplyRender, Observe, edge
<1>2. pc["apply"] \in Resting
  BY DEF ApplyBegin, ListDomains, ListBindings, ApplyRender, Observe, Resting
<1>3. PICK to \in Resting : Go("apply", to)
  BY DEF ApplyBegin, ListDomains, ListBindings, ApplyRender, ApplyUnchanged, Observe, Resting
<1>4. pc'["apply"] \in Resting
  BY <1>3, Processes DEF Go, TypeOK
<1> QED BY <1>1, <1>2, <1>4, SyncRests

\* The file is written.
LEMMA WritingSync ==
    ASSUME TypeOK, SyncInv, NEW r \in Renderer, Writing(r) PROVE SyncInv'
<1>1. CASE r = "boot"
  <2>1. off' # {}
    <3>1. CASE WriteBegin(r)
      BY <1>1, <3>1 DEF WriteBegin
    <3>2. CASE WriteEnd(r)
      BY <1>1, <3>2 DEF WriteEnd
    <3> QED BY <3>1, <3>2 DEF Writing
  <2> QED BY <2>1 DEF SyncInv
<1>2. CASE r = "apply" /\ WriteBegin(r)
  <2>1. pc'["apply"] \in {"overlap", "writing"}
    BY <1>2, Processes DEF WriteBegin, TypeOK, Other
  <2> QED BY <2>1 DEF SyncInv, Sync, Resting
<1>3. CASE r = "apply" /\ WriteEnd(r)
  <2>1. pc'["apply"] = "ensure" /\ UNCHANGED snap
    BY <1>3, Processes, GoType DEF WriteEnd, ApplyPc
  <2>2. off' # {} \/ pc[r] # "overlap"
    BY <1>3 DEF WriteEnd
  <2>3. pc[r] # "overlap" => file' = snap["apply"].cfg
    BY <1>3 DEF WriteEnd
  <2> QED BY <2>1, <2>2, <2>3 DEF SyncInv, Sync, Resting
<1> QED BY <1>1, <1>2, <1>3 DEF Writing, Renderer

\* Apply delivers its file.
LEMMA ApplyDeliversSync ==
    ASSUME TypeOK, SyncInv, Delivering("apply") PROVE SyncInv'
<1>0. "apply" \in Proc /\ "apply" \notin Handler /\ "apply" \in Renderer /\ caddy \in Caddy
  BY Processes DEF TypeOK
<1>1. CASE Ensure("apply")
  <2>1. /\ UNCHANGED <<off, snap, file>> /\ pc["apply"] = "ensure"
        /\ pc'["apply"] \in {"copy", "reload"}
        /\ pc'["apply"] = "reload" => ~Containerized
    BY <1>0, <1>1, GoType DEF Ensure, AfterEnsure, ApplyPc
  <2> QED BY <2>1 DEF SyncInv, Sync, Loaded, Resting
<1>2. CASE ReadFile("apply")
  <2>1. /\ UNCHANGED <<off, snap, file, inner>> /\ held'["apply"] = Source("apply")
        /\ \/ pc["apply"] = "copy" /\ pc'["apply"] = "put"
           \/ pc["apply"] = "reload" /\ pc'["apply"] = "post"
    BY <1>0, <1>2, GoType DEF ReadFile, ApplyPc, TypeOK, edge
  <2>2. Loaded' = Loaded
    BY <2>1 DEF Loaded
  <2>3. pc["apply"] = "copy" => Source("apply") = file
    BY DEF Source
  <2>4. pc["apply"] = "reload" => Source("apply") = Loaded
    BY DEF Source, Loaded
  <2> QED BY <2>1, <2>2, <2>3, <2>4 DEF SyncInv, Sync, Resting
<1>3. CASE Put("apply")
  <2>1. /\ UNCHANGED <<snap, file>> /\ pc["apply"] = "put" /\ pc'["apply"] = "reload"
        /\ inner' = held["apply"]
    BY <1>0, <1>3, GoType DEF Put, ApplyPc
  <2>2. off' = {} => off = {}
    BY <1>3 DEF Put
  <2> QED BY <2>1, <2>2 DEF SyncInv, Sync, Loaded, Resting
<1>4. CASE Post("apply")
  <2>1. /\ UNCHANGED <<snap, file, inner>> /\ pc["apply"] = "post"
        /\ pc'["apply"] = "observe" /\ lastHash' = snap["apply"].cfg
    BY <1>0, <1>4, GoType DEF Post, ApplyPc
  <2>2. CASE off' = {}
    <3>1. /\ off = {} /\ caddy.state = "running"
          /\ caddy' = [caddy EXCEPT !.cfg = held["apply"]]
      BY <1>4, <2>2 DEF Post, Reloads
    <3>2. caddy' = [state |-> "running", cfg |-> held["apply"]]
      BY <1>0, <3>1 DEF Caddy
    <3>3. Loaded' = Loaded
      BY <2>1 DEF Loaded
    <3> QED BY <2>1, <3>1, <3>2, <3>3 DEF SyncInv, Sync, Resting
  <2>3. CASE off' # {}
    BY <2>3 DEF SyncInv
  <2> QED BY <2>2, <2>3
<1>5. CASE Fail("apply")
  <2>1. CASE pc["apply"] \in {"domains", "bindings", "services", "rendered"}
    <3>1. UNCHANGED <<lastHash, file, inner, caddy>>
      BY <1>5, <2>1 DEF Fail, CaddyAfterError
    <3>2. off' = {} => off = {}
      BY <1>5 DEF Fail
    <3>3. pc'["apply"] = "idle"
      BY <1>0, <1>5, GoType DEF Fail, ApplyPc
    <3> QED BY <2>1, <3>1, <3>2, <3>3, SyncRests DEF Resting
  <2>2. CASE pc["apply"] \notin {"domains", "bindings", "services", "rendered"}
    <3>1. off' # {}
      BY <1>0, <1>5, <2>2 DEF Fail
    <3> QED BY <3>1 DEF SyncInv
  <2> QED BY <2>1, <2>2
<1> QED BY <1>1, <1>2, <1>3, <1>4, <1>5 DEF Delivering

\* Every step keeps SyncInv.
LEMMA SyncStep == ASSUME TypeOK, BootInv, SyncInv, [Next]_vars PROVE SyncInv'
<1>1. CASE Applying
  BY <1>1, ApplyReadsSync, WritingSync, ApplyDeliversSync, Processes DEF Applying
<1>2. CASE Bootstrap
  <2>1. CASE BootRender
    <3>1. pc'["apply"] = pc["apply"] /\ snap'["apply"] = snap["apply"]
      BY <2>1, Processes, GoElsewhere DEF BootRender, TypeOK
    <3>2. UNCHANGED <<held, lastHash, file, inner, caddy, off>>
      BY <2>1 DEF BootRender, edge
    <3> QED BY <3>1, <3>2, SyncKept
  <2> QED BY <1>2, <2>1, WritingSync, DeliveringSync, Processes DEF Bootstrap
<1>3. ASSUME NEW h \in Handler, Handled(h) PROVE SyncInv'
  <2>1. \E to : Go(h, to)
    BY <1>3 DEF Handled, UpsertDomain, DeleteDomain, SetDomainBasicAuth, UpsertBinding,
                DeleteBinding, DeleteInstance, UpsertService, IngressReload, Handles,
                Notify, WorkerService
  <2>2. pc'["apply"] = pc["apply"]
    BY <2>1, GoElsewhere, Processes
  <2>3. UNCHANGED <<snap, held, lastHash, file, inner, caddy, off>>
    BY <1>3 DEF Handled, UpsertDomain, DeleteDomain, SetDomainBasicAuth, UpsertBinding,
                DeleteBinding, DeleteInstance, UpsertService, IngressReload, Handles,
                Notify, WorkerService, edge
  <2> QED BY <2>2, <2>3, SyncKept
<1>4. ASSUME NEW h \in Handler, Delivering(h) PROVE SyncInv'
  BY <1>4, DeliveringSync, Processes
<1>5. CASE Pass \/ UNCHANGED vars
  <2>1. UNCHANGED <<pc, snap, held, lastHash, file, inner, caddy, off>>
    BY <1>5 DEF Pass, manager, vars, edge
  <2> QED BY <2>1, SyncKept
<1>6. CASE AgentRestarts
  <2>1. pc'["apply"] = "idle" /\ lastHash' = NoHash
    BY <1>6, Processes DEF AgentRestarts
  <2> QED BY <2>1 DEF SyncInv, Sync, Resting
<1>7. CASE CaddyRestarts
  <2>1. UNCHANGED <<pc, snap, held, lastHash, file, inner>>
    BY <1>7 DEF CaddyRestarts
  <2>2. (caddy' = [caddy EXCEPT !.cfg = Loaded] /\ UNCHANGED off) \/ off' # {}
    BY <1>7 DEF CaddyRestarts, Loaded
  <2> QED BY <2>1, <2>2, SyncKept
<1> QED BY <1>1, <1>2, <1>3, <1>4, <1>5, <1>6, <1>7 DEF Next

\* Both hold of every behaviour.
LEMMA SyncHolds == Spec => [](BootInv /\ SyncInv)
<1>1. Init => BootInv /\ SyncInv
  BY Processes DEF Init, Threads, BootInv, SyncInv, Sync, Resting
<1>2. TypeOK /\ (BootInv /\ SyncInv) /\ [Next]_vars => (BootInv /\ SyncInv)'
  BY BootStep, SyncStep
<1> QED BY <1>1, <1>2, TypeCorrect, PTL DEF Spec

\* Caddy runs and serves what lastHash says, and would again after a restart, unless
\* one of the six causes has come after the last Apply that wrote the file: Bootstrap's
\* write, alone or beside Apply's, a handler's older text, a failed call, a Caddy that
\* exited, or a reload that failed unnoticed.
THEOREM CaddyServesLastHash == Spec => []InSync
<1>1. BootInv /\ SyncInv => InSync
  BY DEF SyncInv, Sync, InSync, Resting, Loaded
<1> QED BY <1>1, SyncHolds, PTL

=============================================================================
