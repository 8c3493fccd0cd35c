------------------------------ MODULE Ingress ------------------------------
(***************************************************************************)
(* The edge proxy of a device: the tables domains, ingress_bindings and    *)
(* instance_services, the handlers that change them, the ingress manager   *)
(* that renders them into a Caddyfile and the Caddy container that loads   *)
(* it (internal/ingress, internal/store/domains.go, the domain handlers of *)
(* internal/ipc and internal/sync, the ingress loop of the reconciler).    *)
(*                                                                         *)
(* A configuration maps every rendered domain to its site; the hash kept   *)
(* in lastHash is the configuration itself.  Stored credentials are always *)
(* valid and a stored domain is never desired `removed` (the handlers and  *)
(* the CHECK of the table refuse both), so those two branches of the       *)
(* renderer are left out.                                                  *)
(***************************************************************************)
EXTENDS Naturals

CONSTANTS
    Domain,         \* names a user may claim
    Invalid,        \* those that are no hostname; the store takes them too
    Instance,       \* instances that may expose a service
    Port,           \* host ports: local-port bindings and host_port services
    Reserved,       \* ports that are never forwarded
    Handler,        \* concurrent IPC requests and signed mutations
    Containerized,  \* a Mac: the Caddyfile is copied into the container
    Broken,         \* a file that is missing or half written: Caddy refuses it
    NoHash,         \* lastHash before the first successful reload
    Faults,         \* whether calls fail, and the agent or Caddy die
    MaxEvents       \* bound: requests, failed calls, crashes and restarts

ASSUME IngressAssumption ==
    /\ Invalid \subseteq Domain /\ Reserved \subseteq Port
    /\ Containerized \in BOOLEAN /\ Faults \in BOOLEAN
    /\ MaxEvents \in Nat
    /\ "boot" \notin Handler /\ "apply" \notin Handler
    /\ (Port \union Instance) \intersect
         {"none", "gone", "docker_dns", "unix_socket", "page", "no service",
          "unsupported"} = {}
    /\ Port \intersect Instance = {}

VARIABLES
    dom,       \* the table domains: claimed or not, basic auth, observed_status
    bind,      \* the table ingress_bindings: a port, an instance, or none
    svc,       \* the table instance_services; "gone": no such instance
    rec,       \* the reconciler's trigger channel holds a token
    trig,      \* the ingress loop's trigger channel holds a token
    pc,        \* where Bootstrap, Apply and the handlers are
    snap,      \* what Bootstrap and Apply have read and rendered
    held,      \* the text a copy or a reload has read and not delivered yet
    todo,      \* whom each handler will notify: "rec", "ing"
    file,      \* the staged Caddyfile
    inner,     \* the copy inside the container (Containerized)
    caddy,     \* the container, and the configuration it serves
    lastHash,  \* Manager.lastHash
    fwd,       \* ports with a host-side forwarder (Mac)
    owed,      \* an error left the next attempt to the tick
    off,       \* history: what may have put Caddy out of step with lastHash
    left       \* what is left of the bound

tables == <<dom, bind, svc>>
edge   == <<file, inner, caddy>>
vars   == <<tables, rec, trig, pc, snap, held, todo, edge,
            lastHash, fwd, owed, off, left>>

Renderer == {"boot", "apply"}
Proc == Renderer \union Handler

Row == [there : BOOLEAN, auth : BOOLEAN,
        obs : {"pending", "ready", "bound", "error"}]
NoRow == [there |-> FALSE, auth |-> FALSE, obs |-> "pending"]
Binding == {"none"} \union Port \union Instance
Service == {"gone", "none", "docker_dns", "unix_socket"} \union Port
Upstream == {"page", "no service", "unsupported"} \union Port \union Instance
Site == [there : BOOLEAN, auth : BOOLEAN, to : Upstream]
NoSite == [there |-> FALSE, auth |-> FALSE, to |-> "page"]
Config == [Domain -> Site]
Empty == [d \in Domain |-> NoSite]

ASSUME NoConfigAssumption == Broken \notin Config /\ NoHash \notin Config

\* Bootstrap wrote the file; Bootstrap and Apply wrote it at the same time; a handler
\* delivered an older text; a call failed after the file was written; Caddy exited
\* and Docker could not start it again; a reload failed and nobody noticed.
Cause == {"boot", "overlap", "late", "failed", "exited", "unnoticed"}

ApplyPc == {"idle", "domains", "bindings", "services", "rendered", "writing",
            "overlap", "ensure", "copy", "put", "reload", "post", "observe"}
HandlerPc == {"idle", "ensure", "copy", "put", "reload", "post", "notify"}

-----------------------------------------------------------------------------
(* renderCaddyfile, as a function of the rows it has read.                 *)

\* A definition named X_Fault is X with a plausible bug; nothing else uses it.

UpstreamFor_NoFallback(b, s) ==
    IF b = "none" THEN "page" ELSE IF b \in Port THEN b ELSE s[b]

\* upstreamFor, and the fallbacks of a binding without a usable service.
UpstreamFor(b, s) ==
    IF b = "none" THEN "page"
    ELSE IF b \in Port THEN b
    ELSE IF s[b] = "docker_dns" THEN b
    ELSE IF s[b] = "unix_socket" THEN "unsupported"
    ELSE IF s[b] \in Port THEN s[b]
    ELSE "no service"

Render(ds, bs, s) ==
    [d \in Domain |->
        IF ds[d].there /\ d \notin Invalid
        THEN [there |-> TRUE, auth |-> ds[d].auth, to |-> UpstreamFor(bs[d], s)]
        ELSE NoSite]

\* summary.observed: the status each domain of the rendered rows gets.
Observed(d, cfg) ==
    IF d \in Invalid THEN "error"
    ELSE IF cfg[d].to \in Port \union Instance THEN "bound" ELSE "ready"

\* summary.localPorts, and the ports syncLocalPortForwarders keeps of them.
Forwarded(cfg) == {cfg[d].to : d \in {e \in Domain : cfg[e].there}}
                    \intersect (Port \ Reserved)

Current == Render(dom, bind, svc)

-----------------------------------------------------------------------------
(* Starting.                                                               *)

\* What Bootstrap and Apply hold before they have read anything.
Blank == [rows |-> [d \in Domain |-> NoRow], bind |-> [d \in Domain |-> "none"],
          cfg |-> Empty]

Threads ==
    /\ pc = [p \in Proc |-> IF p = "boot" THEN "domains" ELSE "idle"]
    /\ snap = [r \in Renderer |-> Blank]
    /\ held = [p \in Proc |-> Broken]
    /\ todo = [h \in Handler |-> {}]

\* A first start, or a start over what an earlier agent left: a Caddy that runs,
\* or that lacks the host-gateway entry.  (It may exit later.)
Init ==
    /\ dom = [d \in Domain |-> [there |-> TRUE, auth |-> FALSE, obs |-> "pending"]]
    /\ bind = [d \in Domain |-> "none"]
    /\ svc = [i \in Instance |-> "none"]
    /\ Threads
    /\ rec = TRUE /\ trig = FALSE
    /\ \/ file = Broken /\ caddy = [state |-> "absent", cfg |-> Broken]
       \/ file = Empty /\ caddy \in [state : {"drifted", "running"}, cfg : {Empty}]
    /\ inner = IF Containerized THEN file ELSE Broken
    /\ lastHash = NoHash /\ fwd = {}
    /\ owed = FALSE /\ off = {} /\ left = MaxEvents

Event == left > 0 /\ left' = left - 1
Fault == Faults /\ Event
Go(p, to) == pc' = [pc EXCEPT ![p] = to]

-----------------------------------------------------------------------------
(* Rendering: Bootstrap and Apply read the three tables one after another. *)

\* The ingress loop takes the token and calls Apply.
ApplyBegin ==
    /\ trig /\ pc["apply"] = "idle"
    /\ trig' = FALSE /\ owed' = FALSE
    /\ Go("apply", "domains")
    /\ UNCHANGED <<tables, rec, snap, held, todo, edge, lastHash, fwd, off,
                   left>>

\* Rows as the renderer sees them.
Read == [d \in Domain |-> [dom[d] EXCEPT !.obs = "pending"]]

ListDomains ==
    /\ pc["apply"] = "domains"
    /\ snap' = [snap EXCEPT !["apply"].rows = Read]
    /\ Go("apply", "bindings")
    /\ UNCHANGED <<tables, rec, trig, held, todo, edge, lastHash, fwd, owed,
                   off, left>>

ListBindings ==
    /\ pc["apply"] = "bindings"
    /\ snap' = [snap EXCEPT !["apply"].bind = bind]
    /\ Go("apply", "services")
    /\ UNCHANGED <<tables, rec, trig, held, todo, edge, lastHash, fwd, owed,
                   off, left>>

\* Bootstrap reads them the same way, in one step here: what a mixture of old
\* and new rows does is seen with Apply.
BootRender ==
    /\ pc["boot"] = "domains"
    /\ snap' = [snap EXCEPT !["boot"].cfg = Render(Read, bind, svc)]
    /\ Go("boot", "rendered")
    /\ UNCHANGED <<tables, rec, trig, held, todo, edge, lastHash, fwd, owed,
                   off, left>>

ApplyUnchanged_SkipsStatus == Go("apply", "idle")

\* The file Caddy has was rendered from the same tables: only the status is
\* written back; Caddy itself is not looked at.
ApplyUnchanged == Go("apply", "observe")

\* ListInstanceServices, the rendering, the forwarders (one that
\* cannot listen is left out until the next Apply) and the comparison.
ApplyRender ==
    /\ pc["apply"] = "services"
    /\ LET cfg == Render(snap["apply"].rows, snap["apply"].bind, svc) IN
         /\ snap' = [snap EXCEPT !["apply"].cfg = cfg]
         /\ \/ fwd' = Forwarded(cfg) /\ UNCHANGED left
            \/ Fault /\ fwd' = fwd \intersect Forwarded(cfg)
         /\ IF cfg = lastHash THEN ApplyUnchanged ELSE Go("apply", "rendered")
    /\ UNCHANGED <<tables, rec, trig, held, todo, edge, lastHash, owed, off>>

-----------------------------------------------------------------------------
(* writeCaddyfile truncates the file in place and writes it.  Nothing keeps *)
(* Bootstrap and Apply from doing so at the same time; the outcome is then  *)
(* one of the two texts or, when they differ, a mixture.                    *)

Other(r) == IF r = "boot" THEN "apply" ELSE "boot"

WriteBegin(r) ==
    /\ pc[r] = "rendered"
    /\ file' = Broken
    /\ pc' = IF /\ pc[Other(r)] \in {"writing", "overlap"}
                /\ snap[Other(r)].cfg # snap[r].cfg
             THEN [pc EXCEPT ![r] = "overlap", ![Other(r)] = "overlap"]
             ELSE [pc EXCEPT ![r] = "writing"]
    /\ off' = off \union (IF r = "boot" THEN {"boot"} ELSE {})
    /\ UNCHANGED <<tables, rec, trig, snap, held, todo, inner, caddy,
                   lastHash, fwd, owed, left>>

WriteEnd(r) ==
    /\ pc[r] \in {"writing", "overlap"}
    /\ file' \in {snap[r].cfg} \union (IF pc[r] = "overlap" THEN {Broken} ELSE {})
    /\ off' = IF r = "boot" THEN off \union {"boot"}
              ELSE IF pc[r] = "overlap" THEN {"overlap"} ELSE {}
    /\ Go(r, "ensure")
    /\ UNCHANGED <<tables, rec, trig, snap, held, todo, inner, caddy,
                   lastHash, fwd, owed, left>>

-----------------------------------------------------------------------------
(* The Caddy container.  ensureMu makes ensureCaddyContainer one step.     *)

AfterEnsure_NoCopy(p) == IF p = "boot" THEN "idle" ELSE "reload"

AfterEnsure(p) == IF p = "boot" THEN "idle"
                  ELSE IF Containerized THEN "copy" ELSE "reload"

\* A running container is kept; any other is removed and a new one is created,
\* seeded with the staged file (Containerized) and started.
EnsureCaddyContainer ==
    IF caddy.state = "running" THEN UNCHANGED <<caddy, inner>>
    ELSE /\ Containerized => file # Broken
         /\ caddy' = [state |-> "running", cfg |-> file]
         /\ inner' = IF Containerized THEN file ELSE inner

Ensure(p) ==
    /\ pc[p] = "ensure"
    /\ EnsureCaddyContainer
    /\ Go(p, AfterEnsure(p))
    /\ snap' = IF p = "boot" THEN [snap EXCEPT ![p] = Blank] ELSE snap
    /\ UNCHANGED <<tables, rec, trig, held, todo, file, lastHash, fwd,
                   owed, off, left>>

\* copyCaddyfileToContainer reads the staged file and PUTs it; caddy reload
\* reads its own and POSTs it to the admin endpoint.  Both hold the text in
\* between.
Source(p) == IF pc[p] = "copy" THEN file ELSE IF Containerized THEN inner ELSE file

ReadFile(p) ==
    /\ \/ pc[p] = "copy" /\ Go(p, "put")
       \/ pc[p] = "reload" /\ Go(p, "post")
    /\ held' = [held EXCEPT ![p] = Source(p)]
    /\ UNCHANGED <<tables, rec, trig, snap, todo, edge, lastHash, fwd,
                   owed, off, left>>

\* A text that is no longer the staged one, delivered by a handler.
Late(p) == IF p \in Handler /\ pc[p] \in {"put", "post"} /\ held[p] # file
           THEN {"late"} ELSE {}

Put(p) ==
    /\ pc[p] = "put" /\ caddy.state # "absent"
    /\ inner' = held[p]
    /\ off' = off \union Late(p)
    /\ Go(p, "reload")
    /\ UNCHANGED <<tables, rec, trig, snap, held, todo, file, caddy,
                   lastHash, fwd, owed, left>>

\* `caddy reload` by docker exec.  Its start may be refused (Caddy just exited, the
\* daemon failed) or its exit code not be read: reloadCaddy checks neither answer, and
\* what it never learnt is exit code 0.
Reloads(p) ==
    \/ /\ caddy.state = "running" /\ held[p] # Broken
       /\ caddy' = [caddy EXCEPT !.cfg = held[p]]
       /\ off' = off \union Late(p)
       /\ UNCHANGED left
    \/ /\ \/ Fault
          \/ caddy.state # "running" /\ UNCHANGED left
       /\ caddy' = caddy
       /\ off' = off \union Late(p) \union (IF p = "apply" THEN {"unnoticed"} ELSE {})

\* A handler goes on to its notifications; Apply remembers the hash, which nothing
\* else reads.
Post(p) ==
    /\ pc[p] = "post"
    /\ Reloads(p)
    /\ held' = [held EXCEPT ![p] = Broken]
    /\ Go(p, IF p = "apply" THEN "observe" ELSE "notify")
    /\ lastHash' = IF p = "apply" THEN snap[p].cfg ELSE lastHash
    /\ UNCHANGED <<tables, rec, trig, snap, todo, file, inner, fwd, owed>>

\* What a call that fails half way leaves of the container.
CaddyAfterError(p) ==
    CASE pc[p] = "ensure" /\ caddy.state # "running" ->
            caddy' \in {caddy, [caddy EXCEPT !.state = "absent"],
                        [caddy EXCEPT !.state = "stopped"]}
      [] pc[p] = "post" /\ caddy.state = "running" /\ held[p] # Broken ->
            caddy' \in {caddy, [caddy EXCEPT !.cfg = held[p]]}
      [] OTHER -> caddy' = caddy

\* These calls cannot succeed whatever the daemon does, and cost no fault.
Impossible(p) ==
    \/ pc[p] = "ensure" /\ caddy.state # "running" /\ Containerized /\ file = Broken
    \/ pc[p] = "put" /\ caddy.state = "absent"
    \/ pc[p] = "post" /\ (caddy.state # "running" \/ held[p] = Broken)

\* An error is an early return: of Bootstrap and of Apply, which leaves
\* lastHash as it was, and of Reload, whose callers go on.
Fail(p) ==
    /\ pc[p] \notin {"idle", "observe", "notify"}
    /\ \/ Impossible(p) /\ UNCHANGED left
       \/ Fault
    /\ CaddyAfterError(p)
    /\ held' = [held EXCEPT ![p] = Broken]
    /\ Go(p, IF p \in Renderer THEN "idle" ELSE "notify")
    /\ owed' = (owed \/ p = "apply")
    /\ off' = off \union Late(p) \union
                (IF p \in Handler \/ pc[p] \in {"domains", "bindings", "services", "rendered"}
                 THEN {} ELSE {"failed"})
    /\ snap' = IF p \in Renderer THEN [snap EXCEPT ![p] = Blank] ELSE snap
    /\ UNCHANGED <<tables, rec, trig, todo, file, inner,
                   lastHash, fwd>>

\* An UPDATE: a domain deleted meanwhile stays deleted.
SetDomainObserved(d, cfg) ==
    IF dom[d].there THEN [dom[d] EXCEPT !.obs = Observed(d, cfg)] ELSE dom[d]

\* The status of every domain that was read; a failed write is only logged.
Observe ==
    /\ pc["apply"] = "observe"
    /\ \E failed \in SUBSET {d \in Domain : snap["apply"].rows[d].there} :
         /\ dom' = [d \in Domain |->
                      IF snap["apply"].rows[d].there /\ d \notin failed
                      THEN SetDomainObserved(d, snap["apply"].cfg) ELSE dom[d]]
         /\ IF failed = {} THEN UNCHANGED <<left, owed>> ELSE Fault /\ owed' = TRUE
    /\ snap' = [snap EXCEPT !["apply"] = Blank]
    /\ Go("apply", "idle")
    /\ UNCHANGED <<bind, svc, rec, trig, held, todo, edge, lastHash,
                   fwd, off>>

-----------------------------------------------------------------------------
(* The handlers.  Over IPC they end in Trigger and TriggerIngress, as a    *)
(* signed mutation in Trigger alone; basic auth over IPC nudges only the   *)
(* ingress loop.                                                           *)

\* What the statements of the store do: a domain is inserted unless it is
\* there and keeps its credentials and its status, credentials are updated,
\* and the foreign keys of a binding must be satisfied.
WithDomain(d) ==
    IF dom[d].there THEN dom ELSE [dom EXCEPT ![d] = [NoRow EXCEPT !.there = TRUE]]

WithAuth(d, auth) == [dom EXCEPT ![d].auth = auth]

Bindable(d, b) == dom[d].there /\ (b \in Instance => svc[b] # "gone")

Via == {"ipc", "signed"}
Both(via) == IF via = "ipc" THEN {"rec", "ing"} ELSE {"rec"}
Nudge(via) == IF via = "ipc" THEN {"ing"} ELSE {"rec"}

Handles(h, to, whom) ==
    /\ pc[h] = "idle" /\ Event
    /\ Go(h, to)
    /\ todo' = [todo EXCEPT ![h] = whom]
    /\ UNCHANGED <<rec, trig, snap, held, edge, lastHash, fwd, owed,
                   off>>

\* Caddy is reloaded before the notification, with the file as it is.
UpsertDomain(h, d, via) ==
    /\ Handles(h, "ensure", Both(via))
    /\ dom' = WithDomain(d)
    /\ UNCHANGED <<bind, svc>>

\* ON DELETE CASCADE takes the binding along.
DeleteDomain(h, d, via) ==
    /\ Handles(h, "notify", Both(via))
    /\ dom' = [dom EXCEPT ![d] = NoRow]
    /\ bind' = [bind EXCEPT ![d] = "none"]
    /\ UNCHANGED svc

SetDomainBasicAuth_NoNudge(h, d, auth, via) ==
    /\ dom[d].there
    /\ Handles(h, "notify", {})
    /\ dom' = WithAuth(d, auth)
    /\ UNCHANGED <<bind, svc>>

SetDomainBasicAuth(h, d, auth, via) ==
    /\ dom[d].there
    /\ Handles(h, "notify", Nudge(via))
    /\ dom' = WithAuth(d, auth)
    /\ UNCHANGED <<bind, svc>>

UpsertBinding(h, d, b, via) ==
    /\ Bindable(d, b)
    /\ Handles(h, "notify", Both(via))
    /\ bind' = [bind EXCEPT ![d] = b]
    /\ UNCHANGED <<dom, svc>>

DeleteBinding(h, d, via) ==
    /\ Handles(h, "notify", Both(via))
    /\ bind' = [bind EXCEPT ![d] = "none"]
    /\ UNCHANGED <<dom, svc>>

\* POST /v1/admin/services, and an instance upsert (s = "none"), which creates
\* the row its services hang on.
UpsertService(h, i, s) ==
    /\ (s = "none") = (svc[i] = "gone")
    /\ Handles(h, "notify", IF s = "none" THEN {"rec"} ELSE {"rec", "ing"})
    /\ svc' = [svc EXCEPT ![i] = s]
    /\ UNCHANGED <<dom, bind>>

\* adminIngressReload.
IngressReload(h) == Handles(h, "ensure", {}) /\ UNCHANGED tables

\* Two sends on channels of one place: a token that is there stays.
Notify(h) ==
    /\ pc[h] = "notify"
    /\ rec' = (rec \/ "rec" \in todo[h]) /\ trig' = (trig \/ "ing" \in todo[h])
    /\ todo' = [todo EXCEPT ![h] = {}]
    /\ Go(h, "idle")
    /\ UNCHANGED <<tables, snap, held, edge, lastHash, fwd, owed, off,
                   left>>

-----------------------------------------------------------------------------
(* The reconciler: the pass deletes removed instances and registers the    *)
(* services of system instances, the worker those of container instances.  *)

manager == <<pc, snap, held, todo, edge, lastHash, fwd, off>>

\* The services and the bindings of the instance go with it.
Cascade(i) ==
    /\ svc' = [svc EXCEPT ![i] = "gone"]
    /\ bind' = [d \in Domain |-> IF bind[d] = i THEN "none" ELSE bind[d]]
    /\ dom' = dom

\* A hard delete over IPC.
DeleteInstance(h, i) ==
    /\ svc[i] # "gone"
    /\ Handles(h, "notify", {"rec"})
    /\ Cascade(i)

\* What a pass may change of the tables.
PassWrites ==
    \/ UNCHANGED <<tables, left>>
    \/ /\ Event
       /\ \E i \in {j \in Instance : svc[j] # "gone"} :
            \/ Cascade(i)
            \/ \E p \in Port : svc' = [svc EXCEPT ![i] = p] /\ UNCHANGED <<dom, bind>>

\* Every pass that got under way ends in TriggerIngress.
PassTriggers == trig' = TRUE

\* By the trigger, the ticker or, after Init, the start.  What it writes and the
\* trigger at its end are one step: an Apply in between is followed by another.
\* A pass that cannot list the instances or the containers returns at once.
Pass ==
    /\ rec' = FALSE
    /\ \/ PassWrites /\ PassTriggers /\ UNCHANGED owed
       \/ Fault /\ owed' = TRUE /\ UNCHANGED <<tables, trig>>
    /\ UNCHANGED manager

\* The worker nudges the ingress when the instance changed.  It did not when an
\* earlier agent died between creating the container and registering it.
WorkerService(h, i) ==
    /\ pc[h] = "idle" /\ svc[i] # "gone" /\ Event
    /\ svc' = [svc EXCEPT ![i] = "docker_dns"]
    /\ Go(h, "notify")
    /\ \/ todo' = [todo EXCEPT ![h] = {"ing"}] /\ UNCHANGED owed
       \/ Faults /\ owed' = TRUE /\ UNCHANGED todo
    /\ UNCHANGED <<dom, bind, rec, trig, snap, held, edge, lastHash, fwd, off>>

-----------------------------------------------------------------------------
(* Crashes.                                                                *)

\* The agent dies and starts again: a file that was being written stays broken.
AgentRestarts ==
    /\ Fault
    /\ pc' = [p \in Proc |-> IF p = "boot" THEN "domains" ELSE "idle"]
    /\ snap' = [r \in Renderer |-> Blank]
    /\ held' = [p \in Proc |-> Broken]
    /\ todo' = [h \in Handler |-> {}]
    /\ rec' = TRUE /\ trig' = FALSE
    /\ lastHash' = NoHash /\ fwd' = {} /\ owed' = FALSE
    /\ UNCHANGED <<tables, edge, off>>

\* Docker starts Caddy again after it or the host went down (unless-stopped),
\* and it loads its file; or it cannot, and the container stays exited: an Apply with
\* nothing new to load does not look at it (ApplyUnchanged).
CaddyRestarts ==
    /\ caddy.state = "running" /\ Fault
    /\ \/ caddy' = [caddy EXCEPT !.cfg = IF Containerized THEN inner ELSE file]
          /\ UNCHANGED off
       \/ caddy' = [caddy EXCEPT !.state = "stopped"] /\ off' = off \union {"exited"}
    /\ UNCHANGED <<tables, rec, trig, pc, snap, held, todo, file, inner,
                   lastHash, fwd, owed>>

-----------------------------------------------------------------------------
Handled(h) ==
    \/ \E via \in Via, d \in Domain :
         \/ UpsertDomain(h, d, via)
         \/ DeleteDomain(h, d, via)
         \/ \E a \in BOOLEAN : SetDomainBasicAuth(h, d, a, via)
         \/ \E b \in Port \union Instance : UpsertBinding(h, d, b, via)
         \/ DeleteBinding(h, d, via)
    \/ \E i \in Instance :
         \/ DeleteInstance(h, i)
         \/ WorkerService(h, i)
         \/ \E s \in Service \ {"gone"} : UpsertService(h, i, s)
    \/ IngressReload(h)
    \/ Notify(h)

Writing(r) == WriteBegin(r) \/ WriteEnd(r)
Delivering(p) == Ensure(p) \/ ReadFile(p) \/ Put(p) \/ Post(p) \/ Fail(p)
Applying == \/ ApplyBegin \/ ListDomains \/ ListBindings \/ ApplyRender
            \/ Writing("apply") \/ Delivering("apply") \/ Observe
Bootstrap == BootRender \/ Writing("boot") \/ Delivering("boot")

Next ==
    \/ Applying
    \/ Bootstrap
    \/ \E h \in Handler : Handled(h) \/ Delivering(h)
    \/ Pass
    \/ AgentRestarts \/ CaddyRestarts

Spec == Init /\ [][Next]_vars

-----------------------------------------------------------------------------
Snapshot == [rows : [Domain -> Row], bind : [Domain -> Binding], cfg : Config]
Caddy == [state : {"absent", "stopped", "drifted", "running"},
          cfg : Config \union {Broken}]

\* Types of the variables.
TypeOK ==
    /\ dom \in [Domain -> Row] /\ bind \in [Domain -> Binding]
    /\ svc \in [Instance -> Service]
    /\ rec \in BOOLEAN /\ trig \in BOOLEAN
    /\ pc \in [Proc -> ApplyPc \union HandlerPc]
    /\ snap \in [Renderer -> Snapshot]
    /\ held \in [Proc -> Config \union {Broken}]
    /\ todo \in [Handler -> SUBSET {"rec", "ing"}]
    /\ file \in Config \union {Broken} /\ inner \in Config \union {Broken}
    /\ caddy \in Caddy
    /\ lastHash \in Config \union {NoHash} /\ fwd \subseteq Port
    /\ owed \in BOOLEAN /\ off \subseteq Cause
    /\ left \in Nat

\* Something will still start an Apply without waiting for the tick.
Pending == \/ rec \/ trig \/ owed
           \/ \E h \in Handler : todo[h] # {}

Settled == ~Pending /\ pc["apply"] = "idle"

\* No change of the tables is lost: whatever order the handlers, the
\* worker and Apply take their steps in, once nothing is pending the file that
\* Apply last loaded into Caddy is the one the tables call for.
NoLostUpdate == Settled => lastHash = Current

\* ... and the status shown to the user and the forwarded host ports are those
\* of the tables: no port stays open for a binding that is gone.
StatusSettles ==
    Settled => /\ \A d \in Domain : dom[d].there => dom[d].obs = Observed(d, Current)
               /\ fwd \subseteq Forwarded(Current)

\* Between two Applies Caddy runs, serves what lastHash says and would load the same
\* again, unless one of the six causes came after the last Apply that wrote the file:
\* Bootstrap's write, alone or beside Apply's, a handler's Reload with an older text, a
\* call that failed, a Caddy that exited, a reload that failed unnoticed.  Nothing else
\* that happens in between gets them out of step: no table change, no handler, pass or
\* Reload with the staged text, no restart of Caddy.  And no cause outlives the next
\* Apply that has something to load (Apply, Reload, Bootstrap).
InSync ==
    (pc["apply"] \in {"idle", "domains", "bindings", "services"} /\ off = {} /\ lastHash # NoHash)
      => /\ caddy = [state |-> "running", cfg |-> lastHash]
         /\ (IF Containerized THEN inner ELSE file) = lastHash
=============================================================================
