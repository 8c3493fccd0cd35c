--------------------------- MODULE TemplateConfig ---------------------------
(***************************************************************************)
(* The configuration of one template instance and its round trip: the      *)
(* form values a user sends with a manifest (internal/sync over the signed *)
(* path, cmd/obachtctl over IPC), the keep-sentinel that stands for a      *)
(* secret on the wire, the materialisation of manifest and values into the *)
(* stored row (internal/manifest), the echo of the row to the backend that *)
(* prefills the next form, and what the runtime driver makes of the row.   *)
(*                                                                         *)
(* A text is an opaque value; those in the domain of RefOf consist of one  *)
(* placeholder ${cfg.k}.  A manifest is reduced to what decides here: its  *)
(* fields are the keys their placeholders name.  Its signature has been    *)
(* verified: a request whose manifest fails has no effect.                 *)
(***************************************************************************)
EXTENDS Naturals

CONSTANTS
    Key,         \* keys of the form
    LooksSecret, \* those redact.IsSecretKey takes for a secret by their name
    Text,        \* values of a form field
    RefOf,       \* [texts that are a placeholder -> the key they name]
    Control,     \* texts with a line break or a NUL
    Keep,        \* SecretKeepSentinel
    Absent,      \* no entry in the map
    Template,    \* manifests
    Handler,     \* requests being handled at the same time
    Signed,      \* those that come as signed mutations; the others: obachtctl
    MaxEvents    \* bound: requests, switches and failed reads

\* [runtime, fields used, keys that may not be empty, secret keys, defaults,
\*  minSudoLevel = power]
TemplateType == [runtime : {"container", "compose", "system"},
                 uses : SUBSET Key, needs : SUBSET Key, secret : SUBSET Key,
                 default : [Key -> Text \union {Absent}], power : BOOLEAN]

ASSUME TemplateConfigAssumption ==
    /\ LooksSecret \subseteq Key
    /\ "" \in Text /\ Keep \in Text /\ Absent \notin Text /\ Keep # ""
    /\ RefOf \in [DOMAIN RefOf -> Key] /\ DOMAIN RefOf \subseteq Text \ {"", Keep}
    /\ Signed \subseteq Handler
    /\ Control \subseteq Text \ {"", Keep}
    /\ Template \subseteq TemplateType
    /\ \A t \in Template : \A k \in Key : t.default[k] # Keep
    /\ Template # {} /\ MaxEvents \in Nat

VARIABLES
    row,    \* the row of the table instances
    form,   \* what the backend holds and the webapp prefills
    req,    \* the requests being handled
    power,  \* the setting power_mode
    app,    \* what the driver last started
    user,   \* history: the value last asked for, key by key, in the order the
            \* requests were answered, whatever became of it in the row
    lost,   \* history: keys whose value a stale write or a failed read took
    left    \* what is left of the bound

vars == <<row, form, req, power, app, user, lost, left>>

Map == [Key -> Text \union {Absent}]
Blank == [k \in Key |-> Absent]
Typed == {x \in Text : x # Keep}

\* config_json: the input, the list of secret keys (marked: the list is there)
\* and, as spec, the runtime's own part.  Two fields are history: raw, the row
\* was written without a manifest, and declared, what the manifest it was written
\* with declares secret.
Row == [there : BOOLEAN, desired : {"installed", "stopped", "removed"},
        runtime : {"container", "compose", "system"}, uses : SUBSET Key,
        input : Map, marked : BOOLEAN, secret : SUBSET Key, spec : Map,
        raw : BOOLEAN, declared : SUBSET Key]
NoRow == [there |-> FALSE, desired |-> "removed", runtime |-> "container",
          uses |-> {}, input |-> Blank, marked |-> FALSE, secret |-> {},
          spec |-> Blank, raw |-> FALSE, declared |-> {}]

\* torn: the row that was read is not the one that will be overwritten.
Request == [stage : {"idle", "asked", "resolved", "flip"},
            template : Template, cfg : Map,
            asked : Map, row : Row, torn : BOOLEAN,
            to : {"installed", "stopped", "removed"}]
Idle == [stage |-> "idle", template |-> CHOOSE t \in Template : TRUE,
         cfg |-> Blank, asked |-> Blank, row |-> NoRow, torn |-> FALSE,
         to |-> "removed"]

-----------------------------------------------------------------------------
(* internal/manifest, as functions of a manifest t and the form values c.  *)

\* A definition named X_Fault is X with a plausible bug; nothing else uses it.

ApplyConfigSchemaDefaults(t, c) ==
    [k \in Key |-> IF c[k] = Absent THEN t.default[k] ELSE c[k]]

\* One round of substituter.string over a text.
Substitute(c, x) ==
    IF x \in DOMAIN RefOf /\ c[RefOf[x]] # Absent THEN c[RefOf[x]] ELSE x

\* The substituter gives up after so many rounds.
Rounds == 5

\* The field of k: its own placeholder in the first round, then whatever the
\* values refer to in the others (the loop stops earlier when nothing changes).
SubstString(c, k) ==
    LET again(x) == Substitute(c, x) IN again(again(again(again(c[k]))))

Unresolved(x) == x = Absent \/ x \in DOMAIN RefOf

Only(ks, f) == [k \in Key |-> IF k \in ks THEN f[k] ELSE Absent]

\* A container's image, environment, volumes, labels and command.
MaterializeContainer(t, c) == Only(t.uses, [k \in Key |-> SubstString(c, k)])

\* The arguments, environment and files of a service.
MaterializeSystem(t, c) == Only(t.uses, [k \in Key |-> SubstString(c, k)])

\* A bundle takes all the values along, for the driver to fill in.
MaterializeCompose(c) == c

Materialize(t, c) ==
    CASE t.runtime = "container" -> MaterializeContainer(t, c)
      [] t.runtime = "system" -> MaterializeSystem(t, c)
      [] t.runtime = "compose" -> MaterializeCompose(c)

\* The errors of these functions: an empty image, primary service or the like,
\* and a control character in a value for a system template.
MaterializeFails(t, c) ==
    \/ \E k \in t.needs : Materialize(t, c)[k] = ""
    \/ t.runtime = "system" /\ \E k \in Key : c[k] \in Control

BuildFails_ComposeRule(t, c) == MaterializeFails(t, c)

\* ... and a placeholder without a value, which only compose may resolve later.
BuildFails(t, c) ==
    \/ MaterializeFails(t, c)
    \/ t.runtime # "compose" /\ \E k \in t.uses : Unresolved(Materialize(t, c)[k])

Built_NoDefaultState(t, c) ==
    [there |-> TRUE, desired |-> "", runtime |-> t.runtime,
     uses |-> t.uses, input |-> c, marked |-> TRUE, secret |-> t.secret,
     spec |-> Materialize(t, c), raw |-> FALSE, declared |-> t.secret]

\* The row BuildInstanceConfig writes for the completed values.
Built(t, c) ==
    [there |-> TRUE, desired |-> "installed", runtime |-> t.runtime,
     uses |-> t.uses, input |-> c, marked |-> TRUE, secret |-> t.secret,
     spec |-> Materialize(t, c), raw |-> FALSE, declared |-> t.secret]

Resolve_SecretFieldsOnly(t, c, stored) ==
    [k \in Key |-> IF c[k] # Keep \/ k \notin t.secret THEN c[k]
                   ELSE IF stored[k] \in {Absent, Keep} THEN "" ELSE stored[k]]

Resolve_ForgetsPlain(t, c, stored) ==
    [k \in Key |-> IF c[k] # Keep THEN c[k]
                   ELSE IF k \notin t.secret \/ stored[k] \in {Absent, Keep} THEN ""
                   ELSE stored[k]]

\* ResolveSecretSentinelsInput: any key, secret in the manifest or not.
Resolve(t, c, stored) ==
    [k \in Key |-> IF c[k] # Keep THEN c[k]
                   ELSE IF stored[k] \in {Absent, Keep} THEN "" ELSE stored[k]]

RedactedInputEcho_ByName(r) ==
    [k \in Key |-> IF k \in LooksSecret /\ r.input[k] \notin {Absent, ""}
                   THEN Keep ELSE r.input[k]]

\* What leaves the device: the list decides where there is one, the name of the
\* key elsewhere.
RedactedInputEcho(r) ==
    LET hidden == IF r.marked THEN r.secret ELSE LooksSecret IN
    [k \in Key |-> IF k \in hidden /\ r.input[k] \notin {Absent, ""}
                   THEN Keep ELSE r.input[k]]

-----------------------------------------------------------------------------
(* A device without the instance, or with one an older agent installed,    *)
(* which kept no list of the secret keys.                                  *)

Init ==
    /\ \/ row = NoRow /\ user = Blank
       \/ \E t \in Template, c \in [Key -> Typed \ Control] :
            /\ ~BuildFails(t, c)
            /\ row = [Built(t, c) EXCEPT !.desired = "installed", !.marked = FALSE,
                                        !.secret = {}]
            /\ user = c
    /\ form = Blank /\ lost = {}
    /\ req = [h \in Handler |-> Idle]
    /\ power \in BOOLEAN
    /\ app = [on |-> FALSE, uses |-> {}, env |-> Blank, meant |-> Blank,
              raw |-> FALSE]
    /\ left = MaxEvents

Event == left > 0 /\ left' = left - 1

\* The other requests, after the row was written under them.
Overtaken ==
    [h \in Handler |->
       [req[h] EXCEPT !.torn = @ \/ req[h].stage \in {"resolved", "flip"}]]

-----------------------------------------------------------------------------
(* Reconfiguring.                                                          *)

\* The webapp sends the form it was prefilled with, one field filled in anew.
Ask(h) ==
    /\ req[h].stage = "idle" /\ Event
    /\ \E t \in Template, k \in Key, x \in Typed :
         req' = [req EXCEPT ![h] =
                   [Idle EXCEPT !.stage = "asked", !.template = t,
                                !.cfg = [form EXCEPT ![k] = x],
                                !.asked = [form EXCEPT ![k] = x]]]
    /\ UNCHANGED <<row, form, power, app, user, lost>>

HasSecretSentinel(c) == \E k \in Key : c[k] = Keep

\* The error returns: Power Mode is locked, or obachtctl has sentinels to
\* resolve and no row to resolve them from.
Refused(h, r) ==
    \/ r.template.power /\ ~power
    \/ h \notin Signed /\ HasSecretSentinel(r.cfg) /\ ~row.there

\* What the handler goes on with.  unread: the store failed to read the row;
\* the signed path takes that for a row that is not there, obachtctl gives up.
Stored(unread) == IF unread THEN NoRow ELSE row

ResolveSecretSentinels(h) ==
    LET r == req[h] IN
    /\ r.stage = "asked"
    /\ \/ /\ \/ Refused(h, r) /\ UNCHANGED left
             \/ h \notin Signed /\ HasSecretSentinel(r.cfg) /\ Event
          /\ req' = [req EXCEPT ![h] = Idle]
       \/ \E unread \in BOOLEAN :
            /\ ~Refused(h, r)
            /\ IF unread THEN Event /\ h \in Signed ELSE UNCHANGED left
            /\ req' = [req EXCEPT ![h].stage = "resolved",
                         ![h].cfg = Resolve(r.template, r.cfg, Stored(unread).input),
                         ![h].torn = unread]
    /\ UNCHANGED <<row, form, power, app, user, lost>>

\* What the user asks for with a request: what was typed or defaulted and, for a
\* key that was to be kept, what was asked for before, if anything.
Wish(r) ==
    [k \in Key |-> IF r.asked[k] # Keep
                   THEN ApplyConfigSchemaDefaults(r.template, r.asked)[k]
                   ELSE IF user[k] \in {Absent, Keep} THEN "" ELSE user[k]]

\* BuildInstanceConfig and UpsertInstance.
Commit(h) ==
    LET r == req[h]
        c == ApplyConfigSchemaDefaults(r.template, r.cfg) IN
    /\ r.stage = "resolved"
    /\ IF BuildFails(r.template, c)
       THEN req' = [req EXCEPT ![h] = Idle] /\ UNCHANGED <<row, user, lost>>
       ELSE /\ row' = Built(r.template, c) /\ user' = Wish(r)
            /\ lost' = {k \in Key : r.asked[k] = Keep /\ (r.torn \/ k \in lost)}
            /\ req' = [Overtaken EXCEPT ![h] = Idle]
    /\ UNCHANGED <<form, power, app, left>>

\* A row written without a manifest: the configuration as it was handed over, with
\* or without an input of its own.
UpsertRaw ==
    /\ Event
    /\ \E t \in Template, x \in Text : \E c \in {Blank, [k \in Key |-> x]} :
         /\ row' = [NoRow EXCEPT !.there = TRUE, !.desired = "installed",
                      !.runtime = t.runtime, !.uses = t.uses, !.input = c,
                      !.spec = Only(t.uses, [k \in Key |-> x]), !.raw = TRUE]
         /\ user' = c
    /\ lost' = {} /\ req' = Overtaken
    /\ UNCHANGED <<form, power, app>>

-----------------------------------------------------------------------------
(* Start, stop and soft delete read the row and write all of it back.      *)

ReadRow(h) ==
    /\ req[h].stage = "idle" /\ row.there /\ Event
    /\ \E to \in {"installed", "stopped", "removed"} :
         /\ to # row.desired
         /\ req' = [req EXCEPT ![h] =
                      [Idle EXCEPT !.stage = "flip", !.row = row, !.to = to]]
    /\ UNCHANGED <<row, form, power, app, user, lost>>

WriteRow(h) ==
    /\ req[h].stage = "flip"
    /\ row' = [req[h].row EXCEPT !.desired = req[h].to]
    /\ lost' = IF req[h].torn THEN Key ELSE lost
    /\ req' = [Overtaken EXCEPT ![h] = Idle]
    /\ UNCHANGED <<form, power, app, user, left>>

\* The row goes, and with it what the user asked for.
Forget == row' = NoRow /\ user' = Blank /\ lost' = {} /\ req' = Overtaken

\* A hard delete.
DeleteInstance ==
    /\ row.there /\ Event
    /\ Forget
    /\ UNCHANGED <<form, power, app>>

\* unlock-power and lock-power, once their helper call is done.
SetSystemSetting ==
    /\ Event /\ power' = ~power
    /\ UNCHANGED <<row, form, req, app, user, lost>>

-----------------------------------------------------------------------------
(* The rest of the agent.                                                  *)

\* A row without input leaves the field out of the snapshot; what the backend
\* then keeps is its own affair.
PushObserved ==
    /\ IF row.there /\ row.input # Blank THEN form' = RedactedInputEcho(row)
       ELSE form' \in {form, Blank}
    /\ UNCHANGED <<row, req, power, app, user, lost, left>>

\* substituteCfg is one pass.
RenderBody(r) == Only(r.uses, r.spec)

\* The compose driver fails on a placeholder that is left.
Apply ==
    /\ row.there /\ row.desired = "installed"
    /\ row.runtime = "compose" => \A k \in row.uses : ~Unresolved(RenderBody(row)[k])
    /\ app' = [on |-> TRUE, uses |-> row.uses, env |-> RenderBody(row),
               meant |-> row.input, raw |-> row.raw]
    /\ UNCHANGED <<row, form, req, power, user, lost, left>>

\* A removed or stopped instance is taken down, and a removed one loses its row.
Teardown ==
    /\ row.desired # "installed" \/ ~row.there
    /\ app' = [app EXCEPT !.on = FALSE]
    /\ IF row.there /\ row.desired = "removed" THEN Forget
       ELSE UNCHANGED <<row, user, lost, req>>
    /\ UNCHANGED <<form, power, left>>

Next ==
    \/ \E h \in Handler :
         \/ Ask(h) \/ ResolveSecretSentinels(h) \/ Commit(h)
         \/ ReadRow(h) \/ WriteRow(h)
    \/ UpsertRaw \/ DeleteInstance \/ SetSystemSetting
    \/ PushObserved \/ Apply \/ Teardown

Spec == Init /\ [][Next]_vars

-----------------------------------------------------------------------------
(* Properties.                                                             *)

\* Types of the variables.
TypeOK ==
    /\ row \in Row
    /\ form \in Map
    /\ req \in [Handler -> Request]
    /\ power \in BOOLEAN
    /\ app \in [on : BOOLEAN, uses : SUBSET Key, env : Map, meant : Map, raw : BOOLEAN]
    /\ user \in Map /\ lost \subseteq Key
    /\ left \in 0..MaxEvents

\* The keep-sentinel is a word of the wire: whatever form the webapp sends back,
\* however old, and under whatever manifest, it neither is stored as the value
\* of a field nor reaches a program.  Only a row written without a manifest, which
\* is stored as it was handed over, may hold the word, and its values do not
\* survive as such in a row that is built from it.
SentinelStaysOut ==
    /\ ~row.raw => \A k \in Key : Keep \notin {row.input[k], row.spec[k]}
    /\ ~app.raw => \A k \in Key : app.env[k] # Keep

\* "Keep the value stored on this device" means the value that was last asked for:
\* through any number of round trips of the sentinel, changes of the manifest and
\* old forms the row holds what the requests asked for in the order they were
\* answered.  It fails for the keys of lost, in two ways: another request wrote
\* the row between this one's read and its write, and is undone; or the read
\* failed on the signed path, and the values to be kept were taken for unset.
KeepMeansKeep == row.there => \A k \in Key \ lost : row.input[k] = user[k]

\* The snapshot never carries the value of a field that the manifest of the row
\* declares secret, whatever the sentinel was resolved to since; except, in a row
\* of an older agent, of a field whose key does not look secret.
SecretsHidden ==
    [][form' # form =>
         \A k \in row.declared : row.marked \/ k \in LooksSecret
                                   => form'[k] \in {Absent, "", Keep}]_vars

\* A chain of references in the values c from the field k to the text x.
Denotes(c, k, x) ==
    \E n \in 0..(Rounds - 1) : \E walk \in [0..n -> Key] :
        /\ walk[0] = k
        /\ \A i \in 0..n : i < n => /\ c[walk[i]] \in DOMAIN RefOf
                                    /\ RefOf[c[walk[i]]] = walk[i + 1]
        /\ c[walk[n]] = x /\ x \notin DOMAIN RefOf /\ x # Absent

\* A program of a manifest runs with the text that the stored values denote: each
\* of its fields holds the end of the chain of references that starts there.  A
\* cycle or a missing value never gets so far.
AppDenotes ==
    app.on /\ ~app.raw => \A k \in app.uses : Denotes(app.meant, k, app.env[k])

=============================================================================
