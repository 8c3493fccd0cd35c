------------------------ MODULE TemplateConfigProofs ------------------------
(* Proofs about TemplateConfig, for any keys, texts, manifests, handlers and *)
(* number of events.                                                         *)
EXTENDS TemplateConfig, TLAPS

-----------------------------------------------------------------------------
(* What the operators of internal/manifest return.                         *)

\* The parts of a manifest.
LEMMA TemplateParts ==
    ASSUME NEW t \in Template
    PROVE  /\ t.runtime \in {"container", "compose", "system"}
           /\ t.uses \in SUBSET Key /\ t.needs \in SUBSET Key
           /\ t.secret \in SUBSET Key /\ t.default \in Map
           /\ \A k \in Key : t.default[k] # Keep
BY TemplateConfigAssumption DEF TemplateType, Map

\* Absent is no text, and neither it nor the empty text is the sentinel.
LEMMA Constants == Absent # "" /\ Absent # Keep /\ Keep # "" /\ "" \in Text
BY TemplateConfigAssumption

\* Completed values are values.
LEMMA DefaultsType ==
    ASSUME NEW t \in Template, NEW c \in Map
    PROVE  ApplyConfigSchemaDefaults(t, c) \in Map
BY TemplateParts DEF ApplyConfigSchemaDefaults, Map

\* A round of substitution returns a value.
LEMMA SubstituteType ==
    ASSUME NEW c \in Map, NEW x \in Text \union {Absent}
    PROVE  Substitute(c, x) \in Text \union {Absent}
BY TemplateConfigAssumption DEF Substitute, Map

\* ... other than the sentinel when there is none to begin with.
LEMMA SubstituteKeep ==
    ASSUME NEW c \in Map, NEW x, x # Keep, \A k \in Key : c[k] # Keep
    PROVE  Substitute(c, x) # Keep
BY TemplateConfigAssumption DEF Substitute

\* So does the substituter.
LEMMA SubstStringType ==
    ASSUME NEW c \in Map, NEW k \in Key
    PROVE  SubstString(c, k) \in Text \union {Absent}
<1>1. c[k] \in Text \union {Absent}
  BY DEF Map
<1> QED BY <1>1, SubstituteType DEF SubstString

\* It does not make a sentinel.
LEMMA SubstStringKeep ==
    ASSUME NEW c \in Map, NEW k \in Key, \A l \in Key : c[l] # Keep
    PROVE  SubstString(c, k) # Keep
BY SubstituteKeep DEF SubstString

\* The materialised part of a row.
LEMMA MaterializeType ==
    ASSUME NEW t \in Template, NEW c \in Map
    PROVE  /\ Materialize(t, c) \in Map
           /\ t.runtime = "compose" => Materialize(t, c) = c
           /\ t.runtime # "compose" =>
                \A k \in Key : Materialize(t, c)[k] =
                    IF k \in t.uses THEN SubstString(c, k) ELSE Absent
<1>1. Only(t.uses, [k \in Key |-> SubstString(c, k)]) \in Map
  BY SubstStringType DEF Only, Map
<1>2. CASE t.runtime = "compose"
  BY <1>2 DEF Materialize, MaterializeCompose
<1>3. CASE t.runtime \in {"container", "system"}
  <2>1. Materialize(t, c) = Only(t.uses, [k \in Key |-> SubstString(c, k)])
    BY <1>3 DEF Materialize, MaterializeContainer, MaterializeSystem
  <2> QED BY <1>1, <1>3, <2>1 DEF Only
<1> QED BY <1>2, <1>3, TemplateParts

\* ... has no sentinel.
LEMMA MaterializeKeep ==
    ASSUME NEW t \in Template, NEW c \in Map, \A l \in Key : c[l] # Keep,
           NEW k \in Key
    PROVE  Materialize(t, c)[k] # Keep
BY MaterializeType, SubstStringKeep, Constants

\* The row that is written is a row.
LEMMA BuiltType ==
    ASSUME NEW t \in Template, NEW c \in Map
    PROVE  Built(t, c) \in Row
BY MaterializeType, TemplateParts DEF Built, Row

\* Resolved values are values.
LEMMA ResolveType ==
    ASSUME NEW t, NEW c \in Map, NEW stored \in Map
    PROVE  /\ Resolve(t, c, stored) \in Map
           /\ \A k \in Key : Resolve(t, c, stored)[k] # Keep
BY Constants DEF Resolve, Map

\* So is the echo.
LEMMA EchoType ==
    ASSUME NEW r \in Row PROVE RedactedInputEcho(r) \in Map
<1>1. r.input \in Map
  BY DEF Row
<1> QED BY <1>1, TemplateConfigAssumption DEF RedactedInputEcho, Map

\* The empty values.
LEMMA BlankType ==
    /\ Blank \in Map /\ NoRow \in Row /\ Idle \in Request
    /\ \A k \in Key : Blank[k] = Absent
<1>1. Blank \in Map /\ \A k \in Key : Blank[k] = Absent
  BY DEF Blank, Map
<1>2. NoRow \in Row
  BY <1>1 DEF NoRow, Row
<1>3. (CHOOSE t \in Template : TRUE) \in Template
  BY TemplateConfigAssumption
<1> QED BY <1>1, <1>2, <1>3 DEF Idle, Request

\* A map restricted to some keys.
LEMMA OnlyType ==
    ASSUME NEW ks, NEW f \in Map
    PROVE  /\ Only(ks, f) \in Map
           /\ \A k \in Key : Only(ks, f)[k] = IF k \in ks THEN f[k] ELSE Absent
BY DEF Only, Map

\* The requests after the row was written under them.
LEMMA OvertakenType ==
    ASSUME TypeOK
    PROVE  /\ Overtaken \in [Handler -> Request]
           /\ \A h \in Handler :
                /\ Overtaken[h].stage = req[h].stage /\ Overtaken[h].cfg = req[h].cfg
                /\ Overtaken[h].asked = req[h].asked /\ Overtaken[h].row = req[h].row
                /\ req[h].stage \in {"resolved", "flip"} => Overtaken[h].torn
<1> SUFFICES ASSUME NEW h \in Handler
             PROVE  /\ Overtaken[h] \in Request
                    /\ Overtaken[h].stage = req[h].stage
                    /\ Overtaken[h].cfg = req[h].cfg
                    /\ Overtaken[h].asked = req[h].asked
                    /\ Overtaken[h].row = req[h].row
                    /\ req[h].stage \in {"resolved", "flip"} => Overtaken[h].torn
  BY DEF Overtaken
<1>1. req[h] \in Request
  BY DEF TypeOK
<1> DEFINE new == req[h].torn \/ req[h].stage \in {"resolved", "flip"}
<1>2. new \in BOOLEAN /\ (req[h].stage \in {"resolved", "flip"} => new)
  BY Zenon
<1>3. Overtaken[h] = [req[h] EXCEPT !.torn = new]
  BY DEF Overtaken
<1> HIDE DEF new
<1> QED BY <1>1, <1>2, <1>3 DEF Request

-----------------------------------------------------------------------------
(* Type correctness.                                                       *)

\* An event uses up the bound.
LEMMA EventType == ASSUME TypeOK, Event PROVE left' \in 0..MaxEvents
<1>1. left \in 0..MaxEvents /\ left > 0 /\ left' = left - 1
  BY Zenon DEF TypeOK, Event
<1>2. MaxEvents \in Nat
  BY TemplateConfigAssumption, Zenon
<1> QED BY <1>1, <1>2

\* A device that starts is well typed.
LEMMA InitType == Init => TypeOK
<1> SUFFICES ASSUME Init PROVE TypeOK OBVIOUS
<1>1. row \in Row /\ user \in Map
  <2>1. CASE row = NoRow /\ user = Blank
    BY <2>1, BlankType
  <2>2. ASSUME NEW t \in Template, NEW c \in [Key -> Typed \ Control],
               row = [Built(t, c) EXCEPT !.desired = "installed", !.marked = FALSE,
                                         !.secret = {}],
               user = c
        PROVE  row \in Row /\ user \in Map
    <3>1. c \in Map
      BY DEF Typed, Map
    <3>2. Built(t, c) \in Row
      BY <3>1, BuiltType
    <3>3. row \in Row
      BY <2>2, <3>2 DEF Row
    <3> QED BY <2>2, <3>1, <3>3
  <2> QED BY <2>1, <2>2 DEF Init
<1>2. form \in Map /\ lost \subseteq Key /\ req \in [Handler -> Request]
  BY BlankType DEF Init
<1>3. app \in [on : BOOLEAN, uses : SUBSET Key, env : Map, meant : Map, raw : BOOLEAN]
  BY BlankType DEF Init
<1>4. power \in BOOLEAN /\ left \in 0..MaxEvents
  <2>1. left = MaxEvents /\ power \in BOOLEAN
    BY Zenon DEF Init
  <2>2. MaxEvents \in Nat
    BY TemplateConfigAssumption, Zenon
  <2> QED BY <2>1, <2>2
<1> QED BY <1>1, <1>2, <1>3, <1>4 DEF TypeOK

\* A handler's step.
LEMMA HandlerType ==
    ASSUME TypeOK, NEW h \in Handler,
           Ask(h) \/ ResolveSecretSentinels(h) \/ Commit(h) \/ ReadRow(h) \/ WriteRow(h)
    PROVE  TypeOK'
<1>0. req[h] \in Request /\ Idle \in Request /\ row \in Row /\ user \in Map
  BY BlankType DEF TypeOK
<1>1. CASE Ask(h)
  <2>1. PICK t \in Template, k \in Key, x \in Typed :
          req' = [req EXCEPT ![h] =
                    [Idle EXCEPT !.stage = "asked", !.template = t,
                                 !.cfg = [form EXCEPT ![k] = x],
                                 !.asked = [form EXCEPT ![k] = x]]]
    BY <1>1 DEF Ask
  <2>2. [form EXCEPT ![k] = x] \in Map
    BY DEF Map, Typed, TypeOK
  <2>3. [Idle EXCEPT !.stage = "asked", !.template = t,
                     !.cfg = [form EXCEPT ![k] = x],
                     !.asked = [form EXCEPT ![k] = x]] \in Request
    BY <1>0, <2>2 DEF Request
  <2>4. req' \in [Handler -> Request]
    BY <2>1, <2>3 DEF TypeOK
  <2> QED BY <1>1, <2>4, EventType DEF Ask, TypeOK
<1>2. CASE ResolveSecretSentinels(h)
  <2>1. CASE req' = [req EXCEPT ![h] = Idle] /\ (UNCHANGED left \/ Event)
    <3>1. req' \in [Handler -> Request]
      BY <1>0, <2>1 DEF TypeOK
    <3>2. left' \in 0..MaxEvents
      BY <2>1, EventType DEF TypeOK
    <3> QED BY <1>2, <3>1, <3>2 DEF ResolveSecretSentinels, TypeOK
  <2>2. ASSUME NEW unread \in BOOLEAN,
               IF unread THEN Event /\ h \in Signed ELSE UNCHANGED left,
               req' = [req EXCEPT ![h].stage = "resolved",
                         ![h].cfg = Resolve(req[h].template, req[h].cfg,
                                            Stored(unread).input),
                         ![h].torn = unread]
        PROVE  TypeOK'
    <3>1. Stored(unread).input \in Map /\ req[h].cfg \in Map
      BY <1>0, BlankType DEF Stored, Row, Request
    <3>2. Resolve(req[h].template, req[h].cfg, Stored(unread).input) \in Map
      BY <3>1, ResolveType
    <3>4. req' = [req EXCEPT ![h] =
             [req[h] EXCEPT !.stage = "resolved",
                !.cfg = Resolve(req[h].template, req[h].cfg, Stored(unread).input),
                !.torn = unread]]
      BY <2>2 DEF TypeOK
    <3>5. [req[h] EXCEPT !.stage = "resolved",
                !.cfg = Resolve(req[h].template, req[h].cfg, Stored(unread).input),
                !.torn = unread] \in Request
      BY <1>0, <3>2 DEF Request
    <3>6. req' \in [Handler -> Request]
      BY <3>4, <3>5 DEF TypeOK
    <3>7. left' \in 0..MaxEvents
      BY <2>2, EventType DEF TypeOK
    <3> QED BY <1>2, <3>6, <3>7 DEF ResolveSecretSentinels, TypeOK
  <2> QED BY <1>2, <2>1, <2>2 DEF ResolveSecretSentinels
<1>3. CASE Commit(h)
  <2>1. req' \in [Handler -> Request]
    BY <1>0, <1>3, OvertakenType DEF Commit, TypeOK
  <2>2. row' \in Row
    <3>1. Built(req[h].template,
                ApplyConfigSchemaDefaults(req[h].template, req[h].cfg)) \in Row
      BY <1>0, BuiltType, DefaultsType DEF Request
    <3> QED BY <1>0, <1>3, <3>1 DEF Commit
  <2>3. user' \in Map
    <3>1. req[h].asked \in Map /\ req[h].template \in Template
      BY <1>0 DEF Request
    <3>2. ApplyConfigSchemaDefaults(req[h].template, req[h].asked) \in Map
      BY <3>1, DefaultsType
    <3>3. Wish(req[h]) \in Map
      BY <1>0, <3>1, <3>2, Constants DEF Wish, Map
    <3> QED BY <1>0, <1>3, <3>3 DEF Commit
  <2>4. lost' \subseteq Key
    BY <1>3 DEF Commit, TypeOK
  <2> QED BY <1>3, <2>1, <2>2, <2>3, <2>4 DEF Commit, TypeOK
<1>4. CASE ReadRow(h)
  <2>1. req' \in [Handler -> Request]
    <3>1. PICK to \in {"installed", "stopped", "removed"} :
            req' = [req EXCEPT ![h] = [Idle EXCEPT !.stage = "flip", !.row = row,
                                                   !.to = to]]
      BY <1>4 DEF ReadRow
    <3>2. [Idle EXCEPT !.stage = "flip", !.row = row, !.to = to] \in Request
      <4> HIDE DEF Row, Idle
      <4> QED BY <1>0 DEF Request
    <3> QED BY <3>1, <3>2 DEF TypeOK
  <2> QED BY <1>4, <2>1, EventType DEF ReadRow, TypeOK
<1>5. CASE WriteRow(h)
  <2>1. req' \in [Handler -> Request]
    BY <1>0, <1>5, OvertakenType DEF WriteRow
  <2>2. row' \in Row
    <3>1. req[h].row \in Row /\ req[h].to \in {"installed", "stopped", "removed"}
      BY <1>0 DEF Request
    <3>2. [req[h].row EXCEPT !.desired = req[h].to] \in Row
      BY <3>1 DEF Row
    <3> QED BY <1>5, <3>2 DEF WriteRow
  <2>3. lost' \subseteq Key
    BY <1>5 DEF WriteRow, TypeOK
  <2> QED BY <1>5, <2>1, <2>2, <2>3 DEF WriteRow, TypeOK
<1> QED BY <1>1, <1>2, <1>3, <1>4, <1>5

\* A step of anybody else.
LEMMA OtherType ==
    ASSUME TypeOK,
           \/ UpsertRaw \/ DeleteInstance \/ SetSystemSetting
           \/ PushObserved \/ Apply \/ Teardown
    PROVE  TypeOK'
<1>1. CASE UpsertRaw
  <2>1. row' \in Row /\ user' \in Map
    <3>0. PICK t \in Template, x \in Text :
            \E c \in {Blank, [k \in Key |-> x]} :
              /\ row' = [NoRow EXCEPT !.there = TRUE, !.desired = "installed",
                           !.runtime = t.runtime, !.uses = t.uses, !.input = c,
                           !.spec = Only(t.uses, [k \in Key |-> x]), !.raw = TRUE]
              /\ user' = c
      BY <1>1 DEF UpsertRaw
    <3>1. PICK c \in {Blank, [k \in Key |-> x]} :
            /\ row' = [NoRow EXCEPT !.there = TRUE, !.desired = "installed",
                         !.runtime = t.runtime, !.uses = t.uses, !.input = c,
                         !.spec = Only(t.uses, [k \in Key |-> x]), !.raw = TRUE]
            /\ user' = c
      BY <3>0
    <3>2. [k \in Key |-> x] \in Map /\ c \in Map
      BY BlankType DEF Map
    <3>3. Only(t.uses, [k \in Key |-> x]) \in Map
      BY <3>2, OnlyType
    <3>4. row' \in Row
      BY <3>1, <3>2, <3>3, BlankType, TemplateParts DEF Row
    <3> QED BY <3>1, <3>2, <3>4
  <2> QED BY <1>1, <2>1, OvertakenType, EventType DEF UpsertRaw, TypeOK
<1>2. CASE DeleteInstance
  BY <1>2, BlankType, OvertakenType, EventType DEF DeleteInstance, Forget, TypeOK
<1>3. CASE SetSystemSetting
  <2>1. power' \in BOOLEAN
    <3>1. power' = ~power
      BY <1>3 DEF SetSystemSetting
    <3> QED BY <3>1, Zenon
  <2> QED BY <1>3, <2>1, EventType DEF SetSystemSetting, TypeOK
<1>4. CASE PushObserved
  <2>1. form' \in Map
    BY <1>4, BlankType, EchoType DEF PushObserved, TypeOK
  <2> QED BY <1>4, <2>1 DEF PushObserved, TypeOK
<1>5. CASE Apply
  <2>1. /\ RenderBody(row) \in Map /\ row.input \in Map
        /\ row.uses \in SUBSET Key /\ row.raw \in BOOLEAN
    BY OnlyType DEF TypeOK, RenderBody, Row
  <2>2. app' \in [on : BOOLEAN, uses : SUBSET Key, env : Map, meant : Map, raw : BOOLEAN]
    BY <1>5, <2>1 DEF Apply
  <2> QED BY <1>5, <2>2 DEF Apply, TypeOK
<1>6. CASE Teardown
  <2>1. app' \in [on : BOOLEAN, uses : SUBSET Key, env : Map, meant : Map, raw : BOOLEAN]
    BY <1>6 DEF Teardown, TypeOK
  <2>2. /\ row' \in Row /\ user' \in Map /\ lost' \subseteq Key
        /\ req' \in [Handler -> Request]
    BY <1>6, BlankType, OvertakenType DEF Teardown, Forget, TypeOK
  <2> QED BY <1>6, <2>1, <2>2 DEF Teardown, TypeOK
<1> QED BY <1>1, <1>2, <1>3, <1>4, <1>5, <1>6

\* Every step keeps the types.
LEMMA TypeStep == ASSUME TypeOK, [Next]_vars PROVE TypeOK'
<1>1. CASE UNCHANGED vars BY <1>1 DEF TypeOK, vars
<1> QED BY <1>1, HandlerType, OtherType DEF Next

\* Rows, requests and what runs are well formed; in particular every row has a
\* desired state the loop knows.
THEOREM TypeCorrect == Spec => []TypeOK
<1>1. Init => TypeOK BY InitType
<1>2. TypeOK /\ [Next]_vars => TypeOK' BY TypeStep
<1> QED BY <1>1, <1>2, PTL DEF Spec
-----------------------------------------------------------------------------
(* The invariant: the row, what was asked for it, and what each request    *)
(* under way took along of the row.                                        *)

\* A row r as the agent writes it.
RowInv(r) ==
    /\ ~r.there => r = NoRow
    /\ r.marked => r.declared \subseteq r.secret
    /\ ~r.raw =>
         /\ \A k \in Key : r.input[k] # Keep /\ r.spec[k] # Keep
         /\ r.runtime # "compose" => \A k \in r.uses : ~Unresolved(r.spec[k])
         /\ \A k \in r.uses : r.spec[k] = IF r.runtime = "compose" THEN r.input[k]
                                           ELSE SubstString(r.input, k)

\* What a sentinel becomes where x is stored.
Kept(x) == IF x \in {Absent, Keep} THEN "" ELSE x

\* The values that are not lost are those that were asked for.
WishInv == \A k \in Key \ lost : row.input[k] = user[k]

\* A request r that is under way while w is the row.
ReqInv(r, w) ==
    /\ r.stage = "asked" => r.cfg = r.asked
    /\ r.stage = "resolved" =>
         \A k \in Key : /\ r.cfg[k] # Keep
                        /\ r.asked[k] # Keep => r.cfg[k] = r.asked[k]
                        /\ r.asked[k] = Keep /\ ~r.torn => r.cfg[k] = Kept(w.input[k])
    /\ r.stage = "flip" => /\ r.row.there /\ RowInv(r.row)
                           /\ ~r.torn => r.row = w

\* What runs.
AppInv ==
    /\ ~app.raw => \A k \in Key : app.env[k] # Keep
    /\ AppDenotes

ConfigInv ==
    /\ RowInv(row)
    /\ WishInv
    /\ \A h \in Handler : ReqInv(req[h], row)
    /\ AppInv

-----------------------------------------------------------------------------
(* What the substituter returns is the end of a chain of references.       *)

\* A chain of n references from the field k to the text x.
Chain(c, k, n, x) ==
    \E walk \in [0..n -> Key] :
        /\ walk[0] = k
        /\ \A i \in 0..n : i < n => /\ c[walk[i]] \in DOMAIN RefOf
                                    /\ RefOf[c[walk[i]]] = walk[i + 1]
        /\ c[walk[n]] = x

\* ... of at most m references.
Reaches(c, k, m, x) == \E n \in 0..m : Chain(c, k, n, x)

\* A chain can be made longer by the reference it ends in.
LEMMA ChainExtends ==
    ASSUME NEW c \in Map, NEW k \in Key, NEW n \in Nat, NEW x \in DOMAIN RefOf,
           Chain(c, k, n, x)
    PROVE  Chain(c, k, n + 1, c[RefOf[x]])
<1>1. PICK walk \in [0..n -> Key] :
        /\ walk[0] = k
        /\ \A i \in 0..n : i < n => /\ c[walk[i]] \in DOMAIN RefOf
                                    /\ RefOf[c[walk[i]]] = walk[i + 1]
        /\ c[walk[n]] = x
  BY DEF Chain
<1>2. RefOf[x] \in Key
  BY TemplateConfigAssumption
<1> DEFINE longer == [i \in 0..(n + 1) |-> IF i \in 0..n THEN walk[i] ELSE RefOf[x]]
<1>3. longer \in [0..(n + 1) -> Key]
  BY <1>2
<1>4. longer[0] = k /\ c[longer[n + 1]] = c[RefOf[x]]
  BY <1>1
<1>5. ASSUME NEW i \in 0..(n + 1), i < n + 1
      PROVE  c[longer[i]] \in DOMAIN RefOf /\ RefOf[c[longer[i]]] = longer[i + 1]
  <2>1. CASE i < n
    BY <1>1, <2>1
  <2>2. CASE i = n
    BY <1>1, <2>2
  <2> QED BY <1>5, <2>1, <2>2
<1> HIDE DEF longer
<1> QED BY <1>3, <1>4, <1>5 DEF Chain

\* A round of substitution follows at most one reference.
LEMMA RoundReaches ==
    ASSUME NEW c \in Map, NEW k \in Key, NEW m \in Nat, NEW x, Reaches(c, k, m, x)
    PROVE  Reaches(c, k, m + 1, Substitute(c, x))
<1>1. PICK n \in 0..m : Chain(c, k, n, x)
  BY DEF Reaches
<1>2. n \in 0..(m + 1) /\ n + 1 \in 0..(m + 1) /\ n \in Nat
  OBVIOUS
<1>3. CASE x \in DOMAIN RefOf /\ Substitute(c, x) = c[RefOf[x]]
  BY <1>1, <1>2, <1>3, ChainExtends DEF Reaches
<1>4. CASE Substitute(c, x) = x
  BY <1>1, <1>2, <1>4 DEF Reaches
<1> QED BY <1>3, <1>4 DEF Substitute

\* So what the substituter returns is what the values denote, once nothing is
\* left to be resolved.
LEMMA SubstStringDenotes ==
    ASSUME NEW c \in Map, NEW k \in Key, ~Unresolved(SubstString(c, k))
    PROVE  Denotes(c, k, SubstString(c, k))
<1> DEFINE again(x) == Substitute(c, x)
<1>0. Reaches(c, k, 0, c[k])
  <2> DEFINE here == [i \in 0..0 |-> k]
  <2>1. here \in [0..0 -> Key] /\ here[0] = k
    OBVIOUS
  <2> HIDE DEF here
  <2>2. Chain(c, k, 0, c[k])
    BY <2>1 DEF Chain
  <2> QED BY <2>2 DEF Reaches
<1>1. Reaches(c, k, 1, again(c[k]))
  BY <1>0, RoundReaches
<1>2. Reaches(c, k, 2, again(again(c[k])))
  BY <1>1, RoundReaches
<1>3. Reaches(c, k, 3, again(again(again(c[k]))))
  BY <1>2, RoundReaches
<1>4. Reaches(c, k, 4, again(again(again(again(c[k])))))
  BY <1>3, RoundReaches
<1>5. Reaches(c, k, Rounds - 1, SubstString(c, k))
  BY <1>4 DEF SubstString, Rounds
<1> HIDE DEF again
<1>6. PICK n \in 0..(Rounds - 1) : Chain(c, k, n, SubstString(c, k))
  BY <1>5 DEF Reaches
<1> QED BY <1>6 DEF Chain, Denotes, Unresolved

\* A text that is no reference denotes itself.
LEMMA TextDenotes ==
    ASSUME NEW c \in Map, NEW k \in Key, ~Unresolved(c[k])
    PROVE  Denotes(c, k, c[k])
<1> DEFINE here == [i \in 0..0 |-> k]
<1>1. here \in [0..0 -> Key] /\ here[0] = k
  OBVIOUS
<1>2. 0 \in 0..(Rounds - 1)
  BY DEF Rounds
<1> HIDE DEF here
<1>3. c[here[0]] = c[k] /\ c[k] \notin DOMAIN RefOf /\ c[k] # Absent
  BY <1>1 DEF Unresolved
<1>4. \A i \in 0..0 : ~(i < 0)
  OBVIOUS
<1> QED BY <1>1, <1>2, <1>3, <1>4 DEF Denotes

-----------------------------------------------------------------------------
(* The invariant is kept.                                                  *)

\* The row that is built for the completed values is well formed.
LEMMA BuiltInv ==
    ASSUME NEW t \in Template, NEW c \in Map, \A k \in Key : c[k] # Keep,
           ~BuildFails(t, c)
    PROVE  RowInv(Built(t, c))
<1> DEFINE r == Built(t, c)
<1>1. /\ r.there = TRUE /\ r.input = c /\ r.marked = TRUE /\ r.secret = t.secret
      /\ r.uses = t.uses /\ r.runtime = t.runtime /\ r.spec = Materialize(t, c)
      /\ r.declared = t.secret
  BY DEF Built
<1> HIDE DEF r
<1>2. \A k \in Key : r.input[k] # Keep /\ r.spec[k] # Keep
  BY <1>1, MaterializeKeep
<1>3. r.runtime # "compose" => \A k \in r.uses : ~Unresolved(r.spec[k])
  BY <1>1 DEF BuildFails
<1>4. \A k \in r.uses : r.spec[k] = IF r.runtime = "compose" THEN r.input[k]
                                    ELSE SubstString(r.input, k)
  <2>1. CASE t.runtime = "compose"
    BY <1>1, <2>1, MaterializeType
  <2>2. CASE t.runtime # "compose"
    <3>1. t.uses \subseteq Key
      BY TemplateParts
    <3>2. \A k \in t.uses : r.spec[k] = SubstString(c, k)
      <4> SUFFICES ASSUME NEW k \in t.uses PROVE Materialize(t, c)[k] = SubstString(c, k)
        BY <1>1
      <4>1. \A l \in Key : Materialize(t, c)[l] =
                IF l \in t.uses THEN SubstString(c, l) ELSE Absent
        BY <2>2, MaterializeType, Zenon
      <4> QED BY <3>1, <4>1
    <3> QED BY <1>1, <2>2, <3>2
  <2> QED BY <1>1, <2>1, <2>2
<1>5. RowInv(r)
  BY <1>1, <1>2, <1>3, <1>4 DEF RowInv
<1> QED BY <1>5 DEF r

\* No row.
LEMMA NoRowInv == RowInv(NoRow) /\ NoRow.input = Blank /\ NoRow.raw = FALSE
BY BlankType, Constants DEF RowInv, NoRow

\* A request that is not there.
LEMMA IdleInv == ASSUME NEW w PROVE ReqInv(Idle, w)
BY DEF ReqInv, Idle

\* A device that starts satisfies the invariant.
LEMMA InitInv == ASSUME Init PROVE ConfigInv
<1>1. RowInv(row) /\ row.input = user
  <2>1. CASE row = NoRow /\ user = Blank
    BY <2>1, NoRowInv
  <2>2. ASSUME NEW t \in Template, NEW c \in [Key -> Typed \ Control], ~BuildFails(t, c),
               row = [Built(t, c) EXCEPT !.desired = "installed", !.marked = FALSE,
                                         !.secret = {}],
               user = c
        PROVE  RowInv(row) /\ row.input = user
    <3>1. c \in Map /\ \A k \in Key : c[k] # Keep
      BY DEF Typed, Map
    <3>2. RowInv(Built(t, c))
      BY <2>2, <3>1, BuiltInv
    <3>3. /\ row.there = TRUE /\ row.input = c /\ row.marked = FALSE
          /\ row.uses = Built(t, c).uses /\ row.runtime = Built(t, c).runtime
          /\ row.spec = Built(t, c).spec /\ row.raw = Built(t, c).raw
          /\ row.input = Built(t, c).input
      BY <2>2 DEF Built
    <3>4. RowInv(row)
      BY <3>2, <3>3 DEF RowInv
    <3> QED BY <2>2, <3>3, <3>4
  <2> QED BY <2>1, <2>2 DEF Init
<1>2. \A h \in Handler : ReqInv(req[h], row)
  BY IdleInv DEF Init
<1>3. AppInv
  BY BlankType, Constants DEF Init, AppInv, AppDenotes
<1> QED BY <1>1, <1>2, <1>3 DEF ConfigInv, WishInv

\* One handler's request changes, and nothing else of what the invariant is about.
LEMMA RequestChanges ==
    ASSUME TypeOK, ConfigInv, NEW h \in Handler, NEW r, ReqInv(r, row),
           req' = [req EXCEPT ![h] = r], UNCHANGED <<row, user, lost, app>>
    PROVE  ConfigInv'
<1>1. \A g \in Handler : ReqInv(req'[g], row')
  BY DEF ConfigInv, TypeOK
<1>2. AppInv' /\ WishInv' /\ RowInv(row')
  BY DEF ConfigInv, AppInv, AppDenotes, WishInv
<1> QED BY <1>1, <1>2 DEF ConfigInv

\* A request that the row was written under knows nothing of the row any more.
LEMMA OvertakenInv ==
    ASSUME TypeOK, ConfigInv, NEW h \in Handler, NEW w
    PROVE  ReqInv(Overtaken[h], w)
<1>1. ReqInv(req[h], row)
  BY DEF ConfigInv
<1> QED BY <1>1, OvertakenType DEF ReqInv

\* The row is written, by a handler that is then done.
LEMMA RowChanges ==
    ASSUME TypeOK, ConfigInv, NEW h \in Handler,
           req' = [Overtaken EXCEPT ![h] = Idle], UNCHANGED app,
           RowInv(row'), WishInv'
    PROVE  ConfigInv'
<1>1. \A g \in Handler : ReqInv(req'[g], row')
  BY OvertakenInv, OvertakenType, IdleInv
<1>2. AppInv'
  BY DEF ConfigInv, AppInv, AppDenotes
<1> QED BY <1>1, <1>2 DEF ConfigInv

\* A handler's step keeps the invariant.
LEMMA HandlerInv ==
    ASSUME TypeOK, ConfigInv, NEW h \in Handler,
           Ask(h) \/ ResolveSecretSentinels(h) \/ Commit(h) \/ ReadRow(h) \/ WriteRow(h)
    PROVE  ConfigInv'
<1>0. /\ req[h] \in Request /\ row \in Row /\ user \in Map
      /\ ReqInv(req[h], row) /\ RowInv(row) /\ WishInv
  BY DEF TypeOK, ConfigInv
<1>1. CASE Ask(h)
  <2>1. PICK t \in Template, k \in Key, x \in Typed :
          req' = [req EXCEPT ![h] =
                    [Idle EXCEPT !.stage = "asked", !.template = t,
                                 !.cfg = [form EXCEPT ![k] = x],
                                 !.asked = [form EXCEPT ![k] = x]]]
    BY <1>1 DEF Ask
  <2> DEFINE r == [Idle EXCEPT !.stage = "asked", !.template = t,
                               !.cfg = [form EXCEPT ![k] = x],
                               !.asked = [form EXCEPT ![k] = x]]
  <2>2. r.stage = "asked" /\ r.cfg = r.asked
    BY DEF Idle
  <2>3. req' = [req EXCEPT ![h] = r]
    BY <2>1
  <2> HIDE DEF r
  <2>4. ReqInv(r, row)
    BY <2>2 DEF ReqInv
  <2>5. UNCHANGED <<row, user, lost, app>>
    BY <1>1 DEF Ask
  <2> QED BY <2>3, <2>4, <2>5, RequestChanges
<1>2. CASE ResolveSecretSentinels(h)
  <2>1. UNCHANGED <<row, user, lost, app>>
    BY <1>2 DEF ResolveSecretSentinels
  <2>3. CASE req' = [req EXCEPT ![h] = Idle]
    BY <2>1, <2>3, IdleInv, RequestChanges
  <2>4. ASSUME NEW unread \in BOOLEAN,
               req' = [req EXCEPT ![h].stage = "resolved",
                         ![h].cfg = Resolve(req[h].template, req[h].cfg,
                                            Stored(unread).input),
                         ![h].torn = unread]
        PROVE  ConfigInv'
    <3> DEFINE c == Resolve(req[h].template, req[h].cfg, Stored(unread).input)
               r == [req[h] EXCEPT !.stage = "resolved", !.cfg = c, !.torn = unread]
    <3>1. req' = [req EXCEPT ![h] = r]
      BY <2>4 DEF TypeOK
    <3>2. r.stage = "resolved" /\ r.cfg = c /\ r.torn = unread /\ r.asked = req[h].asked
      BY <1>0 DEF Request
    <3>3. req[h].cfg = req[h].asked /\ req[h].cfg \in Map
      BY <1>0, <1>2 DEF ReqInv, ResolveSecretSentinels, Request
    <3>4. Stored(unread).input \in Map
      BY <1>0, BlankType DEF Stored, Row
    <3>5. ~unread => Stored(unread).input = row.input
      BY DEF Stored
    <3>6. \A k \in Key : /\ req[h].asked[k] # Keep => c[k] = req[h].asked[k]
                         /\ req[h].asked[k] = Keep => c[k] = Kept(Stored(unread).input[k])
      BY <3>3, <3>4 DEF Resolve, Kept
    <3>7. \A k \in Key : c[k] # Keep
      BY <3>3, <3>4, ResolveType
    <3> HIDE DEF c, r
    <3>8. ReqInv(r, row)
      BY <3>2, <3>5, <3>6, <3>7 DEF ReqInv
    <3> QED BY <2>1, <3>1, <3>8, RequestChanges
  <2> QED BY <1>2, <2>3, <2>4 DEF ResolveSecretSentinels
<1>3. CASE Commit(h)
  <2> DEFINE t == req[h].template
             c == ApplyConfigSchemaDefaults(t, req[h].cfg)
  <2>1. UNCHANGED app
    BY <1>3 DEF Commit
  <2>2. CASE req' = [req EXCEPT ![h] = Idle] /\ UNCHANGED <<row, user, lost>>
    BY <2>1, <2>2, IdleInv, RequestChanges
  <2>3. CASE /\ ~BuildFails(t, c) /\ row' = Built(t, c) /\ user' = Wish(req[h])
             /\ lost' = {k \in Key : req[h].asked[k] = Keep /\ (req[h].torn \/ k \in lost)}
             /\ req' = [Overtaken EXCEPT ![h] = Idle]
    <3>1. t \in Template /\ req[h].cfg \in Map /\ req[h].asked \in Map
      BY <1>0 DEF Request
    <3>2. c \in Map
      BY <3>1, DefaultsType
    <3>3. \A k \in Key :
            /\ req[h].cfg[k] # Keep
            /\ req[h].asked[k] # Keep => req[h].cfg[k] = req[h].asked[k]
            /\ req[h].asked[k] = Keep /\ ~req[h].torn => req[h].cfg[k] = Kept(row.input[k])
      BY <1>0, <1>3 DEF Commit, ReqInv
    <3>4. \A k \in Key : c[k] # Keep
      BY <3>1, <3>3, TemplateParts DEF ApplyConfigSchemaDefaults
    <3>5. ASSUME NEW k \in Key \ lost' PROVE Wish(req[h])[k] = c[k]
      <4>1. CASE req[h].asked[k] # Keep
        BY <3>3, <4>1 DEF Wish, ApplyConfigSchemaDefaults
      <4>2. CASE req[h].asked[k] = Keep
        <5>1. ~req[h].torn /\ k \notin lost
          BY <2>3, <3>5, <4>2
        <5>2. req[h].cfg[k] = Kept(user[k])
          BY <1>0, <3>3, <4>2, <5>1 DEF WishInv
        <5>3. Kept(user[k]) # Absent
          BY Constants DEF Kept
        <5>4. c[k] = Kept(user[k])
          BY <5>2, <5>3 DEF ApplyConfigSchemaDefaults
        <5>5. Wish(req[h])[k] = Kept(user[k])
          BY <4>2 DEF Wish, Kept
        <5> QED BY <5>4, <5>5
      <4> QED BY <4>1, <4>2
    <3> HIDE DEF c, t
    <3>6. row'.input = c
      BY <2>3 DEF Built
    <3>7. WishInv'
      BY <2>3, <3>5, <3>6 DEF WishInv
    <3>8. RowInv(row')
      BY <2>3, <3>1, <3>2, <3>4, BuiltInv
    <3> QED BY <2>1, <2>3, <3>7, <3>8, RowChanges
  <2> QED BY <1>3, <2>2, <2>3 DEF Commit
<1>4. CASE ReadRow(h)
  <2>1. PICK to \in {"installed", "stopped", "removed"} :
          req' = [req EXCEPT ![h] = [Idle EXCEPT !.stage = "flip", !.row = row,
                                                 !.to = to]]
    BY <1>4 DEF ReadRow
  <2> DEFINE r == [Idle EXCEPT !.stage = "flip", !.row = row, !.to = to]
  <2>2. r.stage = "flip" /\ r.row = row
    BY DEF Idle
  <2>3. req' = [req EXCEPT ![h] = r]
    BY <2>1
  <2> HIDE DEF r
  <2>4. ReqInv(r, row)
    BY <1>0, <1>4, <2>2 DEF ReqInv, ReadRow
  <2>5. UNCHANGED <<row, user, lost, app>>
    BY <1>4 DEF ReadRow
  <2> QED BY <2>3, <2>4, <2>5, RequestChanges
<1>5. CASE WriteRow(h)
  <2>1. /\ req[h].row.there /\ RowInv(req[h].row) /\ req[h].row \in Row
        /\ ~req[h].torn => req[h].row = row
    BY <1>0, <1>5 DEF WriteRow, ReqInv, Request
  <2>2. /\ row' = [req[h].row EXCEPT !.desired = req[h].to] /\ UNCHANGED user
        /\ lost' = IF req[h].torn THEN Key ELSE lost
    BY <1>5 DEF WriteRow
  <2>3. /\ row'.there = req[h].row.there /\ row'.input = req[h].row.input
        /\ row'.marked = req[h].row.marked /\ row'.secret = req[h].row.secret
        /\ row'.uses = req[h].row.uses /\ row'.runtime = req[h].row.runtime
        /\ row'.spec = req[h].row.spec /\ row'.raw = req[h].row.raw
        /\ row'.declared = req[h].row.declared
    BY <2>1, <2>2 DEF Row
  <2>4. RowInv(row')
    BY <2>1, <2>3 DEF RowInv
  <2>5. WishInv'
    BY <1>0, <2>1, <2>2, <2>3 DEF WishInv
  <2>6. req' = [Overtaken EXCEPT ![h] = Idle] /\ UNCHANGED app
    BY <1>5 DEF WriteRow
  <2> QED BY <2>4, <2>5, <2>6, RowChanges
<1> QED BY <1>1, <1>2, <1>3, <1>4, <1>5

\* What the driver starts has the values the row denotes, and no sentinel.
LEMMA ApplyInv == ASSUME TypeOK, RowInv(row), Apply PROVE AppInv'
<1> DEFINE env == RenderBody(row)
<1>1. row.input \in Map /\ row.spec \in Map /\ row.uses \in SUBSET Key
  BY DEF TypeOK, Row
<1>2. env \in Map /\ \A k \in Key : env[k] = IF k \in row.uses THEN row.spec[k] ELSE Absent
  BY <1>1, OnlyType DEF RenderBody
<1>3. /\ app'.env = env /\ app'.uses = row.uses
      /\ app'.meant = row.input /\ app'.raw = row.raw
  BY DEF Apply
<1>4. ~row.raw => \A k \in row.uses : ~Unresolved(env[k])
  BY <1>1, <1>2 DEF Apply, RowInv
<1> HIDE DEF env
<1>5. ~app'.raw => \A k \in Key : app'.env[k] # Keep
  BY <1>2, <1>3, Constants DEF RowInv
<1>6. ASSUME ~row.raw, NEW k \in app'.uses PROVE Denotes(app'.meant, k, app'.env[k])
  <2>0. k \in Key /\ k \in row.uses /\ env[k] = row.spec[k] /\ ~Unresolved(env[k])
    BY <1>1, <1>2, <1>3, <1>4, <1>6
  <2>1. CASE row.runtime = "compose"
    <3>1. env[k] = row.input[k]
      BY <1>6, <2>0, <2>1 DEF RowInv
    <3> QED BY <1>1, <1>3, <2>0, <3>1, TextDenotes
  <2>2. CASE row.runtime # "compose"
    <3>1. env[k] = SubstString(row.input, k)
      BY <1>6, <2>0, <2>2 DEF RowInv
    <3> QED BY <1>1, <1>3, <2>0, <3>1, SubstStringDenotes
  <2> QED BY <2>1, <2>2
<1> QED BY <1>3, <1>5, <1>6 DEF AppInv, AppDenotes

\* A step of anybody else keeps the invariant.
LEMMA OtherInv ==
    ASSUME TypeOK, ConfigInv,
           \/ UpsertRaw \/ DeleteInstance \/ SetSystemSetting
           \/ PushObserved \/ Apply \/ Teardown
    PROVE  ConfigInv'
<1>0. RowInv(row) /\ WishInv /\ AppInv
  BY DEF ConfigInv
<1>1. /\ RowInv(row') /\ WishInv'
      /\ \A h \in Handler : ReqInv(req'[h], row')
  <2>1. CASE UNCHANGED <<row, user, lost, req>>
    BY <1>0, <2>1 DEF ConfigInv, WishInv
  <2>2. CASE Forget
    BY <2>2, NoRowInv, OvertakenInv DEF Forget, WishInv
  <2>3. CASE UpsertRaw
    <3>0. PICK t \in Template, x \in Text :
            \E c \in {Blank, [k \in Key |-> x]} :
              /\ row' = [NoRow EXCEPT !.there = TRUE, !.desired = "installed",
                           !.runtime = t.runtime, !.uses = t.uses, !.input = c,
                           !.spec = Only(t.uses, [k \in Key |-> x]), !.raw = TRUE]
              /\ user' = c
      BY <2>3 DEF UpsertRaw
    <3>1. PICK c \in {Blank, [k \in Key |-> x]} :
            /\ row' = [NoRow EXCEPT !.there = TRUE, !.desired = "installed",
                         !.runtime = t.runtime, !.uses = t.uses, !.input = c,
                         !.spec = Only(t.uses, [k \in Key |-> x]), !.raw = TRUE]
            /\ user' = c
      BY <3>0
    <3>2. /\ row'.there = TRUE /\ row'.raw = TRUE /\ row'.marked = FALSE
          /\ row'.input = user'
      BY <3>1 DEF NoRow
    <3>3. RowInv(row') /\ WishInv'
      BY <3>2 DEF RowInv, WishInv
    <3> QED BY <2>3, <3>3, OvertakenInv DEF UpsertRaw
  <2> QED BY <2>1, <2>2, <2>3
          DEF DeleteInstance, SetSystemSetting, PushObserved, Apply, Teardown
<1>2. AppInv'
  <2>1. CASE UNCHANGED app
    BY <1>0, <2>1 DEF AppInv, AppDenotes
  <2>2. CASE Apply
    BY <1>0, <2>2, ApplyInv
  <2>3. CASE app' = [app EXCEPT !.on = FALSE]
    BY <1>0, <2>3 DEF AppInv, AppDenotes, TypeOK
  <2> QED BY <2>1, <2>2, <2>3
          DEF UpsertRaw, DeleteInstance, SetSystemSetting, PushObserved, Teardown
<1> QED BY <1>1, <1>2 DEF ConfigInv

\* Every step keeps the invariant.
LEMMA ConfigStep == ASSUME TypeOK, ConfigInv, [Next]_vars PROVE ConfigInv'
<1>1. CASE UNCHANGED vars
  <2>1. UNCHANGED <<row, user, lost, req, app>>
    BY <1>1 DEF vars
  <2>2. /\ RowInv(row') /\ WishInv' /\ AppInv'
        /\ \A h \in Handler : ReqInv(req'[h], row')
    BY <2>1 DEF ConfigInv, WishInv, AppInv, AppDenotes
  <2> QED BY <2>2 DEF ConfigInv
<1> QED BY <1>1, HandlerInv, OtherInv DEF Next

\* The invariant holds of every behaviour.
LEMMA ConfigHolds == Spec => []ConfigInv
<1>1. Init => ConfigInv BY InitInv
<1>2. TypeOK /\ ConfigInv /\ [Next]_vars => ConfigInv' BY ConfigStep
<1> QED BY <1>1, <1>2, TypeCorrect, PTL DEF Spec

-----------------------------------------------------------------------------
(* The properties.                                                         *)

\* ResolveSecretSentinelsInput and the completed values keep the sentinel out
\* of config_json and out of what the drivers start, for any manifests and any
\* forms sent back at any time, of every row that a manifest was materialised for.
THEOREM SentinelNeverStored == Spec => []SentinelStaysOut
<1>1. ConfigInv => SentinelStaysOut
  BY DEF ConfigInv, RowInv, AppInv, SentinelStaysOut
<1> QED BY <1>1, ConfigHolds, PTL

\* A stored value is what was last asked for under its key, through any number of
\* round trips of the sentinel and of concurrent requests, as long as neither a
\* write of a stale row nor a failed read on the signed path has taken it.
THEOREM KeptIsKept == Spec => []KeepMeansKeep
<1>1. ConfigInv => KeepMeansKeep
  BY DEF ConfigInv, WishInv, KeepMeansKeep
<1> QED BY <1>1, ConfigHolds, PTL

\* RedactedInputEcho sends no value of a field declared secret, but for one with an
\* innocent name in a row that an older agent wrote.
THEOREM SecretsStayHome == Spec => SecretsHidden
<1> DEFINE Hidden == \A k \in row.declared : row.marked \/ k \in LooksSecret
                                               => form'[k] \in {Absent, "", Keep}
<1>1. ASSUME TypeOK, ConfigInv, [Next]_vars, form' # form PROVE Hidden
  <2>1. PushObserved
    <3>1. ~UNCHANGED vars
      BY <1>1 DEF vars
    <3>2. ASSUME NEW h \in Handler, Ask(h) \/ ResolveSecretSentinels(h) \/ Commit(h)
                                    \/ ReadRow(h) \/ WriteRow(h)
          PROVE  FALSE
      BY <1>1, <3>2 DEF Ask, ResolveSecretSentinels, Commit, ReadRow, WriteRow
    <3> QED BY <1>1, <3>1, <3>2 DEF Next, UpsertRaw, DeleteInstance,
                                    SetSystemSetting, Apply, Teardown
  <2>2. row.declared \subseteq Key /\ RowInv(row)
    BY <1>1 DEF TypeOK, Row, ConfigInv
  <2>3. CASE form' = Blank
    BY <2>2, <2>3, BlankType
  <2>4. CASE form' = RedactedInputEcho(row)
    BY <2>2, <2>4 DEF RedactedInputEcho, RowInv
  <2> QED BY <1>1, <2>1, <2>3, <2>4 DEF PushObserved
<1>2. TypeOK /\ ConfigInv /\ [Next]_vars => [form' # form => Hidden]_vars
  BY <1>1
<1> QED BY <1>2, ConfigHolds, TypeCorrect, PTL DEF Spec, SecretsHidden

\* A program of a manifest runs with the ends of the chains of references in the
\* stored values: the five rounds of the substituter never leave a field half
\* resolved.
THEOREM ProgramsGetTheirValues == Spec => []AppDenotes
<1>1. ConfigInv => AppDenotes
  BY DEF ConfigInv, AppInv
<1> QED BY <1>1, ConfigHolds, PTL

=============================================================================
