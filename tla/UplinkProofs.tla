---------------------------- MODULE UplinkProofs ----------------------------
(* Proofs about Uplink, for any number of callbacks and IPC requests.      *)
EXTENDS Uplink, TLAPS

-----------------------------------------------------------------------------
(* The invariant.  A version is typed by what the bound has spent, and the *)
(* token in memory by the one in the store.                                *)

Spent == MaxDisturbances - left

\* What was counted or stored never exceeds what was spent; a new token is in the
\* store before it is in use.
Bounded ==
    /\ asked <= rows /\ rows <= Spent
    /\ token <= meta /\ meta <= Spent
    /\ stage[Loop] = "save" => token <= val[Loop] /\ val[Loop] <= Spent
    /\ stage[Loop] = "set" => val[Loop] <= meta

TypeInv == TypeOK /\ Bounded

\* The loop is not between the two halves of a token refresh, or stays there.
LoopKept ==
    stage'[Loop] \in {"save", "set"} =>
        stage'[Loop] = stage[Loop] /\ val'[Loop] = val[Loop]

-----------------------------------------------------------------------------
(* What the operators that the actions share return.                       *)

\* The loop is a sender.
LEMMA LoopIsSender == Loop \in Sender /\ None \notin Sender
BY UplinkAssumption DEF Sender

\* The bound only shrinks.
LEMMA LeftType ==
    ASSUME TypeOK, left' = left \/ Disturbed
    PROVE  left' \in 0 .. MaxDisturbances /\ Spent' \in Nat /\ Spent <= Spent'
<1>1. left \in 0 .. MaxDisturbances /\ MaxDisturbances \in Nat
  BY UplinkAssumption, Zenon DEF TypeOK
<1>2. left' = left \/ (left > 0 /\ left' = left - 1)
  BY Zenon DEF Disturbed
<1> QED BY <1>1, <1>2 DEF Spent

\* The versions are numbers.
LEMMA VersionType ==
    ASSUME TypeOK
    PROVE  /\ asked \in Nat /\ rows \in Nat /\ meta \in Nat /\ token \in Nat
           /\ Spent \in Nat /\ Spent <= MaxDisturbances /\ val[Loop] \in Nat
<1>1. /\ asked \in Version /\ rows \in Version /\ meta \in Version /\ token \in Version
      /\ val \in [Sender -> Version] /\ left \in 0 .. MaxDisturbances
  BY Zenon DEF TypeOK
<1>2. MaxDisturbances \in Nat
  BY UplinkAssumption, Zenon
<1>3. val[Loop] \in Version
  BY <1>1, LoopIsSender
<1> QED BY <1>1, <1>2, <1>3 DEF Version, Spent

\* A step that stores nothing and does not refresh the token.
LEMMA BoundedFrame ==
    ASSUME TypeInv, UNCHANGED <<device, asked, token>>, left' = left \/ Disturbed, LoopKept
    PROVE  Bounded'
<1>1. TypeOK /\ Bounded
  BY DEF TypeInv
<1>2. Spent' \in Nat /\ Spent <= Spent'
  BY <1>1, LeftType
<1>3. asked' = asked /\ rows' = rows /\ meta' = meta /\ token' = token
  BY DEF device
<1>4. stage'[Loop] = "save" => stage[Loop] = "save" /\ val'[Loop] = val[Loop]
  BY DEF LoopKept
<1>5. stage'[Loop] = "set" => stage[Loop] = "set" /\ val'[Loop] = val[Loop]
  BY DEF LoopKept
<1>6. /\ asked <= rows /\ rows <= Spent /\ token <= meta /\ meta <= Spent
      /\ stage[Loop] = "save" => token <= val[Loop] /\ val[Loop] <= Spent
      /\ stage[Loop] = "set" => val[Loop] <= meta
  BY <1>1 DEF Bounded
<1>7. /\ asked \in Nat /\ rows \in Nat /\ meta \in Nat /\ token \in Nat
      /\ Spent \in Nat /\ val[Loop] \in Nat
  BY <1>1, VersionType
<1>8. asked' <= rows' /\ rows' <= Spent' /\ token' <= meta' /\ meta' <= Spent'
  BY <1>2, <1>3, <1>6, <1>7
<1>9. /\ stage'[Loop] = "save" => token' <= val'[Loop] /\ val'[Loop] <= Spent'
      /\ stage'[Loop] = "set" => val'[Loop] <= meta'
  BY <1>2, <1>3, <1>4, <1>5, <1>6, <1>7
<1> QED BY <1>8, <1>9 DEF Bounded

\* Goto moves one sender.
LEMMA GotoType ==
    ASSUME TypeOK, NEW s \in Sender, NEW j \in Job, NEW st \in Stage, Goto(s, j, st)
    PROVE  /\ job' \in [Sender -> Job] /\ stage' \in [Sender -> Stage]
           /\ stage'[s] = st /\ job'[s] = j
           /\ \A q \in Sender : q # s => stage'[q] = stage[q] /\ job'[q] = job[q]
BY DEF TypeOK, Goto

\* A sender that is done goes on to the snapshot, or stops.
LEMMA SentType ==
    ASSUME TypeOK, NEW s \in Sender, Sent(s)
    PROVE  /\ job' \in [Sender -> Job] /\ stage' \in [Sender -> Stage]
           /\ stage'[s] \in {"ask", "idle"}
           /\ stage'[s] = "ask" => job'[s] = "snapshot"
           /\ \A q \in Sender : q # s => stage'[q] = stage[q] /\ job'[q] = job[q]
<1>1. "snapshot" \in Job /\ "none" \in Job /\ "ask" \in Stage /\ "idle" \in Stage
  BY DEF Job, Stage
<1>2. Goto(s, "snapshot", "ask") \/ Goto(s, "none", "idle")
  BY DEF Sent, Stop
<1> QED BY <1>1, <1>2, GotoType

-----------------------------------------------------------------------------
(* A step of a sender.                                                     *)

\* No sender disturbs a refresh.
LEMMA SenderKeeps ==
    ASSUME TypeOK, NEW s \in Sender, SenderStep(s)
    PROVE  LoopKept /\ job' \in [Sender -> Job] /\ stage' \in [Sender -> Stage]
<1> USE LoopIsSender
<1>1. job[s] \in Job /\ "none" \in Job
  BY DEF TypeOK, Job
<1>2. {"idle", "read", "check", "write", "blocked"} \subseteq Stage
  BY DEF Stage
<1>3. CASE Ask(s)
  <2>1. Goto(s, job[s], "read") \/ Goto(s, "none", "idle")
    BY <1>3 DEF Ask, Stop
  <2>2. val' = val
    BY <1>3 DEF Ask
  <2> QED BY <1>1, <1>2, <2>1, <2>2, GotoType DEF LoopKept
<1>4. CASE Read(s)
  <2>1. Goto(s, job[s], "check") \/ Goto(s, "none", "idle")
    BY <1>4 DEF Read, Stop
  <2>2. s # Loop => val'[Loop] = val[Loop]
    <3>1. val \in [Sender -> Version]
      BY DEF TypeOK
    <3> QED BY <1>4, <3>1 DEF Read
  <2> QED BY <1>1, <1>2, <2>1, <2>2, GotoType DEF LoopKept
<1>5. CASE Check(s)
  <2>1. Goto(s, job[s], "write") \/ Sent(s)
    BY <1>5 DEF Check
  <2>2. val' = val
    BY <1>5 DEF Check
  <2> QED BY <1>1, <1>2, <2>1, <2>2, GotoType, SentType DEF LoopKept
<1>6. CASE Write(s) \/ WriteUnblocks(s)
  <2>1. Sent(s) /\ (val' = val \/ val' = [val EXCEPT ![s] = 0])
    BY <1>6 DEF Write, WriteUnblocks
  <2>2. s # Loop => val'[Loop] = val[Loop]
    BY <2>1 DEF TypeOK
  <2> QED BY <2>1, <2>2, SentType DEF LoopKept
<1>7. CASE WriteNil(s)
  <2>1. Goto(s, "none", "idle") \/ UNCHANGED <<job, stage>>
    BY <1>7 DEF WriteNil, Stop
  <2>2. val' = val
    BY <1>7 DEF WriteNil
  <2>3. CASE Goto(s, "none", "idle")
    BY <1>1, <1>2, <2>2, <2>3, GotoType DEF LoopKept
  <2>4. CASE UNCHANGED <<job, stage>>
    BY <2>2, <2>4 DEF LoopKept, TypeOK
  <2> QED BY <2>1, <2>3, <2>4
<1>8. CASE WriteBlocks(s)
  <2>1. Goto(s, job[s], "blocked") /\ val' = val
    BY <1>8 DEF WriteBlocks
  <2> QED BY <1>1, <1>2, <2>1, GotoType DEF LoopKept
<1> QED BY <1>3, <1>4, <1>5, <1>6, <1>7, <1>8 DEF SenderStep

\* A sender's step keeps the types of the rest.
LEMMA SenderTypeStep ==
    ASSUME TypeInv, NEW s \in Sender, SenderStep(s)
    PROVE  TypeInv'
<1> USE DEF SenderOnly, device, client, history
<1>1. TypeOK
  BY DEF TypeInv
<1>2. LoopKept /\ job' \in [Sender -> Job] /\ stage' \in [Sender -> Stage]
  BY <1>1, SenderKeeps
<1>3. UNCHANGED <<device, asked, token>> /\ (left' = left \/ Disturbed)
  BY DEF SenderStep, Ask, Read, Check, Write, WriteNil, WriteBlocks, WriteUnblocks
<1>4. Bounded'
  BY <1>2, <1>3, BoundedFrame
<1>5. left' \in 0 .. MaxDisturbances
  BY <1>1, <1>3, LeftType
<1>6. val' \in [Sender -> Version]
  <2>1. val \in [Sender -> Version] /\ 0 \in Version /\ rows \in Version
    BY <1>1, UplinkAssumption DEF TypeOK, Version
  <2>2. val' = val \/ val' = [val EXCEPT ![s] = 0] \/ val' = [val EXCEPT ![s] = rows]
    BY DEF SenderStep, Ask, Read, Check, Write, WriteNil, WriteBlocks, WriteUnblocks
  <2> QED BY <2>1, <2>2
<1>7. backend' \in Version /\ seen' \in Version
  <2>1. backend \in Version /\ seen \in Version /\ val[s] \in Version
    BY <1>1 DEF TypeOK
  <2>2. backend' = backend \/ backend' = val[s]
    BY DEF SenderStep, Ask, Read, Check, Write, WriteNil, WriteBlocks, WriteUnblocks,
       Taken, Dropped
  <2>3. seen' = seen \/ seen' = val[s]
    BY DEF SenderStep, Ask, Read, Check, Write, WriteNil, WriteBlocks, WriteUnblocks,
       Taken, Dropped
  <2> QED BY <2>1, <2>2, <2>3
<1>8. link' \in {"none", "up", "broken", "stalled"} /\ holder' \in Sender \union {None}
  BY <1>1 DEF TypeOK, SenderStep, Ask, Read, Check, Write, WriteNil, WriteBlocks,
     WriteUnblocks
<1>9. announced' \in BOOLEAN /\ missed' \in BOOLEAN /\ panicked' \in BOOLEAN
  BY <1>1 DEF TypeOK, SenderStep, Ask, Read, Check, Write, WriteNil, WriteBlocks,
     WriteUnblocks, Taken, Dropped
<1>10. UNCHANGED <<asked, rows, meta, spc, conn, connected, authed, token, onConnect, called,
                   pushNow>>
  BY DEF SenderStep, Ask, Read, Check, Write, WriteNil, WriteBlocks, WriteUnblocks
<1> QED
  BY <1>1, <1>2, <1>4, <1>5, <1>6, <1>7, <1>8, <1>9, <1>10 DEF TypeOK, TypeInv

-----------------------------------------------------------------------------
(* The other steps, and type correctness.                                  *)

\* A step of the client.
LEMMA ClientTypeStep ==
    ASSUME TypeInv, ClientStep
    PROVE  TypeInv'
<1> USE DEF device, client, history, senders
<1>1. TypeOK
  BY DEF TypeInv
<1>2. UNCHANGED <<device, asked, token, val>> /\ (left' = left \/ Disturbed)
  BY DEF ClientStep, Dial, Handshake, ReadFails, Disconnect
<1>3. /\ LoopKept /\ job' \in [Sender -> Job] /\ stage' \in [Sender -> Stage]
  <2>1. job \in [Sender -> Job] /\ stage \in [Sender -> Stage]
    BY <1>1 DEF TypeOK
  <2>2. CASE UNCHANGED <<job, stage>>
    BY <1>2, <2>1, <2>2 DEF LoopKept
  <2>3. ASSUME Spawn
        PROVE  LoopKept /\ job' \in [Sender -> Job] /\ stage' \in [Sender -> Stage]
    <3>1. PICK c \in Callback : /\ job' = [job EXCEPT ![c] = "register"]
                               /\ stage' = [stage EXCEPT ![c] = "read"]
      BY <2>3, Zenon DEF Spawn
    <3>2. c \in Sender /\ c # Loop /\ Loop \in Sender
      BY UplinkAssumption DEF Sender
    <3> QED BY <1>2, <2>1, <3>1, <3>2 DEF LoopKept, Job, Stage
  <2>4. UNCHANGED <<job, stage>> \/ Spawn
    BY DEF ClientStep, Dial, Handshake, ReadFails, Disconnect
  <2> QED BY <2>2, <2>3, <2>4
<1>4. Bounded'
  BY <1>2, <1>3, BoundedFrame
<1>5. left' \in 0 .. MaxDisturbances
  BY <1>1, <1>2, LeftType
<1>6. /\ link' \in {"none", "up", "broken", "stalled"}
      /\ spc' \in {"idle", "open", "pump", "ended"}
  BY <1>1 DEF TypeOK, ClientStep, Dial, Handshake, ReadFails, Disconnect
<1>7. /\ conn' \in BOOLEAN /\ connected' \in BOOLEAN /\ called' \in BOOLEAN
      /\ authed' \in BOOLEAN /\ announced' \in BOOLEAN
  BY <1>1 DEF TypeOK, ClientStep, Dial, Handshake, ReadFails, Disconnect
<1>8. UNCHANGED <<asked, rows, meta, token, val, backend, onConnect, holder, pushNow, seen,
                  missed, panicked>>
  BY DEF ClientStep, Dial, Handshake, ReadFails, Disconnect
<1> QED BY <1>1, <1>3, <1>4, <1>5, <1>6, <1>7, <1>8 DEF TypeOK, TypeInv

\* A step of the loop.
LEMMA LoopTypeStep ==
    ASSUME TypeInv, LoopStep
    PROVE  TypeInv'
<1> USE DEF LoopOnly, device, history
<1>1. TypeOK /\ Bounded
  BY DEF TypeInv
<1>2. Loop \in Sender /\ {"idle", "ask", "save", "set"} \subseteq Stage
      /\ {"none", "snapshot", "token"} \subseteq Job
  BY LoopIsSender DEF Stage, Job
<1>3. CASE SenderStep(Loop)
  BY <1>2, <1>3, SenderTypeStep
<1>4. CASE LoopStart \/ LoopTick \/ LoopPushNow
  <2>1. Goto(Loop, "none", "idle") \/ Goto(Loop, "snapshot", "ask")
    BY <1>4 DEF LoopStart, LoopTick, LoopPushNow, Stop
  <2>2. LoopKept /\ job' \in [Sender -> Job] /\ stage' \in [Sender -> Stage]
    BY <1>1, <1>2, <2>1, GotoType DEF LoopKept
  <2>3. UNCHANGED <<device, asked, token>> /\ left' = left
    BY <1>4 DEF LoopStart, LoopTick, LoopPushNow
  <2>4. Bounded'
    BY <2>2, <2>3, BoundedFrame
  <2>5. onConnect' \in BOOLEAN /\ pushNow' \in BOOLEAN
    BY <1>1, <1>4 DEF LoopStart, LoopTick, LoopPushNow, TypeOK
  <2> QED
    BY <1>1, <1>4, <2>2, <2>4, <2>5
       DEF LoopStart, LoopTick, LoopPushNow, TypeOK, TypeInv
<1>5. CASE LoopRefresh
  <2>1. /\ job' \in [Sender -> Job] /\ stage' \in [Sender -> Stage]
        /\ stage'[Loop] = "save"
    BY <1>1, <1>2, <1>5, GotoType DEF LoopRefresh
  <2>2. left \in 0 .. MaxDisturbances /\ MaxDisturbances \in Nat
    BY <1>1, UplinkAssumption, Zenon DEF TypeOK
  <2>3. left > 0 /\ left' = left - 1
    BY <1>5, Zenon DEF LoopRefresh, Disturbed
  <2>4. asked' = asked /\ rows' = rows /\ meta' = meta /\ token' = token
    BY <1>5 DEF LoopRefresh
  <2>5. /\ asked \in Nat /\ rows \in Nat /\ meta \in Nat /\ token \in Nat
        /\ asked <= rows /\ rows <= Spent /\ token <= meta /\ meta <= Spent
    BY <1>1, VersionType DEF Bounded
  <2>6. token + 1 \in Version /\ token + 1 <= Spent'
    BY <2>2, <2>3, <2>5 DEF Version, Spent
  <2>7. val' \in [Sender -> Version] /\ val'[Loop] = token + 1
    <3>1. val \in [Sender -> Version]
      BY <1>1 DEF TypeOK
    <3> QED BY <1>2, <1>5, <2>6, <3>1 DEF LoopRefresh
  <2>8. Bounded'
    <3>1. asked <= rows /\ rows <= Spent' /\ meta <= Spent'
      BY <2>2, <2>3, <2>5 DEF Spent
    <3> QED BY <2>1, <2>4, <2>5, <2>6, <2>7, <3>1 DEF Bounded
  <2>9. left' \in 0 .. MaxDisturbances
    BY <2>2, <2>3
  <2> QED BY <1>1, <1>5, <2>1, <2>7, <2>8, <2>9 DEF LoopRefresh, TypeOK, TypeInv
<1>6. CASE LoopSave
  <2>1. stage[Loop] = "save" /\ val' = val /\ token' = token /\ asked' = asked
        /\ rows' = rows
    BY <1>6 DEF LoopSave
  <2>2. \/ meta' = val[Loop] /\ Goto(Loop, "token", "set") /\ left' = left
        \/ meta' = meta /\ Goto(Loop, "none", "idle") /\ Disturbed
    BY <1>6 DEF LoopSave, Stop
  <2>3. /\ job' \in [Sender -> Job] /\ stage' \in [Sender -> Stage]
        /\ left' \in 0 .. MaxDisturbances
    BY <1>1, <1>2, <2>2, GotoType, LeftType
  <2>4. val[Loop] \in Version /\ meta \in Version /\ val \in [Sender -> Version]
    BY <1>1, <1>2 DEF TypeOK
  <2>5. CASE meta' = meta /\ Goto(Loop, "none", "idle") /\ Disturbed
    <3>1. LoopKept
      BY <1>1, <1>2, <2>5, GotoType DEF LoopKept
    <3>2. Bounded'
      BY <2>1, <2>5, <3>1, BoundedFrame
    <3> QED BY <1>1, <1>6, <2>1, <2>3, <2>5, <3>2 DEF LoopSave, TypeOK, TypeInv
  <2>6. CASE meta' = val[Loop] /\ Goto(Loop, "token", "set") /\ left' = left
    <3>1. stage'[Loop] = "set"
      BY <1>1, <1>2, <2>6, GotoType
    <3>2. /\ asked <= rows /\ rows <= Spent /\ token <= meta /\ meta <= Spent
          /\ val[Loop] <= Spent
      BY <1>1, <2>1 DEF Bounded
    <3>3. token <= val[Loop]
      \* a refresh makes the next token
      BY <1>1, <2>1 DEF Bounded
    <3>4. Spent' = Spent
      BY <2>6 DEF Spent
    <3>5. val[Loop] \in Nat
      BY <1>1, VersionType
    <3>6. Bounded'
      BY <2>1, <2>6, <3>1, <3>2, <3>3, <3>4, <3>5 DEF Bounded
    <3> QED BY <1>1, <1>6, <2>1, <2>3, <2>4, <2>6, <3>6 DEF LoopSave, TypeOK, TypeInv
  <2> QED BY <2>2, <2>5, <2>6
<1>7. CASE LoopSet
  <2>1. /\ stage[Loop] = "set" /\ val' = val /\ token' = val[Loop] /\ asked' = asked
        /\ rows' = rows /\ meta' = meta /\ left' = left /\ Goto(Loop, "none", "idle")
    BY <1>7 DEF LoopSet, Stop
  <2>2. /\ job' \in [Sender -> Job] /\ stage' \in [Sender -> Stage]
        /\ stage'[Loop] = "idle"
    BY <1>1, <1>2, <2>1, GotoType
  <2>3. val[Loop] \in Version
    BY <1>1, <1>2 DEF TypeOK
  <2>4. Bounded'
    BY <1>1, <2>1, <2>2 DEF Bounded, Spent
  <2> QED BY <1>1, <1>7, <2>1, <2>2, <2>3, <2>4 DEF LoopSet, TypeOK, TypeInv
<1> QED BY <1>3, <1>4, <1>5, <1>6, <1>7 DEF LoopStep

\* A change, a failure of the network, or a new process.
Environment ==
    \/ \E s \in Request : Reregister(s)
    \/ ChangeRows \/ ChangeRowsQuietly \/ BackendAuthenticates
    \/ LinkFails \/ KernelGivesUp \/ Restart \/ Crash

\* A step of the environment; a restarted agent takes its token from the store.
LEMMA EnvironmentTypeStep ==
    ASSUME TypeInv, Environment
    PROVE  TypeInv'
<1> USE DEF device, client, history, senders
<1>1. TypeOK /\ Bounded
  BY DEF TypeInv
<1>2. Loop \in Sender /\ Request \subseteq Sender /\ Loop \notin Request
  BY UplinkAssumption DEF Sender
<1>3. ASSUME NEW s \in Request, Reregister(s)
      PROVE  TypeInv'
  <2>1. /\ job' \in [Sender -> Job] /\ stage' \in [Sender -> Stage]
        /\ stage'[Loop] = stage[Loop]
    <3>1. Goto(s, "register", "ask") /\ "register" \in Job /\ "ask" \in Stage
      BY <1>3 DEF Reregister, Job, Stage
    <3> QED BY <1>1, <1>2, <1>3, <3>1, GotoType
  <2>2. UNCHANGED <<device, asked, token, val>> /\ Disturbed
    BY <1>3 DEF Reregister
  <2>3. Bounded' /\ left' \in 0 .. MaxDisturbances
    BY <1>1, <2>1, <2>2, BoundedFrame, LeftType DEF LoopKept
  <2> QED BY <1>1, <1>3, <2>1, <2>3 DEF Reregister, TypeOK, TypeInv
<1>4. CASE ChangeRows \/ ChangeRowsQuietly
  <2>1. left > 0 /\ left' = left - 1
    BY <1>4, Zenon DEF ChangeRows, ChangeRowsQuietly, Disturbed
  <2>2. left \in 0 .. MaxDisturbances /\ MaxDisturbances \in Nat
    BY <1>1, UplinkAssumption, Zenon DEF TypeOK
  <2>3. /\ rows' = rows + 1 /\ meta' = meta /\ token' = token /\ val' = val
        /\ stage' = stage /\ (asked' = asked \/ asked' = rows')
    BY <1>4 DEF ChangeRows, ChangeRowsQuietly
  <2>4. /\ asked \in Nat /\ rows \in Nat /\ meta \in Nat /\ token \in Nat
        /\ val[Loop] \in Nat /\ asked <= rows /\ rows <= Spent /\ meta <= Spent
    BY <1>1, VersionType DEF Bounded
  <2>5. rows' \in Version /\ rows' <= Spent' /\ meta <= Spent'
    BY <2>1, <2>2, <2>3, <2>4 DEF Version, Spent
  <2>6. asked' \in Version /\ asked' <= rows'
    <3>1. asked \in Version
      BY <1>1 DEF TypeOK
    <3> QED BY <2>3, <2>4, <2>5, <3>1
  <2>7. stage[Loop] = "save" => val[Loop] <= Spent'
    BY <1>1, <2>1, <2>2, <2>4 DEF Bounded, Spent
  <2>8. Bounded'
    BY <1>1, <2>3, <2>5, <2>6, <2>7 DEF Bounded
  <2>9. left' \in 0 .. MaxDisturbances
    BY <2>1, <2>2
  <2>10. pushNow' \in BOOLEAN /\ missed' \in BOOLEAN
    BY <1>1, <1>4 DEF ChangeRows, ChangeRowsQuietly, TypeOK
  <2>11. UNCHANGED <<backend, link, client, holder, senders, announced, seen, panicked>>
    BY <1>4 DEF ChangeRows, ChangeRowsQuietly
  <2> QED BY <1>1, <2>3, <2>5, <2>6, <2>8, <2>9, <2>10, <2>11 DEF TypeOK, TypeInv
<1>5. CASE LinkFails \/ KernelGivesUp \/ BackendAuthenticates
  <2>1. UNCHANGED <<device, asked, token>> /\ (left' = left \/ Disturbed) /\ LoopKept
    BY <1>5 DEF LinkFails, KernelGivesUp, BackendAuthenticates, LoopKept
  <2>2. Bounded' /\ left' \in 0 .. MaxDisturbances
    BY <1>1, <2>1, BoundedFrame, LeftType
  <2>3. link' \in {"none", "up", "broken", "stalled"}
    BY <1>1, <1>5 DEF LinkFails, KernelGivesUp, BackendAuthenticates, TypeOK
  <2>4. authed' \in BOOLEAN
    BY <1>1, <1>5 DEF LinkFails, KernelGivesUp, BackendAuthenticates, TypeOK
  <2> QED
    BY <1>1, <1>5, <2>2, <2>3, <2>4
       DEF LinkFails, KernelGivesUp, BackendAuthenticates, TypeOK, TypeInv
<1>6. CASE Restart \/ Crash
  <2>1. Reborn /\ UNCHANGED <<device, backend>> /\ (left' = left \/ Disturbed)
    BY <1>6 DEF Restart, Crash
  <2>2. left' \in 0 .. MaxDisturbances /\ Spent' \in Nat /\ Spent <= Spent'
    BY <1>1, <2>1, LeftType
  <2>3. /\ asked \in Nat /\ rows \in Nat /\ meta \in Nat /\ Spent \in Nat
        /\ asked <= rows /\ rows <= Spent /\ meta <= Spent
    BY <1>1, VersionType DEF Bounded
  <2>4. asked <= rows /\ rows <= Spent' /\ meta <= Spent' /\ meta <= meta
    BY <2>2, <2>3
  <2>5. /\ job' \in [Sender -> Job] /\ stage' \in [Sender -> Stage]
        /\ stage'[Loop] = "start"
    BY <1>2, <2>1 DEF Reborn, Job, Stage
  <2>6. val' \in [Sender -> Version]
    <3>1. 0 \in Version
      BY UplinkAssumption DEF Version
    <3> QED BY <2>1, <3>1 DEF Reborn
  <2>7. Bounded'
    BY <2>1, <2>4, <2>5 DEF Reborn, Bounded
  <2> QED BY <1>1, <2>1, <2>2, <2>5, <2>6, <2>7 DEF Reborn, TypeOK, TypeInv
<1> QED BY <1>3, <1>4, <1>5, <1>6 DEF Environment

\* The agent starts with everything told and nothing spent.
LEMMA TypeInit == Init => TypeInv
<1> SUFFICES ASSUME Init PROVE TypeInv
  OBVIOUS
<1>1. MaxDisturbances \in Nat /\ 0 \in Version
  BY UplinkAssumption DEF Version
<1>2. left = MaxDisturbances /\ asked = 0 /\ rows = 0 /\ meta = 0 /\ token = 0
  BY DEF Init
<1>3. stage[Loop] = "start"
  BY LoopIsSender DEF Init
<1>4. Bounded
  BY <1>1, <1>2, <1>3 DEF Bounded, Spent
<1>5. /\ job \in [Sender -> Job] /\ stage \in [Sender -> Stage]
      /\ val \in [Sender -> Version]
  BY <1>1 DEF Init, Job, Stage
<1>6. left \in 0 .. MaxDisturbances
  BY <1>1, <1>2
<1> QED BY <1>1, <1>4, <1>5, <1>6 DEF Init, TypeOK, TypeInv

\* Every step is one of the client, of a sender, of the loop, or of the environment.
LEMMA StepCases ==
    ASSUME Next
    PROVE  \/ ClientStep \/ LoopStep \/ Environment
           \/ \E s \in Callback \union Request : SenderStep(s)
BY DEF Next, Environment

\* Every step keeps the invariant.
LEMMA TypeStep == TypeInv /\ [Next]_vars => TypeInv'
<1> SUFFICES ASSUME TypeInv, [Next]_vars PROVE TypeInv'
  OBVIOUS
<1>1. CASE Next
  <2>1. Callback \union Request \subseteq Sender
    BY DEF Sender
  <2> QED
    BY <1>1, <2>1, StepCases, ClientTypeStep, LoopTypeStep, SenderTypeStep,
       EnvironmentTypeStep
<1>2. CASE UNCHANGED vars
  BY <1>2 DEF vars, device, client, senders, history, TypeInv, TypeOK, Bounded, Spent
<1> QED BY <1>1, <1>2

\* The state of the client, its senders and the backend is well formed in every
\* behaviour, for any number of callbacks, requests and disturbances.
THEOREM TypeCorrect == Spec => []TypeOK
<1>1. TypeInv => TypeOK
  BY DEF TypeInv
<1> QED BY <1>1, TypeInit, TypeStep, PTL DEF Spec

\* The token in use is never newer than the stored one: refreshDeviceToken stores
\* it first, and uses it only when that succeeded.
THEOREM TokenIsKept == Spec => []TokenSurvives
<1>1. TypeInv => TokenSurvives
  BY DEF TypeInv, Bounded, TokenSurvives
<1> QED BY <1>1, TypeInit, TypeStep, PTL DEF Spec

-----------------------------------------------------------------------------
(* Every session is announced.                                             *)

\* `connected` is true of one session only: it is false while the next one is
\* dialled, and a session whose connection works is still being read.
SessionInv ==
    /\ spc \in {"idle", "open"} => ~connected
    /\ connected \/ spc = "open" => conn
    /\ connected /\ link = "up" => spc = "pump"

AnnounceInv == TypeOK /\ SessionInv /\ Announced

Registering == \E c \in Callback : job[c] = "register"

\* A step that leaves the session and the callbacks' registrations as they are.
LEMMA AnnounceFrame ==
    ASSUME SessionInv, Announced, UNCHANGED <<spc, conn, connected, called>>,
           link' = link \/ link' # "up",
           Registering => Registering' \/ announced' \/ ~(connected /\ link' = "up"),
           announced => announced'
    PROVE  SessionInv' /\ Announced'
<1>1. SessionInv'
  BY DEF SessionInv
<1>2. Announced'
  <2>1. link' = "up" => link = "up"
    OBVIOUS
  <2>2. CASE Registering
    BY <2>2 DEF Announced, Registering
  <2>3. CASE ~Registering
    BY <2>1, <2>3 DEF Announced, Registering
  <2> QED BY <2>2, <2>3
<1> QED BY <1>1, <1>2

\* A step of a sender: a callback stops registering only once its registration is
\* written, or when its session is over.
LEMMA AnnounceSender ==
    ASSUME AnnounceInv, NEW s \in Sender, SenderStep(s)
    PROVE  SessionInv' /\ Announced'
<1> USE DEF SenderOnly, client, history
<1>1. TypeOK /\ SessionInv /\ Announced
  BY DEF AnnounceInv
<1>2. UNCHANGED <<spc, conn, connected, called>> /\ (announced => announced')
  <2>1. UNCHANGED <<spc, conn, connected, called>>
    BY DEF SenderStep, Ask, Read, Check, Write, WriteNil, WriteBlocks, WriteUnblocks
  <2>2. announced' = announced \/ announced' = (announced \/ job[s] = "register")
    BY DEF SenderStep, Ask, Read, Check, Write, WriteNil, WriteBlocks, WriteUnblocks,
       Taken, Dropped
  <2>3. announced => announced'
    BY <2>2, Zenon
  <2> QED BY <2>1, <2>3
<1>3. link' = link \/ link' # "up"
  BY DEF SenderStep, Ask, Read, Check, Write, WriteNil, WriteBlocks, WriteUnblocks
<1>4. ASSUME NEW c \in Callback, job[c] = "register"
      PROVE  job'[c] = "register" \/ announced' \/ ~(connected /\ link' = "up")
  <2>1. c \in Sender /\ c \notin Request /\ job \in [Sender -> Job]
    BY <1>1, UplinkAssumption DEF Sender, TypeOK
  <2>2. ASSUME NEW j, NEW st, Goto(s, j, st), s # c \/ j = "register"
        PROVE  job'[c] = "register"
    BY <1>4, <2>1, <2>2 DEF Goto
  <2>3. ASSUME Sent(s), s # c
        PROVE  job'[c] = "register"
    BY <2>2, <2>3 DEF Sent, Stop
  <2>4. CASE Ask(s)
    BY <1>4, <2>2, <2>4 DEF Ask, Stop
  <2>5. CASE Read(s)
    BY <1>4, <2>2, <2>5 DEF Read, Stop
  <2>6. CASE Check(s)
    BY <1>1, <1>4, <2>2, <2>3, <2>6 DEF Check, SessionInv
  <2>7. CASE Write(s)
    BY <1>1, <1>4, <2>3, <2>7 DEF Write, Taken, Dropped, Acknowledged, SessionInv
  <2>8. CASE WriteNil(s)
    BY <1>1, <1>2, <1>4, <2>1, <2>2, <2>8 DEF WriteNil, Writes, Stop, SessionInv
  <2>9. CASE WriteBlocks(s)
    BY <1>4, <2>2, <2>9 DEF WriteBlocks
  <2>10. CASE WriteUnblocks(s)
    BY <2>10 DEF WriteUnblocks
  <2> QED BY <2>4, <2>5, <2>6, <2>7, <2>8, <2>9, <2>10 DEF SenderStep
<1> QED BY <1>1, <1>2, <1>3, <1>4, AnnounceFrame DEF Registering

\* A step of the client: the session that becomes connected has a callback that is
\* registering, if onConnect is set.
LEMMA AnnounceClient ==
    ASSUME AnnounceInv, ClientStep
    PROVE  SessionInv' /\ Announced'
<1> USE DEF client, history, senders
<1>1. TypeOK /\ SessionInv /\ Announced
  BY DEF AnnounceInv
<1>2. CASE Dial
  BY <1>1, <1>2 DEF Dial, SessionInv, Announced
<1>3. CASE Handshake
  <2>1. SessionInv'
    BY <1>1, <1>3 DEF Handshake, SessionInv
  <2>2. onConnect => \E c \in Callback : job'[c] = "register"
    <3>1. \A c \in Callback : c \in Sender
      BY DEF Sender
    <3>2. job \in [Sender -> Job]
      BY <1>1 DEF TypeOK
    <3> QED BY <1>3, <3>1, <3>2 DEF Handshake, Spawn
  <2>3. called' = onConnect
    BY <1>3 DEF Handshake
  <2> QED BY <2>1, <2>2, <2>3 DEF Announced
<1>4. CASE ReadFails
  BY <1>1, <1>4 DEF ReadFails, SessionInv, Announced
<1>5. CASE Disconnect
  BY <1>5 DEF Disconnect, SessionInv, Announced
<1> QED BY <1>2, <1>3, <1>4, <1>5 DEF ClientStep

\* The loop is no callback; it changes neither the session nor who registers.
LEMMA AnnounceLoop ==
    ASSUME AnnounceInv, LoopStep
    PROVE  SessionInv' /\ Announced'
<1> USE DEF LoopOnly, history
<1>1. TypeOK /\ SessionInv /\ Announced
  BY DEF AnnounceInv
<1>2. CASE SenderStep(Loop)
  BY <1>2, LoopIsSender, AnnounceSender
<1>3. CASE LoopStart \/ LoopTick \/ LoopPushNow \/ LoopRefresh \/ LoopSave \/ LoopSet
  <2>1. \E j, st : Goto(Loop, j, st)
    BY <1>3 DEF LoopStart, LoopTick, LoopPushNow, LoopRefresh, LoopSave, LoopSet, Stop
  <2>2. \A c \in Callback : c # Loop /\ c \in Sender
    BY UplinkAssumption DEF Sender
  <2>3. job \in [Sender -> Job]
    BY <1>1 DEF TypeOK
  <2>4. \A c \in Callback : job'[c] = job[c]
    BY <2>1, <2>2, <2>3 DEF Goto
  <2>5. UNCHANGED <<spc, conn, connected, called, link, announced>>
    BY <1>3 DEF LoopStart, LoopTick, LoopPushNow, LoopRefresh, LoopSave, LoopSet
  <2> QED BY <1>1, <2>4, <2>5, AnnounceFrame DEF Registering
<1> QED BY <1>2, <1>3 DEF LoopStep

\* A request is no callback; a process that starts has no session.
LEMMA AnnounceEnvironment ==
    ASSUME AnnounceInv, Environment
    PROVE  SessionInv' /\ Announced'
<1> USE DEF client, history, senders
<1>1. TypeOK /\ SessionInv /\ Announced
  BY DEF AnnounceInv
<1>2. ASSUME NEW s \in Request, Reregister(s)
      PROVE  SessionInv' /\ Announced'
  <2>1. \A c \in Callback : c # s /\ c \in Sender
    BY UplinkAssumption DEF Sender
  <2>2. job \in [Sender -> Job]
    BY <1>1 DEF TypeOK
  <2>3. \A c \in Callback : job'[c] = job[c]
    BY <1>2, <2>1, <2>2 DEF Reregister, Goto
  <2>4. UNCHANGED <<spc, conn, connected, called, link, announced>>
    BY <1>2 DEF Reregister
  <2> QED BY <1>1, <2>3, <2>4, AnnounceFrame DEF Registering
<1>3. CASE ChangeRows \/ ChangeRowsQuietly
  BY <1>1, <1>3, AnnounceFrame DEF ChangeRows, ChangeRowsQuietly, Registering
<1>4. CASE LinkFails \/ KernelGivesUp \/ BackendAuthenticates
  BY <1>1, <1>4, AnnounceFrame
     DEF LinkFails, KernelGivesUp, BackendAuthenticates, Registering
<1>5. CASE Restart \/ Crash
  BY <1>5 DEF Restart, Crash, Reborn, SessionInv, Announced
<1> QED BY <1>2, <1>3, <1>4, <1>5 DEF Environment

\* Every step keeps the invariant.
LEMMA AnnounceStep == TypeInv /\ AnnounceInv /\ [Next]_vars => AnnounceInv'
<1> SUFFICES ASSUME TypeInv, AnnounceInv, [Next]_vars PROVE AnnounceInv'
  OBVIOUS
<1>1. TypeOK'
  BY TypeStep DEF TypeInv
<1>2. CASE Next
  <2>1. Callback \union Request \subseteq Sender
    BY DEF Sender
  <2>2. SessionInv' /\ Announced'
    BY <1>2, <2>1, StepCases, AnnounceClient, AnnounceLoop, AnnounceSender,
       AnnounceEnvironment
  <2> QED BY <1>1, <2>2 DEF AnnounceInv
<1>3. CASE UNCHANGED vars
  BY <1>1, <1>3 DEF vars, client, senders, history, AnnounceInv, SessionInv, Announced
<1> QED BY <1>2, <1>3

\* No session with a callback stays unannounced: once no callback is registering, a
\* registration has been written into the session that is up, however the callbacks of older
\* sessions and the session's own interleave (session, OnConnect, sendRegister).
THEOREM SessionsAnnounced == Spec => []Announced
<1>1. Init => AnnounceInv
  BY TypeInit DEF Init, TypeInv, AnnounceInv, SessionInv, Announced
<1>2. AnnounceInv => Announced
  BY DEF AnnounceInv
<1> QED BY <1>1, <1>2, TypeInit, TypeStep, AnnounceStep, PTL DEF Spec

-----------------------------------------------------------------------------
(* No kick is lost.  KickNotLost is inductive with SessionInv and          *)
(* asked <= rows: a sender gives up the rows asked for only to the         *)
(* backend, or because its session is over, or after an error or a drop,   *)
(* which is recorded in missed.                                            *)

\* The session is up and lacks the rows asked for.
Lacking == connected /\ link = "up" /\ called /\ seen < asked /\ ~panicked /\ ~missed

OnTheWay == pushNow \/ \E s \in Sender : Carries(s)

\* A step that leaves every sender that carries the rows as it is, or puts
\* something in its place.
LEMMA KickFrame ==
    ASSUME KickNotLost, Lacking' => Lacking, pushNow => OnTheWay',
           \A s \in Sender : Carries(s) => OnTheWay'
    PROVE  KickNotLost'
<1>1. CASE OnTheWay
  BY <1>1 DEF KickNotLost, OnTheWay
<1>2. CASE ~OnTheWay
  BY <1>2 DEF KickNotLost, OnTheWay, Lacking
<1> QED BY <1>1, <1>2

\* A sender that is left alone goes on carrying.
LEMMA CarriesStays ==
    ASSUME NEW s \in Sender, Carries(s), job'[s] = job[s], stage'[s] = stage[s],
           val'[s] = val[s], UNCHANGED asked
    PROVE  OnTheWay'
BY DEF Carries, OnTheWay

\* One sender moves.
LEMMA GotoOthers ==
    ASSUME TypeOK, NEW s \in Sender, NEW j, NEW st, Goto(s, j, st)
    PROVE  /\ job'[s] = j /\ stage'[s] = st
           /\ \A c \in Sender : c # s => job'[c] = job[c] /\ stage'[c] = stage[c]
BY DEF TypeOK, Goto

\* A callback whose registration is through goes on to a snapshot.
LEMMA SentCarries ==
    ASSUME TypeOK, NEW s \in Callback, job[s] = "register", Sent(s) PROVE OnTheWay'
<1>1. s \in Sender
  BY DEF Sender
<1>2. job'[s] = "snapshot" /\ stage'[s] = "ask"
  BY <1>1, GotoOthers DEF Sent
<1> QED BY <1>1, <1>2 DEF OnTheWay, Carries

\* A step of a sender.
LEMMA KickSender ==
    ASSUME TypeOK, asked <= rows, SessionInv, KickNotLost, NEW s \in Sender, SenderStep(s)
    PROVE  KickNotLost'
<1> USE DEF SenderOnly, client, device, history
<1> SUFFICES ASSUME Lacking' PROVE OnTheWay'
  BY DEF KickNotLost, Lacking, OnTheWay
<1>1. UNCHANGED <<connected, called, conn, spc, rows, asked, pushNow>>
  BY DEF SenderStep, Ask, Read, Check, Write, WriteNil, WriteBlocks, WriteUnblocks
<1>2. link = "up" /\ ~panicked /\ ~missed
  <2>1. link = "up"
    BY DEF SenderStep, Ask, Read, Check, Write, WriteNil, WriteBlocks, WriteUnblocks,
           Lacking
  <2>2. ~panicked
    BY DEF SenderStep, Ask, Read, Check, Write, WriteNil, WriteBlocks, WriteUnblocks,
           Writes, Unlocked
  <2>3. missed' = missed \/ missed' = TRUE \/ missed' = (missed \/ job[s] = "snapshot")
    BY DEF SenderStep, Ask, Read, Check, Write, WriteNil, WriteBlocks, WriteUnblocks,
           Taken, Dropped
  <2>4. ~missed
    BY <2>3, Zenon DEF Lacking
  <2> QED BY <2>1, <2>2, <2>4
<1>3. seen \in Nat /\ asked \in Nat /\ rows \in Nat /\ val \in [Sender -> Nat] /\ asked <= rows
  <2>1. seen \in Version /\ asked \in Version /\ rows \in Version /\ val \in [Sender -> Version]
    BY Zenon DEF TypeOK
  <2>2. MaxDisturbances \in Nat
    BY UplinkAssumption, Zenon
  <2> QED BY <2>1, <2>2 DEF Version
<1>4. seen < asked
  <2>1. seen' = seen \/ (seen' > seen /\ seen' \in Nat)
    BY <1>3 DEF SenderStep, Ask, Read, Check, Write, WriteNil, WriteBlocks,
                WriteUnblocks, Taken, Dropped
  <2>2. seen' < asked
    BY <1>1 DEF Lacking
  <2> QED BY <1>3, <2>1, <2>2
<1>5. connected /\ conn /\ spc = "pump"
  BY <1>1, <1>2 DEF SessionInv, Lacking
<1>6. OnTheWay
  BY <1>1, <1>2, <1>4, <1>5 DEF KickNotLost, OnTheWay, Lacking
<1>7. CASE pushNow
  BY <1>1, <1>7 DEF OnTheWay
<1>8. ASSUME NEW c \in Sender, Carries(c), c # s PROVE OnTheWay'
  <2>1. job'[c] = job[c] /\ stage'[c] = stage[c]
    <3>1. (\E j, st : Goto(s, j, st)) \/ UNCHANGED <<job, stage>>
      BY DEF SenderStep, Ask, Read, Check, Write, WriteNil, WriteBlocks, WriteUnblocks,
             Sent, Stop
    <3> QED BY <1>8, <3>1, GotoOthers
  <2>2. val'[c] = val[c]
    BY <1>8 DEF SenderStep, Ask, Read, Check, Write, WriteNil, WriteBlocks,
                WriteUnblocks, TypeOK
  <2> QED BY <1>1, <1>8, <2>1, <2>2, CarriesStays
<1>9. ASSUME Carries(s) PROVE OnTheWay'
  <2>1. CASE Ask(s)
    <3>1. job'[s] = job[s] /\ stage'[s] = "read" /\ stage[s] = "ask"
      BY <1>5, <2>1, GotoOthers DEF Ask
    <3> QED BY <1>9, <3>1 DEF OnTheWay, Carries
  <2>2. CASE Read(s)
    <3>1. /\ job'[s] = job[s] /\ stage'[s] = "check"
          /\ job[s] = "snapshot" => val'[s] = rows
      BY <2>2, GotoOthers DEF Read, Lacking, TypeOK
    <3> QED BY <1>1, <1>3, <1>9, <3>1 DEF OnTheWay, Carries
  <2>3. CASE Check(s)
    <3>1. job'[s] = job[s] /\ stage'[s] = "write" /\ stage[s] = "check" /\ val' = val
      BY <1>5, <2>3, GotoOthers DEF Check
    <3> QED BY <1>1, <1>9, <3>1 DEF OnTheWay, Carries
  <2>4. CASE Write(s)
    <3>1. (Taken(s) \/ Dropped(s)) /\ Sent(s) /\ stage[s] = "write"
      BY <1>2, <1>5, <2>4 DEF Write, Writes, Acknowledged
    <3>2. CASE s \in Callback /\ job[s] = "register"
      BY <3>1, <3>2, SentCarries
    <3>3. CASE job[s] = "snapshot" /\ val[s] >= asked
      <4>1. CASE Dropped(s)
        <5>1. missed' = (missed \/ job[s] = "snapshot")
          BY <4>1 DEF Dropped
        <5> QED BY <3>3, <5>1, Zenon DEF Lacking
      <4>2. CASE Taken(s)
        <5>1. seen' >= asked
          BY <1>3, <1>4, <3>3, <4>2 DEF Taken
        <5> QED BY <1>1, <1>3, <1>4, <3>3, <4>2, <5>1 DEF Lacking, Taken
      <4> QED BY <3>1, <4>1, <4>2
    <3> QED BY <1>9, <3>1, <3>2, <3>3 DEF Carries
  <2>5. CASE WriteNil(s) \/ WriteBlocks(s) \/ WriteUnblocks(s)
    BY <1>2, <1>5, <2>5 DEF WriteNil, WriteBlocks, WriteUnblocks
  <2> QED BY <2>1, <2>2, <2>3, <2>4, <2>5 DEF SenderStep
<1> QED BY <1>6, <1>7, <1>8, <1>9 DEF OnTheWay

\* A step of the client: a new session's callback will send a snapshot.
LEMMA KickClient ==
    ASSUME TypeOK, asked <= rows, SessionInv, KickNotLost, ClientStep PROVE KickNotLost'
<1> USE DEF client, device, history, senders
<1>1. CASE Dial
  BY <1>1 DEF Dial, SessionInv, KickNotLost
<1>2. CASE Handshake
  <2>1. CASE onConnect
    <3>1. PICK c \in Callback : job' = [job EXCEPT ![c] = "register"]
      BY <1>2, <2>1, Zenon DEF Handshake, Spawn
    <3>2. c \in Sender
      BY DEF Sender
    <3>3. job'[c] = "register"
      BY <3>1, <3>2 DEF TypeOK
    <3> QED BY <3>2, <3>3 DEF KickNotLost, Carries
  <2>2. CASE ~onConnect
    BY <1>2, <2>2 DEF Handshake, KickNotLost
  <2> QED BY <2>1, <2>2
<1>3. CASE ReadFails
  <2>1. UNCHANGED <<asked, connected, called, pushNow, job, stage, val, seen, missed, panicked>>
    BY <1>3 DEF ReadFails
  <2>2. Lacking' => Lacking
    BY <1>3, <2>1 DEF Lacking, ReadFails
  <2> QED BY <2>1, <2>2, KickFrame, CarriesStays DEF OnTheWay
<1>4. CASE Disconnect
  BY <1>4 DEF Disconnect, KickNotLost
<1> QED BY <1>1, <1>2, <1>3, <1>4 DEF ClientStep

\* A step of the loop: it takes a kick only to send a snapshot.
LEMMA KickLoop ==
    ASSUME TypeOK, asked <= rows, SessionInv, KickNotLost, LoopStep PROVE KickNotLost'
<1> USE DEF LoopOnly, history
<1>1. CASE SenderStep(Loop)
  BY <1>1, LoopIsSender, KickSender
<1>2. CASE LoopStart \/ LoopTick \/ LoopPushNow \/ LoopRefresh \/ LoopSave \/ LoopSet
  <2>1. UNCHANGED <<asked, link, connected, called, seen, missed, panicked>>
    BY <1>2 DEF LoopStart, LoopTick, LoopPushNow, LoopRefresh, LoopSave, LoopSet
  <2>2. Lacking' => Lacking
    BY <2>1 DEF Lacking
  <2>3. pushNow => OnTheWay'
    <3>1. CASE LoopPushNow
      <4>1. job'[Loop] = "snapshot" /\ stage'[Loop] = "ask"
        BY <3>1, LoopIsSender, GotoOthers DEF LoopPushNow
      <4> QED BY <4>1, LoopIsSender DEF OnTheWay, Carries
    <3>2. CASE UNCHANGED pushNow
      BY <3>2 DEF OnTheWay
    <3> QED BY <1>2, <3>1, <3>2 DEF LoopStart, LoopTick, LoopRefresh, LoopSave, LoopSet
  <2>4. ASSUME NEW s \in Sender, Carries(s) PROVE OnTheWay'
    <3>1. PICK j, st : Goto(Loop, j, st)
      BY <1>2 DEF LoopStart, LoopTick, LoopPushNow, LoopRefresh, LoopSave, LoopSet, Stop
    <3>2. s # Loop
      BY <1>2, <2>4, UplinkAssumption
         DEF LoopStart, LoopTick, LoopPushNow, LoopRefresh, LoopSave, LoopSet, Carries
    <3>3. val'[s] = val[s]
      BY <1>2, <2>4, <3>2
         DEF LoopStart, LoopTick, LoopPushNow, LoopRefresh, LoopSave, LoopSet, TypeOK
    <3> QED BY <2>1, <2>4, <3>1, <3>2, <3>3, GotoOthers, CarriesStays, LoopIsSender
  <2> QED BY <2>2, <2>3, <2>4, KickFrame
<1> QED BY <1>1, <1>2 DEF LoopStep

\* A change that asks for a push kicks, any other asks for none; a process
\* that starts has no session.
LEMMA KickEnvironment ==
    ASSUME TypeOK, asked <= rows, SessionInv, KickNotLost, Environment PROVE KickNotLost'
<1> USE DEF client, device, history, senders
<1>1. ASSUME NEW s \in Request, Reregister(s) PROVE KickNotLost'
  <2>1. s \in Sender /\ s \notin Callback
    BY UplinkAssumption DEF Sender
  <2>2. UNCHANGED <<asked, link, connected, called, seen, missed, panicked, pushNow, val>>
    BY <1>1 DEF Reregister
  <2>3. Lacking' => Lacking
    BY <2>2 DEF Lacking
  <2>4. ASSUME NEW c \in Sender, Carries(c) PROVE OnTheWay'
    <3>1. c # s
      BY <1>1, <2>1, <2>4 DEF Reregister, Carries
    <3>2. job'[c] = job[c] /\ stage'[c] = stage[c]
      BY <1>1, <2>1, <2>4, <3>1, GotoOthers DEF Reregister
    <3> QED BY <2>2, <2>4, <3>2, CarriesStays
  <2>5. pushNow => OnTheWay'
    BY <2>2 DEF OnTheWay
  <2> QED BY <2>3, <2>4, <2>5, KickFrame
<1>2. CASE ChangeRows
  BY <1>2 DEF ChangeRows, KickNotLost
<1>3. CASE LinkFails \/ KernelGivesUp
  BY <1>3 DEF LinkFails, KernelGivesUp, KickNotLost
<1>5. CASE ChangeRowsQuietly \/ BackendAuthenticates
  BY <1>5 DEF ChangeRowsQuietly, BackendAuthenticates, KickNotLost, Carries
<1>4. CASE Restart \/ Crash
  BY <1>4 DEF Restart, Crash, Reborn, KickNotLost
<1> QED BY <1>1, <1>2, <1>3, <1>4, <1>5 DEF Environment

\* Every step keeps it.
LEMMA KickStep ==
    TypeInv /\ AnnounceInv /\ KickNotLost /\ [Next]_vars => KickNotLost'
<1> SUFFICES ASSUME TypeInv, AnnounceInv, KickNotLost, [Next]_vars PROVE KickNotLost'
  OBVIOUS
<1>1. TypeOK /\ asked <= rows /\ SessionInv
  BY DEF AnnounceInv, TypeInv, Bounded
<1>2. CASE Next
  <2>1. Callback \union Request \subseteq Sender
    BY DEF Sender
  <2> QED BY <1>1, <1>2, <2>1, StepCases, KickClient, KickLoop, KickSender, KickEnvironment
<1>3. CASE UNCHANGED vars
  BY <1>3 DEF vars, device, client, senders, history, KickNotLost, Carries
<1> QED BY <1>2, <1>3

\* As long as the session that is up lacks the rows of the last PushNow, a push that
\* will tell them is in the channel or on its way: PushNow never gets lost between the
\* loop's rounds, however callbacks and requests send in between, unless the push met
\* a store error or a backend still authenticating.
THEOREM KicksAreKept == Spec => []KickNotLost
<1>1. Init => AnnounceInv /\ KickNotLost
  BY TypeInit DEF Init, TypeInv, AnnounceInv, SessionInv, Announced, KickNotLost
<1> QED BY <1>1, TypeInit, TypeStep, AnnounceStep, KickStep, PTL DEF Spec

=============================================================================
