----------------------------- MODULE Deployment -----------------------------
(***************************************************************************)
(* What the reconciler promises for its instances, whatever runtime they   *)
(* use and however many steps, failures and restarts a job takes: each is  *)
(* applied or taken down, never both; what comes up is the configuration   *)
(* that was asked for when the job began; "installed" is reported over     *)
(* nothing else; and an instance is forgotten only when nothing is left of *)
(* it and its removal had been read.                                       *)
(***************************************************************************)
CONSTANTS
    Inst,   \* instance ids
    Cfg,    \* configurations
    NoCfg   \* no configuration

VARIABLES
    want,   \* what is asked of each instance
    seen,   \* the wishes the agent last read, all at one moment
    job,    \* what the agent is doing to each instance
    up,     \* the configuration that is there, running or not
    told    \* the instance is reported as installed

vars == <<want, seen, job, up, told>>

Wish == [state : {"installed", "stopped", "removed"}, cfg : Cfg]
NoWish == [state |-> "absent", cfg |-> NoCfg]
NoJob == [kind |-> "none", cfg |-> NoCfg]
TakeDown == [kind |-> "down", cfg |-> NoCfg]
ApplyOf(c) == [kind |-> "apply", cfg |-> c]

NoneIs(kind) == \A i \in Inst : job[i].kind # kind

Init ==
    /\ want = [i \in Inst |-> NoWish]
    /\ seen = [i \in Inst |-> "absent"]
    /\ job = [i \in Inst |-> NoJob]
    /\ up = [i \in Inst |-> NoCfg]
    /\ told = [i \in Inst |-> FALSE]

\* Somebody asks for something else, at any time, also in the middle of a job.
Ask(i, w) ==
    /\ want' = [want EXCEPT ![i] = w]
    /\ UNCHANGED <<seen, job, up, told>>

\* The agent reads all wishes, or forgets them, but not during a removal.
Look ==
    /\ NoneIs("down")
    /\ \/ seen' = [i \in Inst |-> want[i].state]
       \/ seen' = [i \in Inst |-> "absent"]
    /\ UNCHANGED <<want, job, up, told>>

\* A job begins with the wish of that moment; one apply runs at a time.
BeginApply(i) ==
    /\ job[i] = NoJob
    /\ NoneIs("apply")
    /\ want[i].state = "installed"
    /\ job' = [job EXCEPT ![i] = ApplyOf(want[i].cfg)]
    /\ UNCHANGED <<want, seen, up, told>>

\* An apply takes the old configuration away, brings its own one up, or fails.
Apply(i) ==
    /\ job[i].kind = "apply"
    /\ \E u \in {up[i], NoCfg, job[i].cfg} : up' = [up EXCEPT ![i] = u]
    /\ \E t \in {told[i], FALSE} : told' = [told EXCEPT ![i] = t]
    /\ \E k \in {job[i], NoJob} : job' = [job EXCEPT ![i] = k]
    /\ UNCHANGED <<want, seen>>

\* An apply that succeeded reports it.
Report(i) ==
    /\ job[i].kind = "apply"
    /\ up[i] = job[i].cfg
    /\ told' = [told EXCEPT ![i] = TRUE]
    /\ job' = [job EXCEPT ![i] = NoJob]
    /\ UNCHANGED <<want, seen, up>>

\* A teardown begins with a wish that may have changed since it was read.
BeginDown(i) ==
    /\ job[i] = NoJob
    /\ NoneIs("down")
    /\ seen[i] \in {"stopped", "removed"}
    /\ job' = [job EXCEPT ![i] = TakeDown]
    /\ UNCHANGED <<want, seen, up, told>>

Down(i) ==
    /\ job[i] = TakeDown
    /\ \E u \in {up[i], NoCfg} : up' = [up EXCEPT ![i] = u]
    /\ \E k \in {TakeDown, NoJob} : job' = [job EXCEPT ![i] = k]
    /\ UNCHANGED <<want, seen, told>>

\* The instance is forgotten: nothing is left, and its removal was read.
Forget(i) ==
    /\ job[i] = TakeDown
    /\ seen[i] = "removed"
    /\ up[i] = NoCfg
    /\ want' = [want EXCEPT ![i] = NoWish]
    /\ told' = [told EXCEPT ![i] = FALSE]
    /\ job' = [job EXCEPT ![i] = NoJob]
    /\ UNCHANGED <<seen, up>>

\* A restart abandons the jobs, and nothing else.
Restart ==
    /\ job' = [i \in Inst |-> NoJob]
    /\ seen' = [i \in Inst |-> "absent"]
    /\ UNCHANGED <<want, up, told>>

Next ==
    \/ \E i \in Inst : \/ \E w \in Wish : Ask(i, w)
                       \/ BeginApply(i) \/ Apply(i) \/ Report(i)
                       \/ BeginDown(i) \/ Down(i) \/ Forget(i)
    \/ Look
    \/ Restart

Spec == Init /\ [][Next]_vars
=============================================================================
