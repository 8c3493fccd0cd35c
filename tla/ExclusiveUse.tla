---------------------------- MODULE ExclusiveUse ----------------------------
(***************************************************************************)
(* What the exclusivity groups promise (internal/store/locks.go): a device *)
(* resource, such as the display, is used by one instance at a time.       *)
(***************************************************************************)
CONSTANTS Instance, Group

VARIABLE users   \* the instances that run and need the resource of a group

Init == users = [g \in Group |-> {}]

\* Instances stop, and one may start under some groups that are then free.
Change(gone, i, groups) ==
    /\ \A g \in groups : users[g] \ gone \subseteq {i}
    /\ users' = [g \in Group |->
                   (users[g] \ gone) \union (IF g \in groups THEN {i} ELSE {})]

Next == \E gone \in SUBSET Instance, i \in Instance, groups \in SUBSET Group :
            Change(gone, i, groups)

Spec == Init /\ [][Next]_users
=============================================================================
