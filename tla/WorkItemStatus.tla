---------------------------- MODULE WorkItemStatus ----------------------------
(***************************************************************************)
(* What the work-item API promises about the status of a work item: it     *)
(* starts as a DRAFT, moves only along                                     *)
(*                 DRAFT <-> ACTIVE <-> COMPLETED                          *)
(* one edge at a time, and may be deleted in any status.  Requests,        *)
(* interleavings and failures do not exist here; WorkItemLifecycle is      *)
(* shown to implement this specification.                                  *)
(***************************************************************************)
CONSTANT ItemIds

VARIABLE status    \* status[i], "unborn" before and "deleted" after its life

Statuses == {"DRAFT", "ACTIVE", "COMPLETED"}

\* WorkItem.canTransitionTo
Transitions(from) ==
  CASE from = "DRAFT" -> {"ACTIVE"}
    [] from = "ACTIVE" -> {"DRAFT", "COMPLETED"}
    [] from = "COMPLETED" -> {"ACTIVE"}
    [] OTHER -> {}

Init == status \in [ItemIds -> Statuses \cup {"unborn"}]

Create(i) == status[i] = "unborn" /\ status' = [status EXCEPT ![i] = "DRAFT"]

Move(i) == \E s \in Transitions(status[i]) : status' = [status EXCEPT ![i] = s]

Delete(i) ==
  status[i] \in Statuses /\ status' = [status EXCEPT ![i] = "deleted"]

Next == \E i \in ItemIds : Create(i) \/ Move(i) \/ Delete(i)

Spec == Init /\ [][Next]_status
=============================================================================
