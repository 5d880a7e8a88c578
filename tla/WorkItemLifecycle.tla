-------------------------- MODULE WorkItemLifecycle --------------------------
(***************************************************************************)
(* The life of the work items of one workspace under concurrent requests:  *)
(* CreateWorkItem, UpdateWorkItemStatus (a compare-and-set on the status   *)
(* the request read), UpdateWorkItem (a blind $set of other fields) and    *)
(* DeleteWorkItem.  An action is the code from one await to the next; only *)
(* the await of the audit log, which follows each write and swallows every *)
(* error, is part of the action that writes: no handler reads that log.    *)
(*                                                                         *)
(* A query of the repository turns the stored document into a WorkItem     *)
(* (toDomain), whose constructor validates it: a document whose priority   *)
(* is not LOW, MEDIUM or HIGH makes every query that meets it throw.       *)
(*                                                                         *)
(* Types, entities and documents, and what their deletion does to work     *)
(* items, are left to a module of their own; here their checks may refuse  *)
(* a request at any time.  The idempotency lookup in front of              *)
(* CreateWorkItem is not part of this module either.                       *)
(***************************************************************************)
CONSTANTS
  ItemIds,           \* _ids of work items (bound of the model)
  Requests,          \* HTTP requests; each is made at most once
  RequestedStatuses  \* the strings PATCH bodies carry in "status"

VARIABLES
  status,     \* the workitems collection: _id -> status
  priority,   \* the workitems collection: is the stored priority a known one
  pc,         \* the await each request is suspended at
  call,       \* the request itself
  seen,       \* the status of the item when the request read it
  outcome,    \* how each request ended
  wrote,      \* history: the status change a request made, <<from, to>>
  audit       \* the auditlogs collection, as a set

vars == <<status, priority, pc, call, seen, outcome, wrote, audit>>

SM == INSTANCE WorkItemStatus WITH ItemIds <- ItemIds, status <- status

Statuses == SM!Statuses
Priorities == {"known", "unknown"}

Creates == [op : {"create"}, priority : Priorities]
StatusChanges == [op : {"status"}, item : ItemIds, status : RequestedStatuses]
Updates == [op : {"update"}, item : ItemIds, priority : Priorities \cup {"none"}]
Deletes == [op : {"delete"}, item : ItemIds]
OnItem == StatusChanges \cup Updates \cup Deletes
NoCall == [op |-> "none"]
Nothing == <<>>

InFlight == {r \in Requests : pc[r] \notin {"new", "done"}}

Stored(i) == status[i] \in Statuses

\* findOne succeeds and toDomain does not throw.
Readable(i) == Stored(i) /\ priority[i] = "known"

\* Items of any status may be there already; the API has kept them readable.
Init ==
  /\ SM!Init
  /\ priority = [i \in ItemIds |-> "known"]
  /\ pc = [r \in Requests |-> "new"]
  /\ call = [r \in Requests |-> NoCall]
  /\ seen = [r \in Requests |-> "unborn"]
  /\ outcome = [r \in Requests |-> "none"]
  /\ wrote = [r \in Requests |-> Nothing]
  /\ audit = {}

-----------------------------------------------------------------------------

Goto(r, label) == pc' = [pc EXCEPT ![r] = label] /\ UNCHANGED outcome

Answer(r, how) ==
  /\ pc' = [pc EXCEPT ![r] = "done"]
  /\ outcome' = [outcome EXCEPT ![r] = how]

\* requireMember has let the request through (requireAdmin for a deletion).
\* CreateWorkItem: the type and the entity are looked up (404, 400) and
\* WorkItem.create validates the body, priority included.
BeginCreate(r, c) ==
  /\ pc[r] = "new"
  /\ call' = [call EXCEPT ![r] = c]
  /\ \/ c.priority = "known" /\ Goto(r, "insert")
     \/ Answer(r, "refused")
  /\ UNCHANGED <<status, priority, seen, wrote, audit>>

InsertItem(r) ==
  /\ pc[r] = "insert"
  /\ \E i \in ItemIds :
       /\ status[i] = "unborn"
       /\ status' = [status EXCEPT ![i] = "DRAFT"]
       /\ priority' = [priority EXCEPT ![i] = call[r].priority]
       /\ audit' \in {audit, audit \cup {<<"WORK_ITEM_CREATED", i>>}}
  /\ Goto(r, "present")
  /\ UNCHANGED <<call, seen, wrote>>

\* What the use case does with the item it has read: a status change is checked
\* against canTransitionTo; an update may still be refused for its other fields.
AcceptedIfDifferent(c, s) ==     \* (mutant) only "already in this status" is checked
  c.op = "status" => c.status # s
Accepted(c, s) ==
  c.op = "status" => c.status \in SM!Transitions(s)

WritePoint(c) ==
  CASE c.op = "status" -> "cas"
    [] c.op = "update" -> "set"
    [] c.op = "delete" -> "unlink"

\* (mutant) the document is not turned into a WorkItem.
BeginOnItemRaw(r, c) ==
  /\ pc[r] = "new"
  /\ call' = [call EXCEPT ![r] = c]
  /\ Stored(c.item)
  /\ seen' = [seen EXCEPT ![r] = status[c.item]]
  /\ Accepted(c, status[c.item]) /\ Goto(r, WritePoint(c))
  /\ UNCHANGED <<status, priority, wrote, audit>>

\* findById(id, workspaceId): 404 without a document, 400 when it does not
\* validate.
BeginOnItem(r, c) ==
  /\ pc[r] = "new"
  /\ call' = [call EXCEPT ![r] = c]
  /\ \/ /\ Readable(c.item)
        /\ seen' = [seen EXCEPT ![r] = status[c.item]]
        /\ \/ Accepted(c, status[c.item]) /\ Goto(r, WritePoint(c))
           \/ ~ Accepted(c, status[c.item]) /\ Answer(r, "refused")
           \/ c.op = "update" /\ Answer(r, "refused")
     \/ /\ ~ Readable(c.item)
        /\ Answer(r, IF Stored(c.item) THEN "refused" ELSE "notFound")
        /\ UNCHANGED seen
  /\ UNCHANGED <<status, priority, wrote, audit>>

Log(action, i) == audit' \in {audit, audit \cup {<<action, i>>}}

\* (mutant) findByIdAndUpdate: the current status is not part of the filter.
SetStatusBlindly(r) ==
  /\ pc[r] = "cas"
  /\ LET i == call[r].item
     IN IF Stored(i)
        THEN /\ status' = [status EXCEPT ![i] = call[r].status]
             /\ wrote' = [wrote EXCEPT ![r] = <<status[i], call[r].status>>]
             /\ Goto(r, "present")
             /\ Log("WORK_ITEM_STATUS_CHANGED", i)
        ELSE Answer(r, "conflict") /\ UNCHANGED <<status, wrote, audit>>
  /\ UNCHANGED <<priority, call, seen>>

\* (mutant) a status that has changed is answered like one that has not.
CompareAndSetIgnoringNull(r) ==
  /\ pc[r] = "cas"
  /\ LET i == call[r].item
     IN IF status[i] = seen[r]
        THEN /\ status' = [status EXCEPT ![i] = call[r].status]
             /\ wrote' = [wrote EXCEPT ![r] = <<seen[r], call[r].status>>]
        ELSE UNCHANGED <<status, wrote>>
  /\ Goto(r, "present")
  /\ UNCHANGED <<priority, call, seen, audit>>

\* updateStatus: findOneAndUpdate filtered by the status that was read; a miss
\* is a 409, for a deleted item too.  The updated document goes through
\* toDomain, so an unknown priority is a 400 although the status has changed,
\* and is not logged.
CompareAndSetStatus(r) ==
  /\ pc[r] = "cas"
  /\ LET i == call[r].item
     IN \/ /\ status[i] = seen[r]
           /\ status' = [status EXCEPT ![i] = call[r].status]
           /\ wrote' = [wrote EXCEPT ![r] = <<seen[r], call[r].status>>]
           /\ \/ priority[i] = "known" /\ Goto(r, "present")
                   /\ Log("WORK_ITEM_STATUS_CHANGED", i)
              \/ priority[i] = "unknown" /\ Answer(r, "refused") /\ UNCHANGED audit
        \/ /\ status[i] # seen[r]
           /\ Answer(r, "conflict")
           /\ UNCHANGED <<status, wrote, audit>>
  /\ UNCHANGED <<priority, call, seen>>

\* update: $set of the given fields, without runValidators; the same toDomain.
SetFields(r) ==
  /\ pc[r] = "set"
  /\ LET i == call[r].item
     IN \/ /\ Stored(i)
           /\ priority' = IF call[r].priority = "none" THEN priority
                          ELSE [priority EXCEPT ![i] = call[r].priority]
           /\ \/ priority'[i] = "known" /\ Goto(r, "present")
                   /\ Log("WORK_ITEM_UPDATED", i)
              \/ priority'[i] = "unknown" /\ Answer(r, "refused") /\ UNCHANGED audit
        \/ /\ ~ Stored(i)
           /\ Answer(r, "notFound")
           /\ UNCHANGED <<priority, audit>>
  /\ UNCHANGED <<status, call, seen, wrote>>

\* DeleteWorkItem deletes the links of the item before the item.
DeleteLinks(r) ==
  /\ pc[r] = "unlink"
  /\ Goto(r, "delete")
  /\ UNCHANGED <<status, priority, call, seen, wrote, audit>>

\* (mutant) a soft delete that a later compare-and-set can match again.
DeleteItemResets(r) ==
  /\ pc[r] = "delete"
  /\ status' = [status EXCEPT ![call[r].item] = "DRAFT"]
  /\ Log("WORK_ITEM_DELETED", call[r].item)
  /\ Answer(r, "ok")
  /\ UNCHANGED <<priority, call, seen, wrote>>

\* deleteOne, whose result nobody looks at; 204 after the audit log.
DeleteItem(r) ==
  /\ pc[r] = "delete"
  /\ status' = IF Stored(call[r].item) THEN [status EXCEPT ![call[r].item] = "deleted"]
               ELSE status
  /\ Log("WORK_ITEM_DELETED", call[r].item)
  /\ Answer(r, "ok")
  /\ UNCHANGED <<priority, call, seen, wrote>>

\* The controller looks the assignee up for the response: that can still fail,
\* after everything has been done.
Present(r) ==
  /\ pc[r] = "present"
  /\ Answer(r, "ok") \/ Answer(r, "error")
  /\ UNCHANGED <<status, priority, call, seen, wrote, audit>>

\* A database call rejects before it has an effect: 500.
DatabaseError(r) ==
  /\ r \in InFlight
  /\ Answer(r, "error")
  /\ UNCHANGED <<status, priority, call, seen, wrote, audit>>

\* The process dies: requests in flight are never answered.
Crash ==
  /\ pc' = [r \in Requests |-> IF r \in InFlight THEN "done" ELSE pc[r]]
  /\ UNCHANGED <<status, priority, call, seen, outcome, wrote, audit>>

Next ==
  \/ \E r \in Requests :
       \/ \E c \in Creates : BeginCreate(r, c)
       \/ \E c \in OnItem : BeginOnItem(r, c)
       \/ InsertItem(r) \/ CompareAndSetStatus(r) \/ SetFields(r)
       \/ DeleteLinks(r) \/ DeleteItem(r) \/ Present(r) \/ DatabaseError(r)
  \/ Crash

Spec == Init /\ [][Next]_vars

-----------------------------------------------------------------------------
(* Properties.                                                             *)

\* Every variable has the shape the code gives it; a status outside the enum is
\* never stored.
TypeOK ==
  /\ status \in [ItemIds -> Statuses \cup {"unborn", "deleted"}]
  /\ priority \in [ItemIds -> Priorities]
  /\ pc \in [Requests -> {"new", "insert", "cas", "set", "unlink", "delete",
                          "present", "done"}]
  /\ call \in [Requests -> Creates \cup OnItem \cup {NoCall}]
  /\ seen \in [Requests -> Statuses \cup {"unborn"}]
  /\ outcome \in [Requests -> {"none", "ok", "refused", "notFound", "conflict", "error"}]
  /\ wrote \in [Requests -> (Statuses \X Statuses) \cup {Nothing}]
  /\ audit \subseteq {"WORK_ITEM_CREATED", "WORK_ITEM_STATUS_CHANGED",
                      "WORK_ITEM_UPDATED", "WORK_ITEM_DELETED"} \X ItemIds

\* The status of every item follows the promised state machine: the check of the
\* transition and the write are apart, and the compare-and-set makes them one.
StatusMachine == SM!Spec

\* A 200 for a status change means that this request, and not somebody else's,
\* took the item from the status it read to the one it asked for; a 409 means
\* that it changed nothing.
StatusAnswersAreTrue ==
  \A r \in Requests :
    call[r].op = "status" =>
      /\ outcome[r] = "ok" => wrote[r] = <<seen[r], call[r].status>>
      /\ outcome[r] = "conflict" => wrote[r] = Nothing

\* Two requests that read the same status of an item do not both change it
\* unless a third change brought that status back in between.
NoLostUpdate ==
  \A r, q \in Requests :
    /\ r # q
    /\ wrote[r] # Nothing /\ wrote[q] # Nothing
    /\ call[r].item = call[q].item /\ seen[r] = seen[q]
    => \E p \in Requests \ {r, q} :
         wrote[p] # Nothing /\ call[p].item = call[r].item /\ wrote[p][2] = seen[r]

\* The audit log tells of a status change or a deletion only after it happened.
AuditTruthful ==
  \A i \in ItemIds :
    /\ <<"WORK_ITEM_STATUS_CHANGED", i>> \in audit =>
         \E r \in Requests : wrote[r] # Nothing /\ call[r].item = i
    /\ <<"WORK_ITEM_DELETED", i>> \in audit => status[i] = "deleted"

PastItsRead(r, i) == pc[r] \in {"set", "unlink", "delete"} /\ call[r].item = i

\* Nobody who read the item before its bad write is about to repair or delete it.
Stuck(i) == Stored(i) /\ ~ Readable(i) /\ \A r \in Requests : ~ PastItsRead(r, i)

\* An item whose stored priority is unknown cannot be repaired or deleted through
\* the API: once the requests that read it before are through, it stays so for
\* ever, and no later request gets past its own read.
UnreadableStaysSo == [][\A i \in ItemIds : Stuck(i) => Stuck(i)']_vars

\* WorkItem.ts:21, WorkItemModel.ts: the stored priority is one of LOW, MEDIUM
\* and HIGH.
StoredPriorityIsKnown == \A i \in ItemIds : Stored(i) => priority[i] = "known"
=============================================================================
