------------------------- MODULE WorkspaceMembership -------------------------
(***************************************************************************)
(* Who belongs to a workspace, and in which role.                          *)
(*                                                                         *)
(* Three HTTP handlers change the workspacemembers collection: invite a    *)
(* user (InviteUserToWorkspace), change a role (UpdateWorkspaceMember) and *)
(* remove a member (RemoveUserFromWorkspace).  Each is a chain of awaits - *)
(* requireAdmin, the idempotency lookup of the invite route, the reads of  *)
(* the use case, ONE single-document write, the audit log - and the event  *)
(* loop may run any other request between two awaits.  An action is the    *)
(* code from one await to the next, so a request carries what it has read  *)
(* (its pc and the role it saw) and acts on it later.                      *)
(*                                                                         *)
(* Workspaces and users are never deleted, so reading them cannot race.    *)
(* How a workspace gets its first owner is module Provisioning.            *)
(***************************************************************************)
EXTENDS Naturals, FiniteSets

CONSTANTS
  Users,           \* registered users
  Workspaces,      \* workspaces whose creation has finished
  DocIds,          \* how often a user can join a workspace: each membership
                   \* document gets an _id of its own (bound of the model)
  Requests,        \* HTTP requests; each is made at most once
  RequestedRoles   \* the strings request bodies carry in "role"

ASSUME FiniteUsers == IsFiniteSet(Users)
ASSUME FiniteDocIds == IsFiniteSet(DocIds)

Roles == {"OWNER", "ADMIN", "MEMBER", "VIEWER"}
AdminRoles == {"OWNER", "ADMIN"}

\* The _ids of membership documents.  The workspaceId and userId of a document
\* never change, so they are part of its identity here.
MemberIds == [ws : Workspaces, user : Users, doc : DocIds]

\* "unborn": no document with this _id yet; "removed": it has been deleted.
RoleStates == Roles \cup {"unborn", "removed"}

Invites == [op : {"invite"}, ws : Workspaces, actor : Users,
            user : Users, role : RequestedRoles]
Updates == [op : {"update"}, ws : Workspaces, actor : Users,
            target : MemberIds, role : RequestedRoles]
Removes == [op : {"remove"}, ws : Workspaces, actor : Users, target : MemberIds]
NoCall == [op |-> "none"]

AuditActions == {"WORKSPACE_MEMBER_INVITED", "WORKSPACE_MEMBER_ROLE_UPDATED",
                 "WORKSPACE_MEMBER_REMOVED"}

VARIABLES
  role,       \* the workspacemembers collection: _id -> role
  pc,         \* pc[r]: the await request r is suspended at
  call,       \* call[r]: the request itself
  seen,       \* seen[r]: role of the target when the use case read it
  target,     \* target[r]: document to change, or the one just created
  audit,      \* the auditlogs collection, as a set
  cached,     \* fingerprints of invites whose 201 response is cached
  caching,    \* fingerprints whose IdempotencyModel.create is not awaited
  overtaken   \* history: requests in flight when another one changed or
              \* removed a membership of the same workspace

vars == <<role, pc, call, seen, target, audit, cached, caching, overtaken>>

-----------------------------------------------------------------------------
(* The collection as the queries of the repository see it.                 *)

Live(m) == role[m] \in Roles

\* findByWorkspaceIdAndUserId with a test of the role (requireRole).
HasRole(u, w, allowed) ==
  \E m \in MemberIds : m.ws = w /\ m.user = u /\ role[m] \in allowed

\* countByRole(w, "OWNER") counts this set.
Owners(w) == {m \in MemberIds : m.ws = w /\ role[m] = "OWNER"}

HasOwner(w) == Owners(w) # {}

InFlight == {r \in Requests : pc[r] \notin {"new", "done"}}

-----------------------------------------------------------------------------
(* Any membership that a history of requests can leave: one document per   *)
(* user and workspace, and an owner of every workspace.                    *)

OneMembership(u, w) ==
  \A m, n \in MemberIds :
    (m.ws = w /\ n.ws = w /\ m.user = u /\ n.user = u /\ Live(m) /\ Live(n)) => m = n

Init ==
  /\ role \in [MemberIds -> Roles \cup {"unborn"}]
  /\ \A w \in Workspaces : HasOwner(w) /\ \A u \in Users : OneMembership(u, w)
  /\ pc = [r \in Requests |-> "new"]
  /\ call = [r \in Requests |-> NoCall]
  /\ seen = [r \in Requests |-> "unborn"]
  /\ target = [r \in Requests |-> NoCall]
  /\ audit = {}
  /\ cached = {}
  /\ caching = {}
  /\ overtaken = {}

-----------------------------------------------------------------------------
(* Middleware.                                                             *)

\* The request is answered; what it held in memory is gone.
Finish(r) ==
  /\ pc' = [pc EXCEPT ![r] = "done"]
  /\ call' = [call EXCEPT ![r] = NoCall]
  /\ seen' = [seen EXCEPT ![r] = "unborn"]
  /\ target' = [target EXCEPT ![r] = NoCall]
  /\ overtaken' = overtaken \ {r}

Goto(r, label) == pc' = [pc EXCEPT ![r] = label]

\* (mutant) any member is let through.
RequireMember(r) ==
  /\ pc[r] = "new"
  /\ \/ \E c \in Invites :
          /\ HasRole(c.actor, c.ws, Roles)
          /\ call' = [call EXCEPT ![r] = c]
          /\ Goto(r, "lookup")
          /\ UNCHANGED target
     \/ \E c \in Updates \cup Removes :
          /\ HasRole(c.actor, c.ws, Roles)
          /\ role[c.target] # "unborn"
          /\ call' = [call EXCEPT ![r] = c]
          /\ target' = [target EXCEPT ![r] = c.target]
          /\ Goto(r, "find")
  /\ UNCHANGED <<role, seen, audit, cached, caching, overtaken>>

\* authMiddleware and requireAdmin let the request through; a request they
\* refuse (401, 403) is answered without touching any state.
RequireAdmin(r) ==
  /\ pc[r] = "new"
  /\ \/ \E c \in Invites :
          /\ HasRole(c.actor, c.ws, AdminRoles)
          /\ call' = [call EXCEPT ![r] = c]
          /\ Goto(r, "lookup")
          /\ UNCHANGED target
     \/ \E c \in Updates \cup Removes :
          /\ HasRole(c.actor, c.ws, AdminRoles)
          /\ role[c.target] # "unborn"
          /\ call' = [call EXCEPT ![r] = c]
          /\ target' = [target EXCEPT ![r] = c.target]
          /\ Goto(r, "find")
  /\ UNCHANGED <<role, seen, audit, cached, caching, overtaken>>

\* idempotencyMiddleware finds the fingerprint and replays the response.
ReplayCached(r) ==
  /\ pc[r] = "lookup"
  /\ call[r] \in cached
  /\ Finish(r)
  /\ UNCHANGED <<role, audit, cached, caching>>

\* No cached response, or the lookup failed and the request is let through:
\* the use case runs up to its write.  An invalid role, and an e-mail address
\* nobody registered, are refused.
BeginInvite(r) ==
  /\ pc[r] = "lookup"
  /\ \/ call[r].role \in Roles /\ Goto(r, "create")
        /\ UNCHANGED <<call, seen, target, overtaken>>
     \/ Finish(r)
  /\ UNCHANGED <<role, audit, cached, caching>>

-----------------------------------------------------------------------------
(* The write of each use case.                                             *)

\* (mutant) no unique index.
CreateMembershipNoIndex(r) ==
  /\ pc[r] = "create"
  /\ \E m \in MemberIds :
       /\ m.ws = call[r].ws /\ m.user = call[r].user /\ role[m] = "unborn"
       /\ role' = [role EXCEPT ![m] = call[r].role]
       /\ target' = [target EXCEPT ![r] = m]
  /\ Goto(r, "audit")
  /\ UNCHANGED <<call, seen, overtaken, audit, cached, caching>>

\* workspaceMemberRepo.create under the unique index (workspaceId, userId).
\* A duplicate key is a 400.
CreateMembership(r) ==
  /\ pc[r] = "create"
  /\ LET w == call[r].ws
         u == call[r].user
     IN \/ /\ ~ HasRole(u, w, Roles)
           /\ \E m \in MemberIds :
                /\ m.ws = w /\ m.user = u /\ role[m] = "unborn"
                /\ role' = [role EXCEPT ![m] = call[r].role]
                /\ target' = [target EXCEPT ![r] = m]
           /\ Goto(r, "audit")
           /\ UNCHANGED <<call, seen, overtaken>>
        \/ /\ HasRole(u, w, Roles)
           /\ Finish(r)
           /\ UNCHANGED role
  /\ UNCHANGED <<audit, cached, caching>>

\* The memberId is looked up among the members of the workspace (404 if it is
\* not there).  An OWNER who would stop being one is counted first.
NewRole(c) == IF c.op = "remove" THEN "removed" ELSE c.role

TakesOwnership(c, seenRole) == seenRole = "OWNER" /\ NewRole(c) # "OWNER"

AcceptAnyRole(c) == TRUE     \* (mutant) the new role is not validated
AcceptedRole(c) == c.op = "remove" \/ NewRole(c) \in Roles

InWorkspace(m, w) == m.ws = w /\ Live(m)

FindMember(r) ==
  /\ pc[r] = "find"
  /\ \/ /\ InWorkspace(target[r], call[r].ws)
        /\ seen' = [seen EXCEPT ![r] = role[target[r]]]
        /\ \/ /\ TakesOwnership(call[r], role[target[r]])
              /\ Goto(r, "count")
           \/ /\ ~ TakesOwnership(call[r], role[target[r]])
              /\ AcceptedRole(call[r])
              /\ Goto(r, "write")
        /\ UNCHANGED <<call, target, overtaken>>
     \/ /\ \/ ~ InWorkspace(target[r], call[r].ws)
           \/ /\ ~ TakesOwnership(call[r], role[target[r]])
              /\ ~ AcceptedRole(call[r])
        /\ Finish(r)
  /\ UNCHANGED <<role, audit, cached, caching>>

\* (mutant) refuses only when no owner at all is counted.
CountOwnersOffByOne(r) ==
  /\ pc[r] = "count"
  /\ Cardinality(Owners(call[r].ws)) > 0
  /\ AcceptedRole(call[r])
  /\ Goto(r, "write")
  /\ UNCHANGED <<role, call, seen, target, overtaken, audit, cached, caching>>

\* countByRole, the last-owner check and the validation of the new role.
CountOwners(r) ==
  /\ pc[r] = "count"
  /\ \/ /\ Cardinality(Owners(call[r].ws)) > 1
        /\ AcceptedRole(call[r])
        /\ Goto(r, "write")
        /\ UNCHANGED <<call, seen, target, overtaken>>
     \/ /\ \/ Cardinality(Owners(call[r].ws)) <= 1
           \/ ~ AcceptedRole(call[r])
        /\ Finish(r)
  /\ UNCHANGED <<role, audit, cached, caching>>

\* A write that changes something overtakes every other request in flight on
\* the workspace.
Overtake(r) ==
  overtaken' = IF role' = role THEN overtaken
               ELSE overtaken \cup
                      {q \in InFlight \ {r} : call[q].ws = call[r].ws}

\* (mutant) an upsert.
WriteRoleUpsert(r) ==
  /\ pc[r] = "write"
  /\ call[r].op = "update"
  /\ role' = [role EXCEPT ![target[r]] = call[r].role]
  /\ Overtake(r)
  /\ Goto(r, "audit")
  /\ UNCHANGED <<call, seen, target, audit, cached, caching>>

\* findByIdAndUpdate: by _id alone, whatever has become of the document.
WriteRole(r) ==
  /\ pc[r] = "write"
  /\ call[r].op = "update"
  /\ \/ /\ Live(target[r])
        /\ role' = [role EXCEPT ![target[r]] = call[r].role]
        /\ Overtake(r)
        /\ Goto(r, "audit")
        /\ UNCHANGED <<call, seen, target>>
     \/ /\ ~ Live(target[r])
        /\ Finish(r)
        /\ UNCHANGED role
  /\ UNCHANGED <<audit, cached, caching>>

\* (mutant) deletes only a member whose role is still the one read.
DeleteMemberIfUnchanged(r) ==
  /\ pc[r] = "write"
  /\ call[r].op = "remove"
  /\ role' = IF role[target[r]] = seen[r] THEN [role EXCEPT ![target[r]] = "removed"]
              ELSE role
  /\ Overtake(r)
  /\ Goto(r, "audit")
  /\ UNCHANGED <<call, seen, target, audit, cached, caching>>

\* findByIdAndDelete: no error when the document is already gone.
DeleteMember(r) ==
  /\ pc[r] = "write"
  /\ call[r].op = "remove"
  /\ role' = [role EXCEPT ![target[r]] = "removed"]
  /\ Overtake(r)
  /\ Goto(r, "audit")
  /\ UNCHANGED <<call, seen, target, audit, cached, caching>>

-----------------------------------------------------------------------------
(* After the write: the awaited audit log, which swallows every error, and *)
(* the response, which the invite route also caches without awaiting it.   *)

AuditAction(c) ==
  CASE c.op = "invite" -> "WORKSPACE_MEMBER_INVITED"
    [] c.op = "update" -> "WORKSPACE_MEMBER_ROLE_UPDATED"
    [] c.op = "remove" -> "WORKSPACE_MEMBER_REMOVED"

RecordAudit(r) ==
  audit' = audit \cup {[action |-> AuditAction(call[r]), on |-> target[r]]}

StartCaching(r) ==
  IF call[r].op = "invite" THEN caching' = caching \cup {call[r]}
                           ELSE UNCHANGED caching

LogAndRespond(r) ==
  /\ pc[r] = "audit"
  /\ RecordAudit(r) \/ UNCHANGED audit
  /\ StartCaching(r)
  /\ Finish(r)
  /\ UNCHANGED <<role, cached>>

\* IdempotencyModel.create settles: stored, or its error is swallowed.
SettleCaching(k) ==
  /\ k \in caching
  /\ caching' = caching \ {k}
  /\ cached' = cached \cup {k} \/ UNCHANGED cached
  /\ UNCHANGED <<role, pc, call, seen, target, audit, overtaken>>

\* The TTL index removes the cached response after 24 hours.
ExpireCached(k) ==
  /\ k \in cached
  /\ cached' = cached \ {k}
  /\ UNCHANGED <<role, pc, call, seen, target, audit, caching, overtaken>>

\* A database call rejects: the error middleware answers and nothing that the
\* request has already written is undone.
DatabaseError(r) ==
  /\ r \in InFlight
  /\ pc[r] # "audit"
  /\ Finish(r)
  /\ UNCHANGED <<role, audit, cached, caching>>

\* The process dies: requests in flight are lost, the database stays.
Crash ==
  /\ pc' = [r \in Requests |-> IF r \in InFlight THEN "done" ELSE pc[r]]
  /\ call' = [r \in Requests |-> NoCall]
  /\ seen' = [r \in Requests |-> "unborn"]
  /\ target' = [r \in Requests |-> NoCall]
  /\ caching' = {}
  /\ overtaken' = {}
  /\ UNCHANGED <<role, audit, cached>>

Step(r) ==
  \/ RequireAdmin(r) \/ ReplayCached(r) \/ BeginInvite(r)
  \/ CreateMembership(r) \/ FindMember(r) \/ CountOwners(r)
  \/ WriteRole(r) \/ DeleteMember(r) \/ LogAndRespond(r)
  \/ DatabaseError(r)

Next ==
  \/ \E r \in Requests : Step(r)
  \/ \E k \in Invites : SettleCaching(k) \/ ExpireCached(k)
  \/ Crash

Spec == Init /\ [][Next]_vars

-----------------------------------------------------------------------------
(* Properties.                                                             *)

\* What a request holds at each await.
HoldsItsCall(r) ==
  /\ pc[r] \in {"new", "done"} => call[r] = NoCall
  /\ pc[r] \in {"lookup", "create"} => call[r] \in Invites
  /\ pc[r] \in {"find", "count", "write"} => call[r] \in Updates \cup Removes
  /\ pc[r] = "audit" => call[r] \in Invites \cup Updates \cup Removes
  /\ pc[r] \in {"find", "count", "write", "audit"} => target[r] \in MemberIds

\* Every variable has the shape the code gives it.  A role that no request may
\* set ("GUEST", say) never reaches the collection: WorkspaceMember and the
\* validRoles tests of the use cases keep it out.
TypeOK ==
  /\ role \in [MemberIds -> RoleStates]
  /\ pc \in [Requests -> {"new", "lookup", "create", "find", "count", "write",
                          "audit", "done"}]
  /\ call \in [Requests -> Invites \cup Updates \cup Removes \cup {NoCall}]
  /\ seen \in [Requests -> RoleStates]
  /\ target \in [Requests -> MemberIds \cup {NoCall}]
  /\ \A r \in Requests : HoldsItsCall(r)
  /\ audit \subseteq [action : AuditActions, on : MemberIds]
  /\ cached \subseteq Invites
  /\ caching \subseteq Invites
  /\ overtaken \subseteq InFlight

\* However invites interleave, a user has at most one membership of a workspace:
\* InviteUserToWorkspace relies on the unique index and makes no check itself.
OneMembershipPerUser ==
  \A w \in Workspaces, u \in Users : OneMembership(u, w)

\* The audit log never reports a removal of somebody who is still a member, and
\* never names a membership that was not created: the use cases log after the
\* write, and a removal of a document already gone is logged again.
AuditTruthful ==
  \A e \in audit :
    /\ role[e.on] # "unborn"
    /\ e.action = "WORKSPACE_MEMBER_REMOVED" => role[e.on] = "removed"

\* The last-owner check protects a workspace from every sequence of requests
\* that do not overlap: a workspace loses its last owner only through the write
\* of a request that another change of a membership has overtaken since its
\* reads.
LastOwnerLostOnlyWhenOvertaken ==
  [][\A w \in Workspaces :
       HasOwner(w) /\ ~ HasOwner(w)' =>
         \E r \in overtaken : call[r].ws = w /\ pc[r] = "write"]_vars

\* requireAdmin ("OWNER + ADMIN", docs/HLD.md:335; "ADMIN+", README.md:268-271) runs
\* long before the write it guards.  Every change of a membership is the write of
\* a request on that workspace whose actor is an OWNER or ADMIN of it at that
\* moment, unless the request was overtaken.  That is the rule of the routes, not
\* the narrower ones of docs/LLD_STATE_MACHINES.md:169-176,196 (only an OWNER makes
\* or unmakes an ADMIN) and docs/USE_CASE_DIAGRAM.md:176 (only an OWNER changes
\* roles), which nothing in the code enforces.
ChangesAreAuthorised ==
  [][\A m \in MemberIds :
       role'[m] # role[m] =>
         \E r \in InFlight :
           /\ pc[r] \in {"create", "write"} /\ pc'[r] = "audit"
           /\ call[r].ws = m.ws
           /\ HasRole(call[r].actor, m.ws, AdminRoles) \/ r \in overtaken]_vars

\* A removal is final: a role change that read the member before the removal
\* does not bring the document back (findByIdAndUpdate never inserts).
RemovalIsFinal ==
  [][\A m \in MemberIds : role[m] = "removed" => role'[m] = "removed"]_vars

\* RemoveUserFromWorkspace.ts and UpdateWorkspaceMember.ts: "Validates that
\* there's always at least one OWNER", and the count "prevents the race where
\* two concurrent removals both see 2 owners and both proceed".
AlwaysAnOwner == \A w \in Workspaces : HasOwner(w)
=============================================================================
