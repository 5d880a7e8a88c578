----------------------------- MODULE Provisioning -----------------------------
(***************************************************************************)
(* How users, tenants and workspaces come into being: SignupUser (user,    *)
(* tenant, default workspace, OWNER membership) and CreateWorkspace        *)
(* (workspace, OWNER membership).  Each is a sequence of single inserts,   *)
(* not a transaction, so a database error or a crash between two of them   *)
(* leaves the earlier ones behind.                                         *)
(*                                                                         *)
(* Every document is named after the request that inserts it: the user,    *)
(* tenant and workspace that signup r creates are all called r.            *)
(***************************************************************************)
CONSTANTS
  Emails,     \* e-mail addresses, already lower-cased as UserModel stores them
  Requests    \* HTTP requests; each is made at most once

VARIABLES
  users,       \* requests whose user document is stored
  tenants,     \* requests whose tenant document is stored
  workspaces,  \* requests whose workspace document is stored
  owners,      \* OWNER memberships, as [ws, user]
  audit,       \* workspaces whose WORKSPACE_CREATED record is stored
  pc,          \* the await each request is suspended at
  call,        \* the request itself
  outcome      \* how each request ended

vars == <<users, tenants, workspaces, owners, audit, pc, call, outcome>>

Signups == [op : {"signup"}, email : Emails]
Creations == [op : {"create"}, actor : Requests, tenant : Requests]
NoCall == [op |-> "none"]

InFlight == {r \in Requests : pc[r] \notin {"new", "done"}}

\* findByEmail
Registered(e) == \E u \in users : call[u].email = e

OwnerOf(r) == IF call[r].op = "signup" THEN r ELSE call[r].actor

HasOwner(w) == \E o \in owners : o.ws = w

Init ==
  /\ users = {} /\ tenants = {} /\ workspaces = {} /\ owners = {} /\ audit = {}
  /\ pc = [r \in Requests |-> "new"]
  /\ call = [r \in Requests |-> NoCall]
  /\ outcome = [r \in Requests |-> "none"]

-----------------------------------------------------------------------------

Goto(r, label) == pc' = [pc EXCEPT ![r] = label] /\ UNCHANGED outcome

End(r, how) ==
  /\ pc' = [pc EXCEPT ![r] = "done"]
  /\ outcome' = [outcome EXCEPT ![r] = how]

\* POST /auth/signup: an e-mail already registered is a 400; otherwise the
\* password is hashed, which takes a while.
BeginSignup(r, e) ==
  /\ pc[r] = "new"
  /\ call' = [call EXCEPT ![r] = [op |-> "signup", email |-> e]]
  /\ IF Registered(e) THEN End(r, "refused") ELSE Goto(r, "user")
  /\ UNCHANGED <<users, tenants, workspaces, owners, audit>>

\* (mutant) no unique index on the e-mail.
SaveUserNoIndex(r) ==
  /\ pc[r] = "user"
  /\ users' = users \cup {r}
  /\ Goto(r, "tenant")
  /\ UNCHANGED <<tenants, workspaces, owners, audit, call>>

\* userRepo.save under the unique index on email: a signup that lost the race
\* gets the duplicate-key error, a 500.
SaveUser(r) ==
  /\ pc[r] = "user"
  /\ \/ /\ ~ Registered(call[r].email)
        /\ users' = users \cup {r}
        /\ Goto(r, "tenant")
     \/ /\ Registered(call[r].email)
        /\ End(r, "failed")
        /\ UNCHANGED users
  /\ UNCHANGED <<tenants, workspaces, owners, audit, call>>

CreateTenant(r) ==
  /\ pc[r] = "tenant"
  /\ tenants' = tenants \cup {r}
  /\ Goto(r, "workspace")
  /\ UNCHANGED <<users, workspaces, owners, audit, call>>

\* POST /workspaces by any user who holds a token: after signup or login, so
\* also one whose signup did not finish.  The tenant must exist (404); nothing
\* asks whose tenant it is.
BeginCreateWorkspace(r, u, t) ==
  /\ pc[r] = "new"
  /\ u \in users
  /\ call' = [call EXCEPT ![r] = [op |-> "create", actor |-> u, tenant |-> t]]
  /\ IF t \in tenants THEN Goto(r, "workspace") ELSE End(r, "refused")
  /\ UNCHANGED <<users, tenants, workspaces, owners, audit>>

CreateWorkspaceDoc(r) ==
  /\ pc[r] = "workspace"
  /\ workspaces' = workspaces \cup {r}
  /\ Goto(r, "owner")
  /\ UNCHANGED <<users, tenants, owners, audit, call>>

\* The OWNER membership; a signup is then answered 201 (no audit record).
AddOwner(r) ==
  /\ pc[r] = "owner"
  /\ owners' = owners \cup {[ws |-> r, user |-> OwnerOf(r)]}
  /\ IF call[r].op = "signup" THEN End(r, "ok") ELSE Goto(r, "audit")
  /\ UNCHANGED <<users, tenants, workspaces, audit, call>>

\* CreateWorkspace logs, and swallows the error when that fails.
LogAndRespond(r) ==
  /\ pc[r] = "audit"
  /\ audit' = audit \cup {r} \/ UNCHANGED audit
  /\ End(r, "ok")
  /\ UNCHANGED <<users, tenants, workspaces, owners, call>>

\* (mutant) a catch block answers as if nothing had happened.
DatabaseErrorSwallowed(r) ==
  /\ r \in InFlight /\ pc[r] # "audit"
  /\ End(r, "ok")
  /\ UNCHANGED <<users, tenants, workspaces, owners, audit, call>>

\* A database call rejects: 500, and nothing is rolled back.
DatabaseError(r) ==
  /\ r \in InFlight /\ pc[r] # "audit"
  /\ End(r, "failed")
  /\ UNCHANGED <<users, tenants, workspaces, owners, audit, call>>

\* The process dies.
Crash ==
  /\ pc' = [r \in Requests |-> IF r \in InFlight THEN "done" ELSE pc[r]]
  /\ outcome' = [r \in Requests |-> IF r \in InFlight THEN "lost" ELSE outcome[r]]
  /\ UNCHANGED <<users, tenants, workspaces, owners, audit, call>>

Next ==
  \/ \E r \in Requests :
       \/ \E e \in Emails : BeginSignup(r, e)
       \/ \E u, t \in Requests : BeginCreateWorkspace(r, u, t)
       \/ SaveUser(r) \/ CreateTenant(r) \/ CreateWorkspaceDoc(r) \/ AddOwner(r)
       \/ LogAndRespond(r) \/ DatabaseError(r)
  \/ Crash

Spec == Init /\ [][Next]_vars

-----------------------------------------------------------------------------
(* Properties.                                                             *)

\* Every variable has the shape the code gives it.
TypeOK ==
  /\ users \subseteq Requests /\ tenants \subseteq Requests
  /\ workspaces \subseteq Requests /\ audit \subseteq workspaces
  /\ owners \subseteq [ws : workspaces, user : users]
  /\ pc \in [Requests -> {"new", "user", "tenant", "workspace", "owner", "audit", "done"}]
  /\ call \in [Requests -> Signups \cup Creations \cup {NoCall}]
  /\ outcome \in [Requests -> {"none", "ok", "refused", "failed", "lost"}]

\* SignupUser looks the e-mail up, hashes for a while and inserts: whatever other
\* signups do meanwhile, an e-mail never gets two users.
OneUserPerEmail ==
  \A u, v \in users : call[u].email = call[v].email => u = v

\* A request answered 201 has left the whole of its work behind: the workspace
\* with its creator as OWNER, and for a signup the user and the tenant.
SuccessIsComplete ==
  \A r \in Requests : outcome[r] = "ok" =>
    /\ r \in workspaces
    /\ [ws |-> r, user |-> OwnerOf(r)] \in owners
    /\ call[r].op = "signup" => r \in users /\ r \in tenants

Stranded(e) ==
  \E u \in users : call[u].email = e /\ outcome[u] \in {"failed", "lost"}

\* Signup cannot be retried: once a signup has been interrupted after inserting
\* its user, no signup with that e-mail address is ever answered 201 (the
\* account exists, but not the default workspace).
StrandedForever ==
  [][\A e \in Emails : Stranded(e) =>
       \A r \in Requests : (outcome'[r] = "ok" /\ outcome[r] # "ok") =>
                             call[r] # [op |-> "signup", email |-> e]]_vars

\* docs/ADR/ADR-005-mongodb-replica-set-transactions.md: "Create workspace"
\* writes the workspace and its owner atomically, "no partial state possible": no
\* request that has ended leaves a workspace without an owner.
NoPartialWorkspace ==
  \A w \in workspaces : pc[w] = "done" => HasOwner(w)
=============================================================================
