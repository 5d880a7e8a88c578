-------------------------- MODULE ProvisioningProofs --------------------------
(***************************************************************************)
(* Proofs about Provisioning for any e-mail addresses and requests.        *)
(***************************************************************************)
EXTENDS Provisioning, TLAPS

\* What has been stored when a request is suspended at an await.
Progress ==
  \A r \in Requests :
    /\ pc[r] = "new" <=> call[r] = NoCall
    /\ pc[r] = "done" <=> outcome[r] # "none"
    /\ pc[r] \in {"user", "tenant"} => call[r] \in Signups
    /\ pc[r] = "audit" => call[r] \in Creations /\ [ws |-> r, user |-> OwnerOf(r)] \in owners
    /\ pc[r] \in {"owner", "audit"} => r \in workspaces
    /\ pc[r] \in {"workspace", "owner"} /\ call[r] \in Signups => r \in tenants
    /\ pc[r] \in {"tenant", "workspace", "owner"} /\ call[r] \in Signups => r \in users
    /\ call[r] \in Creations => call[r].actor \in users
    /\ r \in users => call[r] \in Signups /\ pc[r] # "user"

IInv == TypeOK /\ Progress /\ OneUserPerEmail /\ SuccessIsComplete

-----------------------------------------------------------------------------

LEMMA CallKinds ==
  /\ \A c \in Signups : c.op = "signup" /\ c.email \in Emails /\ c = [op |-> "signup", email |-> c.email]
  /\ \A c \in Creations : c.op = "create" /\ c.actor \in Requests
  /\ NoCall.op = "none"
  BY DEF Signups, Creations, NoCall

LEMMA InitIInv == Init => IInv
  BY CallKinds DEF Init, IInv, TypeOK, Progress, OneUserPerEmail, SuccessIsComplete

\* A request that is new starts: nothing is stored yet.
LEMMA BeginKeepsIInv ==
  ASSUME IInv, NEW r \in Requests, NEW k \in Signups \cup Creations,
         pc[r] = "new", call' = [call EXCEPT ![r] = k],
         k \in Creations => k.actor \in users,
         \/ End(r, "refused")
         \/ Goto(r, IF k \in Signups THEN "user" ELSE "workspace"),
         UNCHANGED <<users, tenants, workspaces, owners, audit>>
  PROVE  IInv'
  <1> USE DEF IInv, Goto, End
  <1>0. call[r] = NoCall /\ r \notin users /\ outcome[r] = "none" /\ k # NoCall
    <2>1. NoCall \notin Signups /\ k # NoCall
      BY CallKinds
    <2>2. Progress
      OBVIOUS
    <2>3. call[r] = NoCall /\ outcome[r] = "none"
      BY <2>2 DEF Progress
    <2>4. r \in users => call[r] \in Signups
      BY <2>2 DEF Progress
    <2> QED BY <2>1, <2>3, <2>4
  <1>1. TypeOK'
    BY DEF TypeOK
  <1>2. Progress'
    <2>1. ASSUME NEW q \in Requests, q # r
          PROVE  pc'[q] = pc[q] /\ call'[q] = call[q] /\ outcome'[q] = outcome[q] /\ OwnerOf(q)' = OwnerOf(q)
      BY <2>1 DEF TypeOK, OwnerOf
    <2>2. call'[r] = k /\ pc'[r] \in {"done", IF k \in Signups THEN "user" ELSE "workspace"}
          /\ (pc'[r] = "done" <=> outcome'[r] # "none")
      BY <1>0 DEF TypeOK
    <2> QED BY <1>0, <2>1, <2>2, CallKinds DEF Progress
  <1>3. OneUserPerEmail' /\ SuccessIsComplete'
    BY <1>0, CallKinds DEF TypeOK, OneUserPerEmail, SuccessIsComplete, OwnerOf
  <1> QED BY <1>1, <1>2, <1>3

LEMMA SaveUserKeepsIInv ==
  ASSUME IInv, NEW r \in Requests, SaveUser(r)
  PROVE  IInv'
  <1> USE DEF IInv, SaveUser, Goto, End
  <1>0. call[r] \in Signups /\ r \notin users /\ outcome[r] = "none"
    BY DEF Progress
  <1>1. TypeOK'
    BY DEF TypeOK
  <1>2. Progress'
    BY <1>0, CallKinds DEF TypeOK, Progress, OwnerOf
  <1>3. OneUserPerEmail'
    BY <1>0 DEF TypeOK, OneUserPerEmail, Registered
  <1>4. SuccessIsComplete'
    BY DEF TypeOK, SuccessIsComplete, OwnerOf
  <1> QED BY <1>1, <1>2, <1>3, <1>4

LEMMA CreateTenantKeepsIInv ==
  ASSUME IInv, NEW r \in Requests, CreateTenant(r)
  PROVE  IInv'
  <1> USE DEF IInv, CreateTenant, Goto
  <1>1. TypeOK'
    BY DEF TypeOK
  <1>2. Progress'
    BY CallKinds DEF TypeOK, Progress, OwnerOf
  <1> QED BY <1>1, <1>2 DEF TypeOK, OneUserPerEmail, SuccessIsComplete, OwnerOf

LEMMA CreateWorkspaceDocKeepsIInv ==
  ASSUME IInv, NEW r \in Requests, CreateWorkspaceDoc(r)
  PROVE  IInv'
  <1> USE DEF IInv, CreateWorkspaceDoc, Goto
  <1>1. TypeOK'
    BY DEF TypeOK
  <1>2. Progress'
    BY CallKinds DEF TypeOK, Progress, OwnerOf
  <1> QED BY <1>1, <1>2 DEF TypeOK, OneUserPerEmail, SuccessIsComplete, OwnerOf

LEMMA AddOwnerKeepsIInv ==
  ASSUME IInv, NEW r \in Requests, AddOwner(r)
  PROVE  IInv'
  <1> USE DEF IInv, AddOwner, Goto, End
  <1>0. /\ r \in workspaces /\ call[r] \in Signups \cup Creations /\ OwnerOf(r) \in users
        /\ call[r].op = "signup" <=> call[r] \in Signups
    <2>1. r \in workspaces /\ call[r] \in Signups \cup Creations
      BY DEF TypeOK, Progress
    <2>2. CASE call[r] \in Signups
      BY <2>1, <2>2, CallKinds DEF Progress, OwnerOf
    <2>3. CASE call[r] \in Creations
      BY <2>1, <2>3, CallKinds DEF Progress, OwnerOf
    <2> QED BY <2>1, <2>2, <2>3
  <1>1. TypeOK'
    BY <1>0 DEF TypeOK
  <1>2. Progress'
    BY <1>0, CallKinds DEF TypeOK, Progress, OwnerOf
  <1>3. SuccessIsComplete'
    BY <1>0 DEF TypeOK, Progress, SuccessIsComplete, OwnerOf
  <1> QED BY <1>1, <1>2, <1>3 DEF OneUserPerEmail

LEMMA LogAndRespondKeepsIInv ==
  ASSUME IInv, NEW r \in Requests, LogAndRespond(r)
  PROVE  IInv'
  <1> USE DEF IInv, LogAndRespond, End
  <1>1. TypeOK'
    BY DEF TypeOK, Progress
  <1>2. Progress'
    BY DEF TypeOK, Progress, OwnerOf
  <1>3. SuccessIsComplete'
    BY CallKinds DEF TypeOK, Progress, SuccessIsComplete, OwnerOf
  <1> QED BY <1>1, <1>2, <1>3 DEF OneUserPerEmail

\* Requests that fail or are lost leave what is stored as it is.
LEMMA InterruptionKeepsIInv ==
  ASSUME IInv, (\E r \in Requests : DatabaseError(r)) \/ Crash
  PROVE  IInv'
  <1> USE DEF IInv
  <1>1. /\ UNCHANGED <<users, tenants, workspaces, owners, audit, call>>
        /\ \A q \in Requests : \/ pc'[q] = pc[q] /\ outcome'[q] = outcome[q]
                               \/ /\ pc[q] \notin {"new", "done"} /\ pc'[q] = "done"
                                  /\ outcome'[q] \in {"failed", "lost"}
        /\ pc' \in [Requests -> {"new", "user", "tenant", "workspace", "owner", "audit", "done"}]
        /\ outcome' \in [Requests -> {"none", "ok", "refused", "failed", "lost"}]
    BY DEF TypeOK, DatabaseError, Crash, End, InFlight
  <1>2. TypeOK'
    BY <1>1 DEF TypeOK
  <1>3. Progress'
    BY <1>1 DEF TypeOK, Progress, OwnerOf
  <1> QED BY <1>1, <1>2, <1>3 DEF TypeOK, OneUserPerEmail, SuccessIsComplete, OwnerOf

LEMMA NextKeepsIInv == IInv /\ [Next]_vars => IInv'
  <1> SUFFICES ASSUME IInv, [Next]_vars PROVE IInv'
    OBVIOUS
  <1>1. ASSUME NEW r \in Requests, NEW e \in Emails, BeginSignup(r, e) PROVE IInv'
    <2> DEFINE k == [op |-> "signup", email |-> e]
    <2>1. k \in Signups /\ k \notin Creations
      BY CallKinds DEF Signups
    <2> QED BY <1>1, <2>1, BeginKeepsIInv DEF BeginSignup
  <1>2. ASSUME NEW r \in Requests, NEW u \in Requests, NEW t \in Requests, BeginCreateWorkspace(r, u, t)
        PROVE  IInv'
    <2> DEFINE k == [op |-> "create", actor |-> u, tenant |-> t]
    <2>1. k \in Creations /\ k \notin Signups /\ k.actor = u
      BY CallKinds DEF Creations
    <2> QED BY <1>2, <2>1, BeginKeepsIInv DEF BeginCreateWorkspace
  <1>3. CASE UNCHANGED vars
    BY <1>3 DEF vars, IInv, TypeOK, Progress, OneUserPerEmail, SuccessIsComplete, OwnerOf
  <1> QED BY <1>1, <1>2, <1>3, SaveUserKeepsIInv, CreateTenantKeepsIInv, CreateWorkspaceDocKeepsIInv,
             AddOwnerKeepsIInv, LogAndRespondKeepsIInv, InterruptionKeepsIInv DEF Next

LEMMA IInvAlways == Spec => []IInv
  BY InitIInv, NextKeepsIInv, PTL DEF Spec

-----------------------------------------------------------------------------

\* Every variable has the shape the code gives it, for any e-mails and requests.
THEOREM TypeCorrect == Spec => []TypeOK
  BY IInvAlways, PTL DEF IInv

\* The unique index keeps an e-mail to one user however many signups overlap.
THEOREM OneUserAlways == Spec => []OneUserPerEmail
  BY IInvAlways, PTL DEF IInv

\* Whatever fails or crashes around it, a request answered 201 has stored all of
\* its work.
THEOREM SuccessComplete == Spec => []SuccessIsComplete
  BY IInvAlways, PTL DEF IInv

\* A signup interrupted after it stored its user bars its e-mail address from
\* signup for good: nothing the system does undoes that.
THEOREM StrandedAlways == Spec => StrandedForever
  <1>1. IInv /\ [Next]_vars =>
          [\A e \in Emails : Stranded(e) =>
             \A r \in Requests : (outcome'[r] = "ok" /\ outcome[r] # "ok") =>
                                   call[r] # [op |-> "signup", email |-> e]]_vars
    <2> SUFFICES ASSUME IInv, Next, NEW e \in Emails, Stranded(e), NEW r \in Requests,
                        outcome'[r] = "ok", outcome[r] # "ok", call[r] = [op |-> "signup", email |-> e]
                 PROVE  FALSE
      OBVIOUS
    <2>1. PICK u \in users : call[u].email = e /\ outcome[u] \in {"failed", "lost"}
      BY DEF Stranded
    <2>2. pc[u] = "done" /\ u \in Requests
      BY <2>1 DEF IInv, TypeOK, Progress
    <2>3. AddOwner(r) \/ LogAndRespond(r)
      BY DEF IInv, TypeOK, Next, BeginSignup, SaveUser, CreateTenant, BeginCreateWorkspace,
             CreateWorkspaceDoc, AddOwner, LogAndRespond, DatabaseError, Crash, Goto, End
    <2>4. pc[r] = "owner" /\ call[r] \in Signups
      <3>1. call[r] \in Signups /\ call[r].op = "signup"
        BY DEF Signups
      <3>2. pc[r] # "audit"
        BY <3>1, CallKinds DEF IInv, Progress
      <3> QED BY <2>3, <3>1, <3>2 DEF AddOwner, LogAndRespond
    <2>5. r \in users
      BY <2>4 DEF IInv, Progress
    <2>6. r = u
      BY <2>1, <2>5 DEF IInv, OneUserPerEmail
    <2> QED BY <2>2, <2>4, <2>6
  <1> QED BY <1>1, IInvAlways, PTL DEF Spec, StrandedForever
-----------------------------------------------------------------------------

\* Whoever inserts a workspace inserts its owner next, or does not end well.
OwnedUnlessInterrupted ==
  \A w \in workspaces : HasOwner(w) \/ pc[w] = "owner" \/ outcome[w] \in {"failed", "lost"}

LEMMA NextKeepsOwned ==
  ASSUME IInv, OwnedUnlessInterrupted, [Next]_vars
  PROVE  OwnedUnlessInterrupted'
  <1> USE DEF OwnedUnlessInterrupted, HasOwner, Goto, End
  <1>0. TypeOK /\ Progress
    BY DEF IInv
  <1>1. ASSUME NEW r \in Requests, NEW e \in Emails, BeginSignup(r, e)
        PROVE  OwnedUnlessInterrupted'
    BY <1>0, <1>1 DEF BeginSignup, TypeOK, Progress
  <1>2. ASSUME NEW r \in Requests, NEW u \in Requests, NEW t \in Requests,
               BeginCreateWorkspace(r, u, t)
        PROVE  OwnedUnlessInterrupted'
    BY <1>0, <1>2 DEF BeginCreateWorkspace, TypeOK, Progress
  <1>3. ASSUME NEW r \in Requests, SaveUser(r) \/ CreateTenant(r) PROVE OwnedUnlessInterrupted'
    BY <1>0, <1>3 DEF SaveUser, CreateTenant, TypeOK, Progress
  <1>4. ASSUME NEW r \in Requests, CreateWorkspaceDoc(r) PROVE OwnedUnlessInterrupted'
    BY <1>0, <1>4 DEF CreateWorkspaceDoc, TypeOK, Progress
  <1>5. ASSUME NEW r \in Requests, AddOwner(r) PROVE OwnedUnlessInterrupted'
    <2>1. [ws |-> r, user |-> OwnerOf(r)] \in owners' /\ owners \subseteq owners'
      BY <1>5 DEF AddOwner
    <2>2. \A w \in workspaces : w = r \/ HasOwner(w) => HasOwner(w)'
      BY <2>1
    <2>3. \A w \in workspaces : w # r => pc'[w] = pc[w] /\ outcome'[w] = outcome[w]
      BY <1>0, <1>5 DEF AddOwner, TypeOK
    <2> QED BY <1>5, <2>2, <2>3 DEF AddOwner
  <1>6. ASSUME NEW r \in Requests, LogAndRespond(r) PROVE OwnedUnlessInterrupted'
    <2>1. outcome[r] = "none" /\ pc[r] = "audit"
      BY <1>0, <1>6 DEF LogAndRespond, Progress
    <2>2. \A w \in workspaces : w # r => pc'[w] = pc[w] /\ outcome'[w] = outcome[w]
      BY <1>0, <1>6 DEF LogAndRespond, TypeOK
    <2> QED BY <1>6, <2>1, <2>2 DEF LogAndRespond
  <1>7. ASSUME NEW r \in Requests, DatabaseError(r) PROVE OwnedUnlessInterrupted'
    BY <1>0, <1>7 DEF DatabaseError, InFlight, TypeOK
  <1>8. CASE Crash
    <2>1. ASSUME NEW w \in workspaces
          PROVE  pc[w] = "owner" => outcome'[w] = "lost"
      BY <1>0, <1>8, <2>1 DEF Crash, InFlight, TypeOK
    <2>2. ASSUME NEW w \in workspaces
          PROVE  outcome[w] \in {"failed", "lost"} => outcome'[w] \in {"failed", "lost"}
      BY <1>0, <1>8, <2>2 DEF Crash, InFlight, TypeOK, Progress
    <2> QED BY <1>8, <2>1, <2>2 DEF Crash
  <1>9. CASE UNCHANGED vars
    BY <1>9 DEF vars
  <1> QED BY <1>1, <1>2, <1>3, <1>4, <1>5, <1>6, <1>7, <1>8, <1>9 DEF Next

\* What ADR-005 promises of all requests ("no partial state possible") is true of
\* those that neither fail nor are lost: no workspace of theirs is without an owner.
THEOREM WholeUnlessInterrupted ==
  Spec => [](\A w \in workspaces :
               pc[w] = "done" /\ outcome[w] \notin {"failed", "lost"} => HasOwner(w))
  <1>1. Init => OwnedUnlessInterrupted
    BY DEF Init, OwnedUnlessInterrupted
  <1>2. OwnedUnlessInterrupted =>
          \A w \in workspaces :
            pc[w] = "done" /\ outcome[w] \notin {"failed", "lost"} => HasOwner(w)
    BY DEF OwnedUnlessInterrupted
  <1> QED BY <1>1, <1>2, IInvAlways, NextKeepsOwned, PTL DEF Spec
=============================================================================
