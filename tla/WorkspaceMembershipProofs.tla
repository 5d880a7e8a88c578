---------------------- MODULE WorkspaceMembershipProofs ----------------------
(***************************************************************************)
(* Theorems about WorkspaceMembership, for every set of users, workspaces  *)
(* and requests.                                                           *)
(***************************************************************************)
EXTENDS WorkspaceMembership, FiniteSetTheorems, TLAPS

\* What a request in flight carries agrees with its pc: the document it is about
\* to change is one of its workspace and exists or existed, and the role it is
\* about to write has been validated.
CarriesItsTarget(r) ==
  /\ pc[r] \in {"find", "count", "write"} =>
       target[r] = call[r].target /\ role[target[r]] # "unborn"
  /\ pc[r] \in {"count", "write"} => target[r].ws = call[r].ws
  /\ pc[r] = "write" => AcceptedRole(call[r])
  /\ pc[r] = "create" => call[r].role \in Roles

TypeInv == TypeOK /\ \A r \in Requests : CarriesItsTarget(r)

\* What the step of request r leaves alone.
OnlyMoves(r) ==
  \A q \in Requests \ {r} :
    /\ pc'[q] = pc[q] /\ call'[q] = call[q]
    /\ seen'[q] = seen[q] /\ target'[q] = target[q]

NoneUnborn == \A m \in MemberIds : role[m] # "unborn" => role'[m] # "unborn"

-----------------------------------------------------------------------------

LEMMA TypeInvInit == Init => TypeInv
BY DEF Init, TypeInv, TypeOK, CarriesItsTarget, HoldsItsCall, InFlight, RoleStates

LEMMA StepMovesOne ==
  ASSUME TypeInv, NEW r \in Requests, Step(r)
  PROVE  OnlyMoves(r) /\ NoneUnborn /\ pc'[r] # "new"
<1> USE DEF OnlyMoves, NoneUnborn, TypeInv, TypeOK, Goto, Finish
<1>1. CASE RequireAdmin(r)
  BY <1>1 DEF RequireAdmin
<1>2. CASE ReplayCached(r)
  BY <1>2 DEF ReplayCached
<1>3. CASE BeginInvite(r)
  BY <1>3 DEF BeginInvite
<1>4. CASE CreateMembership(r)
  BY <1>4 DEF CreateMembership, CarriesItsTarget, Roles
<1>5. CASE FindMember(r)
  BY <1>5 DEF FindMember
<1>6. CASE CountOwners(r)
  BY <1>6 DEF CountOwners
<1>7. CASE WriteRole(r)
  BY <1>7 DEF WriteRole, CarriesItsTarget, AcceptedRole, NewRole, Roles
<1>8. CASE DeleteMember(r)
  BY <1>8 DEF DeleteMember
<1>9. CASE LogAndRespond(r)
  BY <1>9 DEF LogAndRespond
<1>10. CASE DatabaseError(r)
  BY <1>10 DEF DatabaseError
<1>11. QED
  BY <1>1, <1>2, <1>3, <1>4, <1>5, <1>6, <1>7, <1>8, <1>9, <1>10 DEF Step

\* The variables that are not indexed by requests keep their types.
LEMMA StepTypes ==
  ASSUME TypeInv, NEW r \in Requests, Step(r)
  PROVE  TypeOK'
<1>0. OnlyMoves(r) /\ NoneUnborn /\ pc'[r] # "new"
  BY StepMovesOne
<1> USE DEF TypeInv, TypeOK, Goto, Finish, OnlyMoves, HoldsItsCall, InFlight, RoleStates
<1>1. CASE RequireAdmin(r)
  BY <1>0, <1>1 DEF RequireAdmin, Updates, Removes
<1>2. CASE ReplayCached(r)
  BY <1>0, <1>2 DEF ReplayCached
<1>3. CASE BeginInvite(r)
  BY <1>0, <1>3 DEF BeginInvite
<1>4. CASE CreateMembership(r)
  BY <1>0, <1>4 DEF CreateMembership, CarriesItsTarget, RoleStates
<1>5. CASE FindMember(r)
  BY <1>0, <1>5 DEF FindMember
<1>6. CASE CountOwners(r)
  BY <1>0, <1>6 DEF CountOwners
<1>7. CASE WriteRole(r)
  BY <1>0, <1>7 DEF WriteRole, CarriesItsTarget, AcceptedRole, NewRole, RoleStates, Overtake
<1>8. CASE DeleteMember(r)
  BY <1>0, <1>8 DEF DeleteMember, RoleStates, Overtake
<1>9. CASE LogAndRespond(r)
  <2>1. [action |-> AuditAction(call[r]), on |-> target[r]]
            \in [action : AuditActions, on : MemberIds]
    BY <1>9 DEF LogAndRespond, AuditAction, AuditActions, Invites, Updates, Removes
  <2>2. audit' \subseteq [action : AuditActions, on : MemberIds]
    BY <1>9, <2>1 DEF LogAndRespond, RecordAudit
  <2>3. caching' \subseteq Invites
    BY <1>9 DEF LogAndRespond, StartCaching, Invites, Updates, Removes
  <2>4. QED
    BY <1>0, <1>9, <2>2, <2>3 DEF LogAndRespond
<1>10. CASE DatabaseError(r)
  BY <1>0, <1>10 DEF DatabaseError
<1>11. QED
  BY <1>1, <1>2, <1>3, <1>4, <1>5, <1>6, <1>7, <1>8, <1>9, <1>10 DEF Step

LEMMA StepCarries ==
  ASSUME TypeInv, NEW r \in Requests, Step(r)
  PROVE  \A q \in Requests : CarriesItsTarget(q)'
<1>0. OnlyMoves(r) /\ NoneUnborn
  BY StepMovesOne
<1>1. ASSUME NEW q \in Requests \ {r} PROVE CarriesItsTarget(q)'
  BY <1>0, <1>1 DEF OnlyMoves, NoneUnborn, TypeInv, TypeOK, HoldsItsCall, CarriesItsTarget,
                    AcceptedRole, NewRole
<1>2. CarriesItsTarget(r)'
  <2> USE DEF TypeInv, TypeOK, Goto, Finish, HoldsItsCall, CarriesItsTarget
  <2>1. CASE RequireAdmin(r)
    BY <2>1 DEF RequireAdmin, Updates, Removes
  <2>2. CASE ReplayCached(r) \/ BeginInvite(r) \/ DatabaseError(r) \/ LogAndRespond(r)
    BY <2>2 DEF ReplayCached, BeginInvite, DatabaseError, LogAndRespond
  <2>3. CASE CreateMembership(r) \/ WriteRole(r) \/ DeleteMember(r)
    BY <2>3 DEF CreateMembership, WriteRole, DeleteMember
  <2>4. CASE FindMember(r)
    BY <2>4 DEF FindMember, InWorkspace, AcceptedRole, NewRole
  <2>5. CASE CountOwners(r)
    BY <2>5 DEF CountOwners, AcceptedRole, NewRole
  <2>6. QED
    BY <2>1, <2>2, <2>3, <2>4, <2>5 DEF Step
<1>3. QED
  BY <1>1, <1>2

LEMMA TypeInvNext == TypeInv /\ [Next]_vars => TypeInv'
<1> SUFFICES ASSUME TypeInv, [Next]_vars PROVE TypeInv'
  OBVIOUS
<1>1. ASSUME NEW r \in Requests, Step(r) PROVE TypeInv'
  BY <1>1, StepTypes, StepCarries DEF TypeInv
<1> USE DEF TypeInv, TypeOK, HoldsItsCall, CarriesItsTarget, InFlight
<1>2. ASSUME NEW k \in Invites, SettleCaching(k) \/ ExpireCached(k) PROVE TypeInv'
  BY <1>2 DEF SettleCaching, ExpireCached, AcceptedRole, NewRole
<1>3. CASE Crash
  BY <1>3 DEF Crash, RoleStates
<1>4. CASE UNCHANGED vars
  BY <1>4 DEF vars, AcceptedRole, NewRole
<1>5. QED
  BY <1>1, <1>2, <1>3, <1>4 DEF Next

\* Every reachable state has the shape the code gives it: in particular no role
\* outside the four reaches the collection.
THEOREM TypeCorrect == Spec => []TypeOK
<1>1. TypeInv => TypeOK
  BY DEF TypeInv
<1>2. QED
  BY <1>1, TypeInvInit, TypeInvNext, PTL DEF Spec

-----------------------------------------------------------------------------
(* What a request that nobody has overtaken may rely on: its actor is still  *)
(* an admin, the role it read is still the role of its target, and if it is  *)
(* about to take ownership away, the workspace has another owner.            *)

UpToDate(r) ==
  r \notin overtaken =>
    /\ pc[r] \in {"lookup", "create", "find", "count", "write"} =>
         HasRole(call[r].actor, call[r].ws, AdminRoles)
    /\ pc[r] \in {"count", "write"} => role[target[r]] = seen[r]
    /\ pc[r] = "write" /\ TakesOwnership(call[r], seen[r]) =>
         \E m \in Owners(call[r].ws) : m # target[r]

RaceInv == TypeInv /\ \A r \in Requests : UpToDate(r)

\* The documents of a workspace keep their roles; new ones may appear.
Undisturbed(w) ==
  \A m \in MemberIds : m.ws = w /\ role[m] # "unborn" => role'[m] = role[m]

\* The owners of a workspace can be counted.
LEMMA OwnersFinite ==
  ASSUME NEW w \in Workspaces
  PROVE  IsFiniteSet(Owners(w))
<1> DEFINE f == [p \in Users \X DocIds |-> [ws |-> w, user |-> p[1], doc |-> p[2]]]
           S == {m \in MemberIds : m.ws = w}
<1>1. IsFiniteSet(Users \X DocIds)
  BY FiniteUsers, FiniteDocIds, FS_Product
<1>2. f \in Surjection(Users \X DocIds, S)
  <2>1. f \in [Users \X DocIds -> S]
    BY DEF MemberIds
  <2>2. ASSUME NEW m \in S PROVE \E p \in Users \X DocIds : f[p] = m
    <3>1. <<m.user, m.doc>> \in Users \X DocIds
      BY DEF MemberIds
    <3>2. f[<<m.user, m.doc>>] = m
      BY <3>1 DEF MemberIds
    <3>3. QED
      BY <3>1, <3>2
  <2>3. QED
    BY <2>1, <2>2 DEF Surjection
<1>3. IsFiniteSet(S)
  <2> HIDE DEF f, S
  <2>1. QED
    BY <1>1, <1>2, FS_Surjection
<1>4. QED
  BY <1>3, FS_Subset DEF Owners

\* A count above one leaves somebody besides any given member.
LEMMA AnotherOwner ==
  ASSUME NEW w \in Workspaces, Cardinality(Owners(w)) > 1, NEW t
  PROVE  \E m \in Owners(w) : m # t
<1>1. IsFiniteSet(Owners(w))
  BY OwnersFinite
<1>2. IsFiniteSet(Owners(w) \ {t})
  BY <1>1, FS_RemoveElement
<1>3. Cardinality(Owners(w) \ {t}) # 0
  <2>1. Cardinality(Owners(w)) \in Nat
    BY <1>1, FS_CardinalityType
  <2>2. Cardinality(Owners(w) \ {t}) = IF t \in Owners(w) THEN Cardinality(Owners(w)) - 1
                                                         ELSE Cardinality(Owners(w))
    BY <1>1, FS_RemoveElement
  <2>3. QED
    BY <2>1, <2>2
<1>4. Owners(w) \ {t} # {}
  BY <1>2, <1>3, FS_EmptySet
<1>5. QED
  BY <1>4

\* The three ways the collection changes.
LEMMA RoleChanges ==
  ASSUME TypeInv, NEW r \in Requests, Step(r)
  PROVE  \/ role' = role
         \/ /\ pc[r] = "create" /\ pc'[r] = "audit"
            /\ \E m \in MemberIds :
                 /\ m.ws = call[r].ws /\ m.user = call[r].user
                 /\ role[m] = "unborn" /\ ~ HasRole(m.user, m.ws, Roles)
                 /\ role' = [role EXCEPT ![m] = call[r].role]
         \/ /\ pc[r] = "write" /\ pc'[r] = "audit"
            /\ role' = [role EXCEPT ![target[r]] = NewRole(call[r])]
            /\ NewRole(call[r]) = "removed" \/ Live(target[r])
            /\ Overtake(r)
<1> USE DEF TypeInv, TypeOK, Goto, Finish
<1>1. CASE RequireAdmin(r) \/ ReplayCached(r) \/ BeginInvite(r)
  BY <1>1 DEF RequireAdmin, ReplayCached, BeginInvite
<1>2. CASE FindMember(r) \/ CountOwners(r) \/ LogAndRespond(r) \/ DatabaseError(r)
  BY <1>2 DEF FindMember, CountOwners, LogAndRespond, DatabaseError
<1>3. CASE CreateMembership(r)
  BY <1>3 DEF CreateMembership
<1>4. CASE WriteRole(r)
  BY <1>4 DEF WriteRole, NewRole
<1>5. CASE DeleteMember(r)
  BY <1>5 DEF DeleteMember, NewRole
<1>6. QED
  BY <1>1, <1>2, <1>3, <1>4, <1>5 DEF Step

\* Overtaking is never forgotten while a request is in flight.
LEMMA OvertakenStays ==
  ASSUME TypeInv, NEW r \in Requests, Step(r), NEW q \in InFlight,
         q \in overtaken, pc'[q] # "done"
  PROVE  q \in overtaken'
<1> USE DEF TypeInv, TypeOK, Goto, Finish, InFlight
<1>1. CASE RequireAdmin(r) \/ ReplayCached(r) \/ BeginInvite(r)
  BY <1>1 DEF RequireAdmin, ReplayCached, BeginInvite
<1>2. CASE FindMember(r) \/ CountOwners(r) \/ LogAndRespond(r) \/ DatabaseError(r)
  BY <1>2 DEF FindMember, CountOwners, LogAndRespond, DatabaseError
<1>3. CASE CreateMembership(r)
  BY <1>3 DEF CreateMembership
<1>4. CASE WriteRole(r)
  BY <1>4 DEF WriteRole, Overtake
<1>5. CASE DeleteMember(r)
  BY <1>5 DEF DeleteMember, Overtake
<1>6. QED
  BY <1>1, <1>2, <1>3, <1>4, <1>5 DEF Step

\* A step of one request that does not overtake another leaves alone the
\* documents the other one has read.
LEMMA OthersUndisturbed ==
  ASSUME TypeInv, NEW r \in Requests, Step(r),
         NEW q \in InFlight \ {r}, q \notin overtaken'
  PROVE  Undisturbed(call[q].ws)
<1>1. CASE role' = role
  BY <1>1 DEF Undisturbed
<1>2. CASE \E m \in MemberIds : role[m] = "unborn" /\ role' = [role EXCEPT ![m] = call[r].role]
  BY <1>2 DEF Undisturbed, TypeInv, TypeOK
<1>3. CASE /\ pc[r] = "write"
           /\ role' = [role EXCEPT ![target[r]] = NewRole(call[r])]
           /\ Overtake(r)
           /\ role' # role
  <2>1. call[q].ws # call[r].ws
    BY <1>3 DEF Overtake
  <2>2. target[r] \in MemberIds /\ target[r].ws = call[r].ws
    BY <1>3 DEF TypeInv, TypeOK, HoldsItsCall, CarriesItsTarget
  <2>3. QED
    BY <1>3, <2>1, <2>2 DEF Undisturbed, TypeInv, TypeOK
<1>4. QED
  BY <1>1, <1>2, <1>3, RoleChanges

LEMMA RaceInvInit == Init => RaceInv
BY TypeInvInit DEF Init, RaceInv, UpToDate

\* The request that moves stays up to date by its own reads.
LEMMA OwnStepUpToDate ==
  ASSUME RaceInv, NEW r \in Requests, Step(r)
  PROVE  UpToDate(r)'
<1> USE DEF RaceInv, UpToDate, TypeInv, TypeOK, HoldsItsCall, CarriesItsTarget, Goto, Finish
<1>1. CASE RequireAdmin(r)
  BY <1>1 DEF RequireAdmin, HasRole
<1>2. CASE BeginInvite(r)
  BY <1>2 DEF BeginInvite, HasRole
<1>3. CASE FindMember(r)
  BY <1>3 DEF FindMember, HasRole
<1>4. CASE CountOwners(r)
  <2>1. CASE pc'[r] = "done"
    BY <1>4, <2>1
  <2>2. CASE Cardinality(Owners(call[r].ws)) > 1 /\ Goto(r, "write")
    <3>1. call[r].ws \in Workspaces
      BY <1>4 DEF CountOwners, Updates, Removes
    <3>2. \E m \in Owners(call[r].ws) : m # target[r]
      BY <2>2, <3>1, AnotherOwner
    <3>3. QED
      BY <1>4, <2>2, <3>2 DEF CountOwners, HasRole, Owners
  <2>3. QED
    BY <1>4, <2>1, <2>2 DEF CountOwners
<1>5. CASE ReplayCached(r) \/ LogAndRespond(r) \/ DatabaseError(r)
  BY <1>5 DEF ReplayCached, LogAndRespond, DatabaseError
<1>6. CASE CreateMembership(r) \/ WriteRole(r) \/ DeleteMember(r)
  BY <1>6 DEF CreateMembership, WriteRole, DeleteMember
<1>7. QED
  BY <1>1, <1>2, <1>3, <1>4, <1>5, <1>6 DEF Step

\* The requests that do not move are overtaken or still up to date.
LEMMA OtherStepUpToDate ==
  ASSUME RaceInv, NEW r \in Requests, Step(r), NEW q \in Requests \ {r}
  PROVE  UpToDate(q)'
<1>0. OnlyMoves(r)
  BY StepMovesOne DEF RaceInv
<1>1. CASE q \notin InFlight
  BY <1>0, <1>1 DEF UpToDate, OnlyMoves, InFlight
<1>2. CASE q \in InFlight /\ q \in overtaken
  <2>1. q \in overtaken'
    BY <1>0, <1>2, OvertakenStays DEF RaceInv, OnlyMoves, InFlight
  <2>2. QED
    BY <2>1 DEF UpToDate
<1>3. CASE q \in InFlight /\ q \notin overtaken
  <2> SUFFICES ASSUME q \notin overtaken' PROVE UpToDate(q)'
    BY DEF UpToDate
  <2>1. Undisturbed(call[q].ws)
    BY <1>3, OthersUndisturbed DEF RaceInv
  <2>2. /\ pc'[q] = pc[q] /\ call'[q] = call[q]
        /\ seen'[q] = seen[q] /\ target'[q] = target[q]
    BY <1>0 DEF OnlyMoves
  <2>3. ASSUME NEW u, NEW w, w = call[q].ws, HasRole(u, w, AdminRoles)
        PROVE  HasRole(u, w, AdminRoles)'
    BY <2>1, <2>3 DEF HasRole, Undisturbed, AdminRoles
  <2>4. pc[q] \in {"count", "write"} => role'[target[q]] = role[target[q]]
    BY <2>1 DEF Undisturbed, RaceInv, TypeInv, TypeOK, HoldsItsCall, CarriesItsTarget
  <2>5. \A m \in Owners(call[q].ws) : m \in Owners(call[q].ws)'
    BY <2>1, <2>2 DEF Undisturbed, Owners
  <2>6. QED
    BY <1>3, <2>2, <2>3, <2>4, <2>5 DEF UpToDate, RaceInv
<1>4. QED
  BY <1>1, <1>2, <1>3

LEMMA RaceInvNext == RaceInv /\ [Next]_vars => RaceInv'
<1> SUFFICES ASSUME RaceInv, [Next]_vars PROVE RaceInv'
  OBVIOUS
<1>0. TypeInv'
  BY TypeInvNext DEF RaceInv
<1>1. ASSUME NEW r \in Requests, Step(r) PROVE \A q \in Requests : UpToDate(q)'
  BY <1>1, OwnStepUpToDate, OtherStepUpToDate
<1> USE DEF RaceInv, UpToDate, HasRole, Owners
<1>2. ASSUME NEW k \in Invites, SettleCaching(k) \/ ExpireCached(k)
      PROVE  \A q \in Requests : UpToDate(q)'
  BY <1>2 DEF SettleCaching, ExpireCached
<1>3. CASE Crash
  BY <1>0, <1>3 DEF Crash, InFlight
<1>4. CASE UNCHANGED vars
  BY <1>0, <1>4 DEF vars
<1>5. QED
  BY <1>0, <1>1, <1>2, <1>3, <1>4 DEF Next

LEMMA RaceInvAlways == Spec => []RaceInv
BY RaceInvInit, RaceInvNext, PTL DEF Spec

-----------------------------------------------------------------------------

\* A step that is not a write of a request leaves the collection alone.
LEMMA OnlyRequestsChangeRoles ==
  ASSUME [Next]_vars, role' # role
  PROVE  \E r \in Requests : Step(r)
BY DEF Next, vars, SettleCaching, ExpireCached, Crash

LEMMA LastOwnerStep ==
  ASSUME RaceInv, [Next]_vars, NEW w \in Workspaces, HasOwner(w), ~ HasOwner(w)'
  PROVE  \E r \in overtaken : call[r].ws = w /\ pc[r] = "write"
<1>1. PICK o \in Owners(w) : role'[o] # "OWNER"
  BY DEF HasOwner, Owners
<1>2. PICK r \in Requests : Step(r)
  BY <1>1, OnlyRequestsChangeRoles DEF Owners
<1>3. /\ pc[r] = "write"
      /\ role' = [role EXCEPT ![target[r]] = NewRole(call[r])]
  <2>1. role' # role
    BY <1>1 DEF Owners
  <2>2. ~ \E m \in MemberIds : /\ role[m] = "unborn"
                               /\ role' = [role EXCEPT ![m] = call[r].role]
    BY <1>1 DEF Owners, RaceInv, TypeInv, TypeOK
  <2>3. QED
    BY <1>2, <2>1, <2>2, RoleChanges DEF RaceInv
<1>4. o = target[r] /\ o.ws = w /\ role[o] = "OWNER" /\ NewRole(call[r]) # "OWNER"
  BY <1>1, <1>3 DEF Owners, RaceInv, TypeInv, TypeOK
<1>5. call[r].ws = w
  BY <1>3, <1>4 DEF RaceInv, TypeInv, CarriesItsTarget
<1>6. r \in overtaken
  <2> SUFFICES ASSUME r \notin overtaken PROVE FALSE
    OBVIOUS
  <2>1. seen[r] = "OWNER" /\ TakesOwnership(call[r], seen[r])
    BY <1>3, <1>4 DEF RaceInv, UpToDate, TakesOwnership
  <2>2. PICK m \in Owners(w) : m # target[r]
    BY <1>3, <1>5, <2>1 DEF RaceInv, UpToDate
  <2>3. m \in Owners(w)'
    BY <1>3, <2>2 DEF Owners, RaceInv, TypeInv, TypeOK
  <2>4. QED
    BY <2>3 DEF HasOwner
<1>7. QED
  BY <1>3, <1>5, <1>6

\* The last-owner check holds against every sequence of requests that do not
\* overlap: only an overtaken request can take the last owner away.
THEOREM LastOwnerSafeUnlessOvertaken == Spec => LastOwnerLostOnlyWhenOvertaken
<1>1. RaceInv /\ [Next]_vars =>
        [\A w \in Workspaces :
           HasOwner(w) /\ ~ HasOwner(w)' =>
             \E r \in overtaken : call[r].ws = w /\ pc[r] = "write"]_vars
  BY LastOwnerStep
<1>2. QED
  BY <1>1, RaceInvAlways, PTL DEF Spec, LastOwnerLostOnlyWhenOvertaken

LEMMA AuthorisedStep ==
  ASSUME RaceInv, [Next]_vars, NEW m \in MemberIds, role'[m] # role[m]
  PROVE  \E r \in InFlight :
           /\ pc[r] \in {"create", "write"} /\ pc'[r] = "audit"
           /\ call[r].ws = m.ws
           /\ HasRole(call[r].actor, m.ws, AdminRoles) \/ r \in overtaken
<1>1. PICK r \in Requests : Step(r)
  BY OnlyRequestsChangeRoles
<1>2. pc[r] \in {"create", "write"} /\ pc'[r] = "audit"
  BY <1>1, RoleChanges DEF RaceInv
<1>3. call[r].ws = m.ws
  BY <1>1, RoleChanges DEF RaceInv, TypeInv, TypeOK, CarriesItsTarget
<1>4. HasRole(call[r].actor, call[r].ws, AdminRoles) \/ r \in overtaken
  BY <1>2 DEF RaceInv, UpToDate
<1>5. QED
  BY <1>2, <1>3, <1>4 DEF InFlight

\* Every change of a membership is authorised (by an OWNER or ADMIN, as requireAdmin
\* asks on every route that makes one) at the moment it is made, unless the request
\* was overtaken; and it stays in the workspace of the request.
THEOREM ChangesAuthorised == Spec => ChangesAreAuthorised
<1>1. RaceInv /\ [Next]_vars =>
        [\A m \in MemberIds :
           role'[m] # role[m] =>
             \E r \in InFlight :
               /\ pc[r] \in {"create", "write"} /\ pc'[r] = "audit"
               /\ call[r].ws = m.ws
               /\ HasRole(call[r].actor, m.ws, AdminRoles) \/ r \in overtaken]_vars
  BY AuthorisedStep
<1>2. QED
  BY <1>1, RaceInvAlways, PTL DEF Spec, ChangesAreAuthorised

-----------------------------------------------------------------------------

LEMMA RemovedStep ==
  ASSUME RaceInv, [Next]_vars, NEW m \in MemberIds, role[m] = "removed"
  PROVE  role'[m] = "removed"
<1>1. CASE role' = role
  BY <1>1
<1>2. CASE role' # role
  <2>1. PICK r \in Requests : Step(r)
    BY <1>2, OnlyRequestsChangeRoles
  <2>2. QED
    BY <2>1, RoleChanges DEF RaceInv, TypeInv, TypeOK, Live, Roles
<1>3. QED
  BY <1>1, <1>2

\* A removed membership never comes back under the same _id.
THEOREM RemovalFinal == Spec => RemovalIsFinal
<1>1. RaceInv /\ [Next]_vars =>
        [\A m \in MemberIds : role[m] = "removed" => role'[m] = "removed"]_vars
  BY RemovedStep
<1>2. QED
  BY <1>1, RaceInvAlways, PTL DEF Spec, RemovalIsFinal

LEMMA OneMembershipNext ==
  ASSUME RaceInv, [Next]_vars, OneMembershipPerUser
  PROVE  OneMembershipPerUser'
<1> USE DEF OneMembershipPerUser, OneMembership, Live
<1>1. CASE role' = role
  BY <1>1
<1>2. CASE role' # role
  <2>1. PICK r \in Requests : Step(r)
    BY <1>2, OnlyRequestsChangeRoles
  <2>2. CASE /\ pc[r] = "write"
             /\ role' = [role EXCEPT ![target[r]] = NewRole(call[r])]
             /\ NewRole(call[r]) = "removed" \/ Live(target[r])
    <3>1. \A m \in MemberIds : role'[m] \in Roles => role[m] \in Roles
      BY <2>2 DEF RaceInv, TypeInv, TypeOK, Roles
    <3>2. QED
      BY <3>1
  <2>3. CASE \E m \in MemberIds : /\ ~ HasRole(m.user, m.ws, Roles)
                                  /\ role' = [role EXCEPT ![m] = call[r].role]
    <3>1. PICK m \in MemberIds : /\ ~ HasRole(m.user, m.ws, Roles)
                                 /\ role' = [role EXCEPT ![m] = call[r].role]
      BY <2>3
    <3>2. \A n \in MemberIds \ {m} : role'[n] = role[n]
      BY <3>1 DEF RaceInv, TypeInv, TypeOK
    <3>3. \A n \in MemberIds : n.ws = m.ws /\ n.user = m.user => role[n] \notin Roles
      BY <3>1 DEF HasRole
    <3>4. QED
      BY <3>2, <3>3
  <2>4. QED
    BY <1>2, <2>1, <2>2, <2>3, RoleChanges DEF RaceInv
<1>3. QED
  BY <1>1, <1>2

\* No interleaving of invites gives a user two memberships of a workspace.
THEOREM OneMembershipAlways == Spec => []OneMembershipPerUser
<1>1. Init => OneMembershipPerUser
  BY DEF Init, OneMembershipPerUser
<1>2. RaceInv /\ [Next]_vars /\ OneMembershipPerUser => OneMembershipPerUser'
  BY OneMembershipNext
<1>3. QED
  BY <1>1, <1>2, RaceInvAlways, PTL DEF Spec

-----------------------------------------------------------------------------
(* The audit log: between its write and its log entry a request knows that   *)
(* its target exists, or that it is removed, and neither is ever undone.     *)

AboutToLog(r) ==
  pc[r] = "audit" =>
    /\ role[target[r]] # "unborn"
    /\ call[r].op = "remove" => role[target[r]] = "removed"

AuditInv == RaceInv /\ AuditTruthful /\ \A r \in Requests : AboutToLog(r)

LEMMA OpsOfCalls ==
  /\ \A c \in Invites : c.op = "invite"
  /\ \A c \in Updates : c.op = "update"
  /\ \A c \in Removes : c.op = "remove"
BY DEF Invites, Updates, Removes

\* What was said of a membership by role alone stays true.
LEMMA SaidStaysTrue ==
  ASSUME RaceInv, [Next]_vars, NEW m \in MemberIds
  PROVE  /\ role[m] # "unborn" => role'[m] # "unborn"
         /\ role[m] = "removed" => role'[m] = "removed"
<1>1. CASE role' = role
  BY <1>1
<1>2. CASE role' # role
  BY <1>2, OnlyRequestsChangeRoles, StepMovesOne, RemovedStep DEF RaceInv, NoneUnborn
<1>3. QED
  BY <1>1, <1>2

\* The request that writes is the one that may log.
LEMMA OwnStepAboutToLog ==
  ASSUME AuditInv, NEW r \in Requests, Step(r)
  PROVE  AboutToLog(r)'
<1> USE DEF AuditInv, RaceInv, TypeInv, TypeOK, AboutToLog, HoldsItsCall, CarriesItsTarget,
            Goto, Finish
<1>1. CASE RequireAdmin(r) \/ ReplayCached(r) \/ BeginInvite(r)
  BY <1>1 DEF RequireAdmin, ReplayCached, BeginInvite
<1>2. CASE FindMember(r) \/ CountOwners(r) \/ LogAndRespond(r) \/ DatabaseError(r)
  BY <1>2 DEF FindMember, CountOwners, LogAndRespond, DatabaseError
<1>3. CASE CreateMembership(r)
  BY <1>3, OpsOfCalls DEF CreateMembership, Roles
<1>4. CASE WriteRole(r)
  BY <1>4 DEF WriteRole, AcceptedRole, NewRole, Roles
<1>5. CASE DeleteMember(r)
  BY <1>5 DEF DeleteMember
<1>6. QED
  BY <1>1, <1>2, <1>3, <1>4, <1>5 DEF Step

\* An entry is added by LogAndRespond, and tells what its request has done.
LEMMA EntriesAreNew ==
  ASSUME AuditInv, [Next]_vars, NEW e \in audit' \ audit
  PROVE  /\ e.on \in MemberIds /\ role[e.on] # "unborn"
         /\ e.action = "WORKSPACE_MEMBER_REMOVED" => role[e.on] = "removed"
<1>1. PICK r \in Requests : LogAndRespond(r)
  <2>1. PICK r \in Requests : Step(r)
    BY DEF Next, SettleCaching, ExpireCached, Crash, vars
  <2>2. LogAndRespond(r) \/ UNCHANGED audit
    BY <2>1 DEF Step, RequireAdmin, ReplayCached, BeginInvite, CreateMembership, FindMember,
                CountOwners, WriteRole, DeleteMember, DatabaseError
  <2>3. QED
    BY <2>1, <2>2
<1>2. e = [action |-> AuditAction(call[r]), on |-> target[r]] /\ pc[r] = "audit"
  BY <1>1 DEF LogAndRespond, RecordAudit
<1>3. call[r] \in Invites \cup Updates \cup Removes /\ target[r] \in MemberIds
  BY <1>2 DEF AuditInv, RaceInv, TypeInv, TypeOK, HoldsItsCall
<1>4. AuditAction(call[r]) = "WORKSPACE_MEMBER_REMOVED" => call[r].op = "remove"
  BY <1>3, OpsOfCalls DEF AuditAction
<1>5. QED
  BY <1>2, <1>3, <1>4 DEF AuditInv, AboutToLog

LEMMA AuditInvNext == AuditInv /\ [Next]_vars => AuditInv'
<1> SUFFICES ASSUME AuditInv, [Next]_vars PROVE AuditInv'
  OBVIOUS
<1>1. RaceInv'
  BY RaceInvNext DEF AuditInv
<1>2. AuditTruthful'
  <2> SUFFICES ASSUME NEW e \in audit'
               PROVE  /\ role'[e.on] # "unborn"
                      /\ e.action = "WORKSPACE_MEMBER_REMOVED" => role'[e.on] = "removed"
    BY DEF AuditTruthful
  <2>1. CASE e \in audit
    <3>1. e.on \in MemberIds
      BY <2>1 DEF AuditInv, RaceInv, TypeInv, TypeOK
    <3>2. QED
      BY <2>1, <3>1, SaidStaysTrue DEF AuditInv, AuditTruthful
  <2>2. CASE e \notin audit
    BY <2>2, EntriesAreNew, SaidStaysTrue DEF AuditInv
  <2>3. QED
    BY <2>1, <2>2
<1>3. ASSUME NEW q \in Requests PROVE AboutToLog(q)'
  <2>1. CASE pc'[q] = pc[q] /\ call'[q] = call[q] /\ target'[q] = target[q]
    <3>1. pc[q] = "audit" => target[q] \in MemberIds
      BY DEF AuditInv, RaceInv, TypeInv, TypeOK, HoldsItsCall
    <3>2. QED
      BY <2>1, <3>1, SaidStaysTrue DEF AuditInv, AboutToLog
  <2>2. ASSUME NEW r \in Requests, Step(r) PROVE AboutToLog(q)'
    BY <2>1, <2>2, OwnStepAboutToLog, StepMovesOne DEF AuditInv, RaceInv, OnlyMoves
  <2>3. CASE Crash
    BY <2>3 DEF Crash, InFlight, AboutToLog, AuditInv, RaceInv, TypeInv, TypeOK
  <2>4. QED
    BY <2>1, <2>2, <2>3 DEF Next, SettleCaching, ExpireCached, vars
<1>4. QED
  BY <1>1, <1>2, <1>3 DEF AuditInv

\* The audit log never reports a removal of somebody who is still a member, nor
\* names a membership that was never created (AuditTruthful).
THEOREM AuditTruthfulAlways == Spec => []AuditTruthful
<1>1. Init => AuditInv
  BY RaceInvInit DEF Init, AuditInv, AuditTruthful, AboutToLog
<1>2. AuditInv => AuditTruthful
  BY DEF AuditInv
<1>3. QED
  BY <1>1, <1>2, AuditInvNext, PTL DEF Spec

\* What the comments in RemoveUserFromWorkspace and UpdateWorkspaceMember claim is true
\* of requests that follow each other: as long as no request is overtaken, every
\* workspace has an owner (AlwaysAnOwner, which fails without that hypothesis).
THEOREM OwnerWithoutOverlap == Spec /\ [](overtaken = {}) => []AlwaysAnOwner
<1>1. Init => AlwaysAnOwner
  BY DEF Init, AlwaysAnOwner
<1>2. RaceInv /\ [Next]_vars /\ overtaken = {} /\ AlwaysAnOwner => AlwaysAnOwner'
  BY LastOwnerStep DEF AlwaysAnOwner
<1>3. QED
  BY <1>1, <1>2, RaceInvAlways, PTL DEF Spec
=============================================================================
