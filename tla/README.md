# WorkspaceOps backend: TLA+ models, checks and proofs

The backend is an Express REST API over MongoDB (Mongoose) with an S3-compatible
object store for files. It keeps, per workspace, members with roles, entities,
document types, documents, work item types, work items, links between work items
and documents, and an audit log.

There are no threads, queues or background jobs. What makes the system hard is
that a request is a chain of awaits: the event loop runs any other request (of
this process or another one on the same database) between two of them. A write of
a single document is atomic; only creating and deleting a document type uses a
transaction. Everything else that spans two reads or writes is a race, and
everything that spans two writes can be cut in half by an error or a crash.

The models therefore all have the same shape. `pc[r]` names the await request `r`
is suspended at, `call[r]` is the request, other per-request variables are what it
has read so far. One action is the code from one await to the next. `DatabaseError`
is a rejected call (the error handler answers 500 and nothing is undone); `Crash`
loses every request in flight and keeps what is stored (Catalogue and DocumentTypes,
where every request makes one write or commit, need no `Crash` of their own).

## Inventory

| Component | State | Operations | Hard behaviour | What makes it correct |
|---|---|---|---|---|
| Workspace membership (`modules/workspace`) | `workspacemembers` (unique index on workspace and user) | invite, change role, remove; list | last-owner check apart from the write; role of the actor read long before it matters; a member removed under a role change | one membership per user; every change authorised; always an owner; removals final |
| Signup and workspace creation (`modules/auth`, `modules/workspace`) | `users` (unique e-mail), `tenants`, `workspaces`, owner membership | signup, create workspace | four (two) inserts without a transaction; hashing between lookup and insert | one user per e-mail; a 201 means all of it; what an interruption leaves behind |
| Work items (`modules/work-item`) | `workitems` | create, update fields, change status, delete; list | transition checked against a stale status, made safe by a compare-and-set; blind `$set` of other fields; documents that fail validation on every read | the status machine; no lost update; answers and audit log tell the truth |
| Documents (`modules/document`) | `documents`, the object store | upload, update, delete; list, download, expiring | two stores without a common transaction | a document has its file; leaked files are explained; one of several deletions succeeds |
| Links (`modules/work-item`) | `workitemdocuments` (unique index on the pair) | link, unlink, list linked; cleanup by work item deletion | cleanup and deletion apart; listing by several parallel queries | linked once; nothing linked before a deletion survives it; listings omit only what is gone |
| Idempotency middleware | `idempotencyrecords` (24 h TTL) | look up, replay, cache un-awaited | overlapping retries both execute; a replay may be stale; fails open | no second effect once a record stands; answers belong to their request; every request is answered |
| Authorisation (`requireRole`) | none (reads memberships) | role test in front of every route | check-then-act over the whole request | see membership |
| Audit log | `auditlogs` | record (errors swallowed); list | written after, and apart from, what it reports | never reports what did not happen |
| Entities | `entities` | create, update, delete | SELF uniqueness checked, not enforced; parents; references to deleted entities | one SELF entity; parents and references that exist and fit when they are made (later deletions and role changes are not checked, nor cycles of parents) |
| Document types and fields | `documenttypes`, `documenttypefields` | create and delete (transactions), add field, update | fields added, flags set and answers read outside the transactions | types come and go with their fields; keys unique; expiry flag and expiry field agree |
| Work item types | `workitemtypes` (unique name, exact case) | create, delete; list | check of items in use apart from the deletion; duplicate check that ignores case, index that does not | no item without its type; one type per name, unless a check was overtaken |
| Overview | in-process cache, 60 s | counts by parallel queries | stale counts, of parallel queries that settle one by one; a slow fill stores over a newer one | bounded staleness; counts that agree with the status of each document; catching up |
| Login and tokens | none | login, verify token | - (stateless, cryptography in libraries) | - |
| Sockets | rooms | emit after audit | event before or without the change | events follow changes |
| Shell (`app.ts`, `server.ts`, error handler) | - | wiring, shutdown | crash in mid-request | the `Crash` and `DatabaseError` actions |

Interactions: every route passes `authMiddleware` and `requireRole`, some the
idempotency middleware, before its controller; controllers call use cases, use
cases repositories; use cases write the audit log themselves, which also emits
socket events. `DeleteWorkItem` cleans up the links, `UploadDocument`,
`CreateWorkItem` and `LinkDocument` read collections of other modules to check
references, and nothing holds a lock while they do.

`PROJECT.json` lists the components with their status, and under `hazards` every
place where this bites, at its line, with the properties that cover it.

## Modules

### WorkspaceMembership (MCWorkspaceMembership, WorkspaceMembershipProofs)

`role` is the collection: a function from `_id`s to roles, `"unborn"` or `"removed"`.
The workspace and user of a membership never change, so they are part of its id.
`RequireAdmin` is the middleware; an invite then looks its fingerprint up
(`ReplayCached` or `BeginInvite`) and inserts (`CreateMembership`, under the unique
index); a role change or removal reads its target (`FindMember`), counts owners when
it takes OWNER from somebody (`CountOwners`) and writes by `_id` alone (`WriteRole`,
`DeleteMember`); `LogAndRespond` is the audit record, the answer and, for an invite,
the start of caching, which `SettleCaching` finishes later; `ExpireCached` is the TTL
index. `overtaken` is a history variable: the requests in flight when another one
changed or removed a membership of their workspace. It is what lets the last-owner
and authorisation properties say exactly when check-then-act is good enough.

* `Membership.cfg` (two users, one workspace, two documents per user, three requests)
  checks that a user has one membership; that the audit log never names a membership
  that was not created nor a removal that did not happen; that a workspace loses its
  last owner only through the write of an overtaken request; that removals are final;
  and that every change is the write of a request on that workspace whose actor is an
  administrator of it at that moment, unless the request was overtaken. Three requests
  are enough for a request, the one that overtakes it, and one that undoes or repeats
  it; two documents for a user who is removed and invited again. The roles requested
  include one (`"GUEST"`) that must be refused. One workspace is enough because nothing
  in the code relates two; that `ChangesAreAuthorised` keeps any number of them apart
  is proved (`ChangesAuthorised`).
  `ChangesAreAuthorised` takes its roles from the routes (`requireAdmin`, OWNER or ADMIN),
  as the repository's `README.md:268-271` and `docs/HLD.md:335` have it. Other documents
  say otherwise, and the code does not do what they say:
  `docs/LLD_STATE_MACHINES.md:169-176,196` leaves promotion to ADMIN and demotion from it
  to an OWNER and has an ADMIN change MEMBER and VIEWER only, `docs/HLD.md:327` has an
  ADMIN manage members below ADMIN, and `docs/USE_CASE_DIAGRAM.md:154,176` keeps role updates to the OWNER
  alone. `workspace.routes.ts:100-102` and the use cases behind them compare neither the
  role to be given nor the role of the target with the role of the actor: an ADMIN may
  invite or promote to ADMIN and OWNER, and demote or remove an OWNER who is not the last.
  Nor is there only one OWNER who cannot be removed (`docs/LLD_STATE_MACHINES.md:183-187`).
* `MembershipLastOwner.cfg` shows that `AlwaysAnOwner`, which comments in
  `RemoveUserFromWorkspace.ts` and `UpdateWorkspaceMember.ts` claim, is violated: two
  requests that overlap both count two owners (see `findings`).

### Provisioning (MCProvisioning, ProvisioningProofs)

Documents are named after the request that inserts them. `BeginSignup` is the lookup
by e-mail and the hash, `SaveUser`, `CreateTenant`, `CreateWorkspaceDoc`, `AddOwner`
the inserts (shared with CreateWorkspace from the workspace on), `LogAndRespond` the
audit record that only CreateWorkspace writes. `outcome` is how a request ended.

* `Provisioning.cfg` (two e-mails, four requests): one user per e-mail, a 201 means
  the user, tenant, workspace and owner are there (so ownerless workspaces come from
  interrupted requests only), and an e-mail whose signup was interrupted after the
  user was inserted is never signed up successfully again. Four requests give an
  interrupted signup, its retry, another user and a workspace of theirs.
* `ProvisioningAtomicity.cfg`: ADR-005 promises that creating a workspace is atomic;
  it is two inserts without a session (see `findings`).

### WorkItemStatus and WorkItemLifecycle (MCWorkItemLifecycle, WorkItemLifecycleProofs)

`WorkItemStatus` is the promise: an item is created in DRAFT, moves only along
`canTransitionTo`, and may be deleted. `WorkItemLifecycle` is the code: a status change
reads (`BeginOnItem`), checks, and writes by `CompareAndSetStatus`, a
findOneAndUpdate that matches the status read; an update writes other fields
(`SetFields`); a deletion removes links and then the item (`DeleteLinks`,
`DeleteItem`). `Present` is the re-read or conversion that builds the answer.
`priority` tells only whether the stored priority is one of the three known ones, all
that `WorkItem.validate` looks at: a document with another one makes every query
that meets it throw. The await of the audit log is merged with the write before
it, because no handler of this module reads that log. Requests of types,
entities and documents are abstracted to an arbitrary answer of the check.

* `WorkItemLifecycle.cfg` (two items, three requests, the four requestable statuses): the
  code implements `WorkItemStatus` (a refinement, `StatusMachine`, by INSTANCE with
  `status` mapped to itself), 200 and 409 tell the truth about who changed what, no two
  requests both change the status they read, the audit log is truthful, and an item
  that has become unreadable stays so. Three requests are two that collide and one
  that brings the status back, the ABA case `NoLostUpdate` allows for.
* `WorkItemPriority.cfg`: the schema's enum promises a known priority; an update stores
  an unknown one (see `findings`).

### Documents (MCDocuments, DocumentsProofs)

`doc` and `file` are the two stores; an upload names document and file at once, since
its key is drawn afresh. Upload: `SaveFile`, `ValidateUpload`, `InsertDocument`.
Deletion: `Begin` (the 404), `EraseDocument`, the audit record, `DeleteFile` (errors are
logged and ignored, remembered in `kept`). Links: `FindDocument`, `InsertLink` under the
unique index, `Unlink`; `DeleteLinks` and `DeleteItem` are DeleteWorkItem; `ReadLinks`,
`FindLinkedDocument` (one query per link, in any order) and `PresentLinked` are
GetLinkedDocuments. The object store may fail with or without effect.

* `Documents.cfg` (two documents, one item, three requests): a stored document has
  its file; a file without a document is explained by an upload or deletion that is
  in flight, refused, failed or lost, or by a failed DeleteObject; one of several
  deletions is answered 204; a pair is linked once; a listing omits only what has been
  deleted; an item is deleted without the links it had. (`LinkedOnce` is about the
  handler: the idempotency middleware in front of it may replay a 200 to an identical
  retry, which is module Idempotency.) Three requests are two that
  collide on a pair or document and a third that removes what they made. Work items
  other than the one collided on do not interact with it: the links of an item are
  read and deleted per item.
* `DocumentsDeletedItem.cfg`: DeleteWorkItem "cleans up associated document links"; a
  LinkDocument in between its two writes leaves one for good (see `findings`).

### Catalogue (MCCatalogue, CatalogueProofs)

Entities, work item types and the references of work items to both, in one
workspace. `entity` and `type` are the collections, a function from `_id`s to the role
(the role a type is restricted to), `"unborn"` or `"deleted"`; `parent` and `items` hold the
references. A type is identified by its name and a spelling of it: `findByName` ignores
case (`SameName`), the unique index does not. `Begin` is the first query of each use
case with the checks on it (`FirstQueryPasses`), and `SecondAwait` says which query is
next; `FindSelf`, `FindParent`, `CountItems` and `FindItemEntity` are the checks;
`InsertEntity`, `WriteEntity`, `DeleteEntity`, `InsertType`, `DeleteType`, `InsertItem`,
`MoveItem` and `RemoveItem` the one write of each. Since every request makes one write,
losing a request in a crash is the same as a rejected call (`DatabaseError`), and there
is no `Crash`. Entities are looked up by `_id` alone, so `Foreign` ones, of another
workspace, can be parents and be referred to; they do not change. (The comment at
`CreateWorkItem.ts:13` has the entity validated "in the workspace"; the repository ignores
the workspace it is handed.) Items are named
after the request that creates them. `missed` is a type name that `findByName` looks for
under another text than `create` stores: it is trimmed only afterwards, and it is
used as a pattern. (A name that matches too much, or is no pattern at all, is refused
without a write, like a name that is taken or a rejected call.) `overtaken` is the
history variable of WorkspaceMembership again, per collection read.

* `Catalogue.cfg` (two entities and a foreign one, one name in two spellings, three roles,
  two restrictions, two requests of any kind; any entities, types and at most one item
  to begin with): a second SELF entity, a parent that is gone or an EMPLOYEE, a second
  type of a name, an item without its type, an item of an entity that is gone or does
  not fit: each is the work of a request that was overtaken between check and write,
  or, for names, of one that `missed`. Two requests suffice: a check and a write, and
  the write between them; what came before is in the initial states. VENDOR and SELF
  restrictions are like CUSTOMER to every check.

That the races happen is not a separate run: it is what the exceptions in these
properties stand for, and without them TLC finds them violated. `docs/ERROR_CATALOGUE.md`
("Only one SELF-type entity per workspace") and `DeleteWorkItemType.ts` ("Prevents
deletion if any work items reference this type") promise more than the code keeps.

### DocumentTypeSchemas and DocumentTypes (MCDocumentTypes, DocumentTypesProofs)

`DocumentTypeSchemas` is the promise to whoever uploads documents: a type appears with
all its fields (`Publish`), gains them one at a time (`Extend`), may have expiry tracking
switched (`Retrack`), and goes with all of them for good (`Retire`).

`DocumentTypes` is the code. `type` and `fields` are the collections. Creation is `Begin`,
`Stage` (the checks of the use case and the inserts of the transaction) and
`CommitCreate`. Everything else first reads the type (`FindTypes`) and then its fields
(`FindFields`, one query per type for the list, in any order), and then adds a field
under the unique index (`InsertField`), sets the flag (`UpdateType`, followed by the
re-read that builds its answer), answers (`Present`), or deletes in a transaction
(`DeleteFields`, `DeleteType`, `CommitDelete`). Write conflicts are MongoDB's: a transaction
aborts on what another open one has written or what changed after its snapshot
(`stale`); a write outside waits. A key is `Malformed` when `DocumentTypeField.validate`
refuses it, `CaseVariants` are the keys that differ in case only, and a `blank` in front of a
key is what the comparison sees and the trimmed key stored does not have. Likewise
isExpiryField is tested for truth by the checks (`AsksForExpiry`) and cast by the schema
(`CastsToExpiry`), which differ for a string such as `"false"` (`castFalse`).
`late`, `overtaken`, `unchecked` and `coerced` are history variables for the exceptions below.

* `DocumentTypes.cfg` (two types; keys that clash by case and a malformed one; two
  requests of any kind; at most two fields per creation; any types and fields to begin
  with): the code implements `DocumentTypeSchemas` (`TypesComeAndGoWhole`); fields left to
  a deleted type were added while its deletion was open or later; keys of a type
  that differ in case only were not compared with one another; a type with hasExpiry
  has an expiry field, but for flags that are no booleans; a type born without either
  gets neither (`UntrackedForGood`);
  and answers put together from two reads hold together. Two requests suffice:
  a check or a read and the write that comes between; every state that a third with
  boolean flags could leave is an initial state. A list reads two types, the fewest between which
  something can happen.

What the checks of this module turned up, and the exceptions stand for:

* `AddField` stores the key before anything validates it
  (`DocumentTypeRepositoryImpl.ts:143-151`): the request is answered 400, and so is from
  then on every read of the type, of the list of types and of the overview. The example
  in the repository's `README.md:342-343` uses such keys ("Policy Number").
* `UpdateDocumentType.ts:63` compares with `=== true`; a hasExpiry of `"true"` is not
  compared but cast by the schema, and switches tracking on without an expiry field
  (`coerced`), in spite of the repository's `README.md:350` and `README.md:556`.
* `CreateDocumentType.ts:66-76` tests the `isExpiryField` of the request for truth, and
  `DocumentTypeFieldModel.ts:40-43` casts it: `hasExpiry: true` with one date field whose
  isExpiryField is `"false"`, `"0"` or `"no"` is answered 201 and stored as a type that tracks
  expiry and has no expiry field (`CastAway`, which enters the type in `coerced`), in spite
  of the same lines. `TrackedTypesHaveExpiryFields` and `AnswersAreWhole` exempt the types
  this happened to and `UntrackedForGood` exempts them too, once such a type has been
  switched to untracked; nothing else leaves a tracked type without an expiry field.
  The same string as hasExpiry of a creation, or on a field added later, is checked more
  strictly than it is stored and leaves nothing that FALSE would not.
* `AddField.ts:70` answers "Enable hasExpiry first", `UpdateDocumentType.ts` "Add an
  expiry field first": a type created with neither can follow neither
  advice. `UntrackedForGood` is that statement, for every interleaving.

### Overview (MCOverview, OverviewProofs)

Documents with an expiry date, the clocks, and `GetWorkspaceOverview` in front of them.
Time passes in ticks (`Tick`); an instant is kept as the ticks left until it, so that time
never runs out and the state space stays finite. A query carries the clock of the moment it
was sent in and is answered with the documents of the moment it settles: `Answer(q, a)` is
its answer `a` ticks after it was sent (`age`), and `Past` is longer ago than the oldest
query that is not settled. `StatusOf` is
`Document.calculateExpiryStatus` (whole days, rounded up); `Expired`, `Expiring` and `Window`
are the queries of the repository, which reckon the window with `setDate`, in days of the
local calendar: `Jump` and `JumpIn` are a change of the server's UTC offset (in a container
on UTC there is none, and `Jump` is 0). `Hit`, `Miss`, `Count` (the parallel queries, in any
order), `Store` and `QueryFails` are the use case, `ttl`, `cached` and `cachedAge` the cache
entry; `UploadDocument`, `UpdateDocument` and `DeleteDocument` change documents and do
not touch the cache; `Crash` empties it. `calm` is a history variable: the requests
since whose start nothing changed.

* `Overview.cfg` (two documents, two clients, a day of two ticks, a threshold of one
  day, a life of one tick, a jump of one tick in two, requests of at most one tick,
  one change): three queries and a subtraction say what `calculateExpiryStatus` says
  of each document, but at a change of the clocks (`AtTheJump`); an overview answered from
  the cache is at most `TTL` and the duration of one request old although a slow
  request may store over a fresher one; and the overview catches up with the
  documents (`OverviewCatchesUp`, a liveness property). Dates fall in the past, within
  the window, on its boundary and beyond it; two clients are needed for one fill to
  overtake another, and one change for a stale one.

The expiry date counts whatever the type of the document says of tracking; the note in
`docs/LLD_STATE_MACHINES.md:104-109`, by which a document of a type with hasExpiry=false is
VALID, describes something the code does not do. So do its lines 128-137 where they count
a document with 0 days left as EXPIRED: `calculateExpiryStatus` answers EXPIRING at that
very instant, and so do the queries and `StatusOf`.

### Idempotency (MCIdempotency, IdempotencyProofs)

The middleware in front of inviting, creating a work item and linking a document. `Send`
is the request, `LookupMisses`, `Replay` and `LookupFails` (fail open) the lookup,
`Execute` and `ExecuteFails` the handler as one effect, under the unique index where
the route has one (`Indexed`), `Respond` the answer, which starts the record without
awaiting it, `Settle` the end of that (recorded, lost to another record, or failed), `Expire`
the TTL index, `Undo` somebody's removal of the effect. An effect and an answer are
named after the request they belong to. The steps of a handler behind the middleware are
in the other modules; WorkspaceMembership has both in one.

* `Idempotency.cfg` (two users, two routes of which one is indexed, one body, three
  requests): an effect of a retry means that no record stood when it was looked up, or that the
  lookup failed (`NoEffectOnceRecorded`); a 2xx answer, replayed or not, is about an
  effect that happened for the same user, route and body; every request is answered
  (liveness). Three requests are one that is recorded, one that overlaps it and one that comes
  after. Bodies are compared as a whole: two routes already tell fingerprints apart.

The header of `idempotency.middleware.ts` (lines 8, 12-13) promises that no use case is
executed a second time within 24 hours; the exceptions in `NoEffectOnceRecorded` are what is left
out there: overlapping retries, an answer that is ahead of its record, a record lost in a
crash or failed, a lookup that failed. The fingerprint sorts keys with the
replacer array of `JSON.stringify`, which also drops keys of nested objects; the bodies of
the three routes have none that the handlers read.

### Choices common to all runs

`CHECK_DEADLOCK FALSE` is set where each request identifier is used once: when all have
been answered, the model stops, as the server does when nobody calls it. `Overview`, where
time goes on, is checked for deadlock.

**Fairness.** Most modules are about safety and assume none: a request there is only as
live as its client and its database. Two have liveness properties, and assume no more than
the platform gives. `Idempotency!FairSpec` has weak fairness of `Proceed(r)`, what
request `r` does once a call it awaits has settled: the driver settles every call
(with a result or an error), and the event loop runs what waits for it. Nothing is
assumed of `Settle`, the record nobody awaits, of `Send`, `Undo`, `Expire` or `Crash`.
`Overview!FairSpec` has weak fairness of `Tick` (time goes on) and of `Settle(c)` (the
same as `Proceed`, for the queries of the overview). Nothing is assumed of clients: they need
not ask, and may ask again and again (`Hit`) without keeping an entry alive.
`OverviewCatchesUp` is about what happens when documents stop changing, which they do in
the model because of the bound `MaxChanges`; documents go on expiring.

**Symmetry** is over identifiers that only equality tells apart; the runs with
liveness have none.

**Bounds.** Apart from the sets above: `MaxChanges` (changes of documents in Overview) and
`SpecLists` (at most two fields come with a new type). Identifiers of deleted things are not
used again, as the database draws new ones. The larger runs have some 300 000
(document_types) to 600 000 states (overview, idempotency) and take one to two minutes.

**Initial states** are states a history of requests can leave (any roles with an
owner and one membership per user, any statuses of existing items, any documents
with their files, dates and any links, any types with fields that fit them), so a few
requests from there see much more than a few requests from an empty database.
`Provisioning` starts empty, because what it is about is how things begin, and
`Idempotency`, because its records live for a day and all come from its own requests.

**Refinements.** `WorkItemLifecycle` implements `WorkItemStatus`, and `DocumentTypes`
implements `DocumentTypeSchemas`, both by INSTANCE with a refinement mapping: safety
without fairness, checked by TLC and proved.

Operators marked `(mutant)` are not part of a specification: they are defects a
change to the code could introduce, kept beside the definition they would replace;
each property is known to fail under at least one of them.

## Runs

| Run | Question | Outcome |
|---|---|---|
| `membership` | Do overlapping invites, role changes and removals keep memberships unique, authorised and owned? | yes; the last owner is lost only by a request that was overtaken |
| `last_owner` | Is there always an owner, as the comments say? | no: two overlapping removals or demotions |
| `provisioning` | What does a failure between four inserts leave? | one user per e-mail and whole successes, but a stranded e-mail |
| `provisioning_atomicity` | Is creating a workspace atomic, as ADR-005 says? | no |
| `work_item_lifecycle` | Do requests that read, check and compare-and-set implement the status machine? | yes; no lost update; answers and log are true |
| `work_item_priority` | Is a stored priority known, as the schema says? | no: an update stores any |
| `catalogue` | Do the checks on entities, types and items hold at the write? | but for requests that were overtaken, and names that are looked up otherwise than stored |
| `documents` | Do the two stores and the links agree? | yes; leaked files have a culprit |
| `documents_deleted_item` | Does a deletion clean up the links of an item? | not those made between its two writes |
| `document_types` | Do types come and go whole, and do flags and fields agree? | yes, but for the exceptions above |
| `overview` | How old and how consistent is what an overview shows? | bounded, consistent with the status of documents, and it catches up |
| `idempotency` | What does the middleware promise of retries? | no second effect once a record stands; own answers; always an answer |

## What is proved

TLAPS checks these for every value of the constants; TLC had checked the invariants
on the instances above first. Every invariant and action property of the passing runs,
and every type invariant, is a theorem; the two liveness properties are not.

* `WorkspaceMembershipProofs`. `TypeCorrect` and, on it, the inductive invariant `RaceInv`:
  a request that was not overtaken is up to date (`UpToDate`) - its actor still has the
  role the middleware saw, the member it is about to write is as it read it, and
  when it is to take OWNER away another owner is there. Plain `TypeOK` cannot show
  that: the proof has to carry what a request knows through the writes of others
  (`OwnStepUpToDate`, `OtherStepUpToDate`). From it `LastOwnerSafeUnlessOvertaken` (by
  cardinality: a count above one leaves somebody else), `ChangesAuthorised` and
  `RemovalFinal`. `OwnerWithoutOverlap` is the other half of the run `last_owner`: what the
  comments claim is true as long as no request is overtaken. `OneMembershipAlways` needs
  only the index. `AuditTruthfulAlways`, from `AuditInv`: between its write and its log entry
  (`AboutToLog`) a request knows that its target exists, or is removed, and no other request
  ever undoes that. Assumptions: `FiniteUsers` and `FiniteDocIds`, needed to count owners.
* `ProvisioningProofs`. `Progress` says what a request has stored when it reaches each await
  (at "owner" its workspace, from "tenant" on its user, and so on), and what call it is;
  with it `OneUserPerEmail` (the index alone) and `SuccessIsComplete` are inductive.
  `StrandedAlways` follows: a signup whose e-mail belongs to an interrupted one would have
  to store a second user of that e-mail to succeed. `WholeUnlessInterrupted` is the other half
  of the run `provisioning_atomicity`, from `OwnedUnlessInterrupted`: a workspace has its owner, or
  gets it next, or its request failed or was lost. No assumption is needed.
* `WorkItemLifecycleProofs`. `ImplementsStatusMachine`: the refinement. The invariant `MoveInv`
  says a request about to compare-and-set carries a transition legal for the status it
  read; when the comparison succeeds, that is the status the item has.
  `StatusAnswersAreTrueAlways`, from `HistoryInv`: a request writes a status at its
  compare-and-set and nowhere else, and its answer follows from whether it did.
  `NoLostUpdateAlways`, from `UpdateInv`: what a request changed is not at the status it read
  any more, or somebody has brought it back (`LeftBehind`); a second request that writes
  from the same status needs the latter, because no status leads to itself.
  `AuditTruthfulAlways` adds that nothing un-deletes an item. `UnreadableStaysSoAlways` is about
  one step: whoever reads the item first is refused, and who has read it is through. `TypeCorrect`
  shows that no status outside the enum is stored, whatever string is asked for. No
  assumption is needed.
* `CatalogueProofs`. `OneSelfUnlessOvertaken` and `TypesInUseKeptUnlessOvertaken`, from `IInv`: a
  request that is not overtaken is up to date - past the check for SELF there is none
  (or the entity to update is it), past the count of items there are none, past the
  lookup of the type it is there. `StepsSpareOthers` shows once that a step leaves the
  others where they are and overtakes those that have read what it writes;
  `OthersStayUpToDate` and `OwnStepUpToDate` follow. In the same way, from `KnowInv` (what such a
  request `Knows` of the parent, the name and the entity it has looked up, and that items are
  named after answered requests), `ParentsFitUnlessOvertaken`, `NamesDifferUnlessUnchecked` and
  `ItemsFitUnlessOvertaken`. `ChecksHoldWithoutOverlap` draws the conclusion: the checks are enough
  for requests that follow each other. `TypeCorrect`, from `BornInv`, holds of overtaken
  requests too: what was looked up once was there then, and nothing becomes unborn again, so no
  reference is to something that never was. Assumptions: that placeholders are not
  roles, restrictions, entities or requests (`RolesAreNoStates`, `RestrictionsAreNoStates`,
  `NoneIsNoEntity`, `BeforeIsNoRequest`).
* `DocumentsProofs`. `FilesOutliveDocuments`, from `FileInv`: between PutObject and the insert an
  upload alone works on its file, whose document does not exist; a deletion that
  touches a file has seen its document deleted, and documents do not come back.
  `OneDeletionSucceeds`, from `EraseInv`: a deletion past deleteOne is the only one.
  `DeletionLeavesOnlyLaterLinks`, from `LinksInv`. The rest builds on `BaseInv` (those three,
  and which operation is at which await). `OrphansExplained`, from `OrphanInv`: a file whose
  document is not yet stored has its upload, one whose document is deleted its deletion, in
  flight or spoilt - stronger than the property, which does not say which of the two.
  `LinkedOnceAlways`, from `PairsInv`: who has inserted a link either still finds it there or
  has been followed by a removal. `LinkedListsAreComplete`, from `ListInv`: what links and
  requests name has been uploaded, so a document that was not found is gone for good.
  `StoresAgreeAtRest` draws a conclusion from the first two properties: requests that all
  succeed leave the database and the object store in agreement.
  Assumption: `NoneIsNoDocument`, that the placeholder is not a document.
* `DocumentTypesProofs`. `IInv` has `Global` parts, the properties of the collections, and one
  `Local` part per request: what its reads and checks say of the collections as they
  are now. Nothing a request has read protects itself from the others, so the proof shows
  once (`OthersKeepTheirReads`) that steps respect three facts - a type is born once and stays
  deleted, the fields of a type only grow while it is there, and an expiry field that was there
  stays - and that such steps keep the `Local` part of every other request. From it
  `OrphansCameLate`, `KeysClashUnchecked`, `TrackedTypesCanExpire`, `UntrackedAlways`, `AnswersWhole`
  and the refinement `ImplementsSchemas`. Assumption: `MalformedKeys`, malformed keys are keys.
* `OverviewProofs`. `StalenessIsBounded`, from `InTime` (no request outlives `MaxFill`), and
  `CountsMatch`, from `CalmCounts` (what was counted since anything changed would be counted now)
  and `CeilingOfDays`, the lemma about whole days, rounded up, that makes the clock of
  `calculateExpiryStatus` and the window of the query meet at the boundary. Assumptions:
  `Ticks`, `DatesAreTicks`, and `FiniteDocIds` for the subtraction of counts.
* `IdempotencyProofs`. `NoSecondEffect` and `ReplaysAreOwn`, from `RecordsStand` and
  `StandingIsRecorded`: the collection and its history agree, so that a miss means nothing
  stood, and a record found by a fingerprint is of a request with that fingerprint.
  Assumptions: `IndexedPaths` and `NoneIsNoRequest`.

The type invariants of Provisioning, DocumentTypes, Overview and Idempotency are proved
(`TypeCorrect`) and not checked in the runs, which keep to properties that say more.

Only model-checked: the liveness properties `OverviewCatchesUp` and `EveryRequestAnswered`
(liveness under fairness is out of the prover's reach, and so is ENABLED), and the four
properties that runs show to be violated. Induction over data and RECURSIVE operators
would be out of reach too; no module uses any of them.

## Not modelled

* Login and tokens: a read of the user and cryptography in libraries; no state. The
  models start with an authenticated user.
* Sockets: rooms are kept by socket.io and joined by whoever asks; an event is emitted
  after the audit record, is never repeated and carries ids only. Nothing in the program
  reads what was emitted, so there is no state to relate it to.
* Presenters and DTOs (formatting); list queries, filters and paging (single reads);
  rate limits, configuration and wiring; the local file storage that no route uses;
  `updateField` and `deleteField` of the document type repository, which no use case calls.
* References between modules that the code checks once and never again: documents of
  deleted entities, links to deleted documents (GetLinkedDocuments filters them:
  `LinkedListIsComplete`), cycles of parents. There is no promise to check.
* `UploadDocument` passes the workspace to `DocumentTypeRepositoryImpl.findById`
  (`UploadDocument.ts:27`), which takes only the id (`DocumentTypeRepositoryImpl.ts:66`), so
  the type's workspace is not compared although the message of the error says so. Documents
  abstracts the existence of types to an arbitrary answer, which covers either.

## Plan

1. Conclusions in the manner of `OwnerWithoutOverlap`, `ChecksHoldWithoutOverlap` and
   `WholeUnlessInterrupted` where there are none yet: no second effect without overlap, crash,
   failure or expiry (Idempotency), flags and keys without overlap (DocumentTypes).
2. An abstract specification of WorkspaceMembership in which a change is authorised, checked
   and written in one step, which the code implements as long as no request is overtaken.
3. The safety half of the two liveness properties: what has to be stuck for ever for a
   request not to be answered or an overview not to catch up.
4. A property for the one hazard that has none, a link to a document that was deleted after
   `LinkDocument` found it.
