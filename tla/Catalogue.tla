------------------------------ MODULE Catalogue ------------------------------
(***************************************************************************)
(* Entities, work item types and the references work items make to them,   *)
(* in one workspace.                                                       *)
(*                                                                         *)
(* MongoDB knows no foreign keys and, for entities, no unique index: at    *)
(* most one SELF entity, a parent that is no EMPLOYEE, types deleted only  *)
(* when no item uses them, items of types and entities that exist - all of *)
(* it is checked by reads of the use cases, awaits before the one write    *)
(* they guard.  An action is the code from one await to the next (the      *)
(* audit log, which nothing here reads, goes with the write before it).    *)
(*                                                                         *)
(* Entities are looked up by _id alone, so a request may refer to an       *)
(* entity of another workspace; those are Foreign and do not change here.  *)
(* Status, links and all other fields of items are left to other modules.  *)
(***************************************************************************)
CONSTANTS
  EntityIds,     \* _ids of entities (bound of the model) ...
  Foreign,       \*   and which of them are of another workspace
  Names,         \* names of work item types, in lower case ...
  Spellings,     \*   and ways to write each
  Roles,         \* EntityRole: "SELF", "EMPLOYEE" and others
  Restrictions,  \* entityType of work item types: "any", or a role
  Requests       \* HTTP requests; each is made at most once

ASSUME ForeignEntities == Foreign \subseteq EntityIds
ASSUME RolesAreNoStates == Roles \cap {"unborn", "deleted", "keep"} = {}
ASSUME RestrictionsAreNoStates == Restrictions \cap {"unborn", "deleted", "none"} = {}
ASSUME NoneIsNoEntity == EntityIds \cap {"none", "keep"} = {}
ASSUME BeforeIsNoRequest == "before" \notin Requests

VARIABLES
  entity,     \* the entities collection: _id -> role, "unborn" or "deleted"
  parent,     \* parentId of each entity, or "none"
  type,       \* the workitemtypes collection: type -> restriction, "unborn"
              \* or "deleted"
  items,      \* the workitems collection, as [by, type, entity]: an item is
              \* named after the request that creates it
  pc,         \* the await each request is suspended at
  call,       \* the request itself
  seen,       \* restriction of the type a CreateWorkItem has read
  overtaken   \* history: requests in flight when another one has written a
              \* collection their checks read

store == <<entity, parent, type, items>>
vars == <<store, pc, call, seen, overtaken>>

\* A type document is identified by its name as written: the unique index on
\* (workspaceId, name) is exact.  Bound: a deleted one is not inserted again.
TypeIds == [name : Names, spelling : Spellings]
Own == EntityIds \ Foreign
Creators == Requests \cup {"before"}
Items == [by : Creators, type : TypeIds, entity : EntityIds]

EntityCreates == [op : {"createEntity"}, role : Roles, parent : EntityIds \cup {"none"}]
EntityUpdates == [op : {"updateEntity"}, entity : EntityIds, role : Roles \cup {"keep"},
                  parent : EntityIds \cup {"none", "keep"}]
EntityDeletes == [op : {"deleteEntity"}, entity : EntityIds]
\* missed: the name as it was sent does not match the one it is stored under,
\* because of blanks around it or characters that mean something in a pattern.
TypeCreates == [op : {"createType"}, type : TypeIds, restriction : Restrictions,
                missed : BOOLEAN]
TypeDeletes == [op : {"deleteType"}, type : TypeIds]
ItemCreates == [op : {"createItem"}, type : TypeIds, entity : EntityIds]
ItemMoves == [op : {"moveItem"}, item : Creators, entity : EntityIds]
ItemDeletes == [op : {"deleteItem"}, item : Creators]
Calls == EntityCreates \cup EntityUpdates \cup EntityDeletes \cup TypeCreates
           \cup TypeDeletes \cup ItemCreates \cup ItemMoves \cup ItemDeletes
NoCall == [op |-> "none"]

\* The requests whose checks read each collection.
EntityReaders == EntityCreates \cup EntityUpdates \cup EntityDeletes \cup ItemCreates
                   \cup ItemMoves
TypeReaders == TypeCreates \cup TypeDeletes \cup ItemCreates
ItemReaders == TypeDeletes \cup ItemMoves \cup ItemDeletes

InFlight == {r \in Requests : pc[r] \notin {"new", "done"}}

EntityStored(e) == entity[e] \in Roles
TypeStored(t) == type[t] \in Restrictions
SelfEntities == {e \in Own : entity[e] = "SELF"}
SameNameExactly(t) == {u \in TypeIds : TypeStored(u) /\ u = t}   \* (mutant) case counts
\* What findByName looks for: it ignores case.
SameName(t) == {u \in TypeIds : TypeStored(u) /\ u.name = t.name}
ItemsOf(t) == {x \in items : x.type = t}

AtMostOneSelf == \A e, f \in SelfEntities : e = f
NamesDiffer ==
  \A t, u \in TypeIds : TypeStored(t) /\ TypeStored(u) /\ t.name = u.name => t = u
TypesOfItemsStored == \A x \in items : TypeStored(x.type)

\* What requests that did not overlap can leave behind: any entities and types, and
\* perhaps an item.  Parents are set by the requests of the model.
Init ==
  /\ entity \in [EntityIds -> Roles \cup {"unborn"}]
  /\ \A e \in Foreign : entity[e] # "unborn"
  /\ parent = [e \in EntityIds |-> "none"]
  /\ type \in [TypeIds -> Restrictions \cup {"unborn"}]
  /\ AtMostOneSelf /\ NamesDiffer
  /\ \/ items = {}
     \/ \E t \in TypeIds, e \in EntityIds :
          /\ TypeStored(t) /\ EntityStored(e)
          /\ items = {[by |-> "before", type |-> t, entity |-> e]}
  /\ pc = [r \in Requests |-> "new"]
  /\ call = [r \in Requests |-> NoCall]
  /\ seen = [r \in Requests |-> "none"]
  /\ overtaken = {}

-----------------------------------------------------------------------------

Goto(r, label) == pc' = [pc EXCEPT ![r] = label] /\ UNCHANGED <<call, seen, overtaken>>

\* The request is answered, by whatever status: what it held in memory is gone.
Finish(r, overtakes) ==
  /\ pc' = [pc EXCEPT ![r] = "done"]
  /\ call' = [call EXCEPT ![r] = NoCall]
  /\ seen' = [seen EXCEPT ![r] = "none"]
  /\ overtaken' = (overtaken \cup overtakes) \ {r}

Refuse(r) == Finish(r, {}) /\ UNCHANGED store

Overtakes(readers) == {q \in InFlight : call[q] \in readers}

\* A write of one collection, after which the request is answered.
FinishWriting(r, readers) == Finish(r, Overtakes(readers))

\* The first query of a handler finds what it must: the entity, of this workspace
\* (404, 403), no type of that name (400), the type or the item (404).
\* CreateEntity begins by looking up the workspace, which is always there.
FirstQueryPasses(c) ==
  /\ c \in EntityUpdates \cup EntityDeletes => c.entity \in Own /\ EntityStored(c.entity)
  /\ c \in TypeCreates => c.missed \/ SameName(c.type) = {}
  /\ c \in TypeDeletes \cup ItemCreates => TypeStored(c.type)
  /\ c \in ItemMoves \cup ItemDeletes => \E x \in items : x.by = c.item

\* UpdateEntity looks for another SELF only when the role becomes SELF, and for the
\* parent when there is one to set; UpdateWorkItem for the entity when it changes.
SecondAwait(c) ==
  CASE c.op = "createEntity" ->
         IF c.role = "SELF" THEN "findSelf"
         ELSE IF c.parent # "none" THEN "findParent" ELSE "insertEntity"
    [] c.op = "updateEntity" ->
         IF c.role = "SELF" /\ entity[c.entity] # "SELF" THEN "findSelf"
         ELSE IF c.parent \in EntityIds THEN "findParent" ELSE "updateEntity"
    [] c.op = "deleteEntity" -> "deleteEntity"
    [] c.op = "createType" -> "insertType"
    [] c.op = "deleteType" -> "countItems"
    [] c.op = "createItem" -> "findItemEntity"
    [] c.op = "moveItem" ->
         IF \E x \in items : x.by = c.item /\ x.entity = c.entity THEN "moveItem"
         ELSE "findItemEntity"
    [] c.op = "deleteItem" -> "deleteItem"

\* The middleware has let the request through, the checks of its body that need
\* no query are passed, and the first query is answered.
Begin(r, c) ==
  /\ pc[r] = "new"
  /\ \/ /\ FirstQueryPasses(c)
        /\ pc' = [pc EXCEPT ![r] = SecondAwait(c)]
        /\ call' = [call EXCEPT ![r] = c]
        /\ seen' = IF c.op = "createItem" THEN [seen EXCEPT ![r] = type[c.type]] ELSE seen
        /\ UNCHANGED <<store, overtaken>>
     \/ ~ FirstQueryPasses(c) /\ Refuse(r)

-----------------------------------------------------------------------------
(* Entities.                                                               *)

WriteOf(c) == IF c.op = "createEntity" THEN "insertEntity" ELSE "updateEntity"

\* (mutant) the number of SELF entities found is compared with one.
FindSelfOffByOne(r) ==
  /\ pc[r] = "findSelf"
  /\ \E e \in Own : SelfEntities \subseteq {e}
  /\ Goto(r, IF call[r].parent \in EntityIds THEN "findParent" ELSE WriteOf(call[r]))
  /\ UNCHANGED store

\* "Enforce at most one SELF entity per workspace": 409.
FindSelf(r) ==
  /\ pc[r] = "findSelf"
  /\ \/ SelfEntities # {} /\ Refuse(r)
     \/ /\ SelfEntities = {}
        /\ Goto(r, IF call[r].parent \in EntityIds THEN "findParent" ELSE WriteOf(call[r]))
        /\ UNCHANGED store

\* (mutant) a parent that is not found is not refused.
FindParentUnchecked(r) ==
  /\ pc[r] = "findParent"
  /\ entity[call[r].parent] # "EMPLOYEE"
  /\ Goto(r, WriteOf(call[r]))
  /\ UNCHANGED store

\* "Parent entity cannot be an EMPLOYEE": 404, 400.  The parent may be of another
\* workspace, and for an update the entity itself.
FindParent(r) ==
  /\ pc[r] = "findParent"
  /\ LET p == call[r].parent
     IN \/ (~ EntityStored(p) \/ entity[p] = "EMPLOYEE") /\ Refuse(r)
        \/ /\ EntityStored(p) /\ entity[p] # "EMPLOYEE"
           /\ Goto(r, WriteOf(call[r]))
           /\ UNCHANGED store

InsertEntity(r) ==
  /\ pc[r] = "insertEntity"
  /\ \E e \in Own :
       /\ entity[e] = "unborn"
       /\ entity' = [entity EXCEPT ![e] = call[r].role]
       /\ parent' = [parent EXCEPT ![e] = call[r].parent]
  /\ FinishWriting(r, EntityReaders)
  /\ UNCHANGED <<type, items>>

\* findByIdAndUpdate of the given fields; 404 when the entity is gone by now.
WriteEntity(r) ==
  /\ pc[r] = "updateEntity"
  /\ LET c == call[r]
     IN \/ /\ EntityStored(c.entity)
           /\ entity' = IF c.role = "keep" THEN entity
                        ELSE [entity EXCEPT ![c.entity] = c.role]
           /\ parent' = IF c.parent = "keep" THEN parent
                        ELSE [parent EXCEPT ![c.entity] = c.parent]
           /\ FinishWriting(r, EntityReaders)
           /\ UNCHANGED <<type, items>>
        \/ ~ EntityStored(c.entity) /\ Refuse(r)

\* findByIdAndDelete.  Nobody looks at children, items or documents.
DeleteEntity(r) ==
  /\ pc[r] = "deleteEntity"
  /\ LET e == call[r].entity
     IN \/ /\ EntityStored(e)
           /\ entity' = [entity EXCEPT ![e] = "deleted"]
           /\ FinishWriting(r, EntityReaders)
           /\ UNCHANGED <<parent, type, items>>
        \/ ~ EntityStored(e) /\ Refuse(r)

-----------------------------------------------------------------------------
(* Work item types.                                                        *)

\* The insert; the unique index (exact case) may still reject it: 500.
InsertType(r) ==
  /\ pc[r] = "insertType"
  /\ LET t == call[r].type
     IN \/ /\ type[t] = "unborn"
           /\ type' = [type EXCEPT ![t] = call[r].restriction]
           /\ FinishWriting(r, TypeReaders)
           /\ UNCHANGED <<entity, parent, items>>
        \/ TypeStored(t) /\ Refuse(r)

\* (mutant) the items of the type are not counted.
CountItemsForgotten(r) == pc[r] = "countItems" /\ Goto(r, "deleteType") /\ UNCHANGED store

\* "Cannot delete: ... work item(s) reference this type": 400.
CountItems(r) ==
  /\ pc[r] = "countItems"
  /\ \/ ItemsOf(call[r].type) # {} /\ Refuse(r)
     \/ /\ ItemsOf(call[r].type) = {}
        /\ Goto(r, "deleteType")
        /\ UNCHANGED store

\* deleteOne, whose result nobody looks at.
DeleteType(r) ==
  /\ pc[r] = "deleteType"
  /\ type' = [type EXCEPT ![call[r].type] = "deleted"]
  /\ FinishWriting(r, TypeReaders)
  /\ UNCHANGED <<entity, parent, items>>

-----------------------------------------------------------------------------
(* Work items.                                                             *)

\* (mutant) the restriction is read from the type but not compared.
FindItemEntityUnrestricted(r) ==
  /\ pc[r] = "findItemEntity"
  /\ EntityStored(call[r].entity)
  /\ Goto(r, IF call[r].op = "createItem" THEN "insertItem" ELSE "moveItem")
  /\ UNCHANGED store

\* The entity of a new item (404), whose role must be the one the type asks for
\* (400); or the entity an item is moved to, whose role is not looked at.
FindItemEntity(r) ==
  /\ pc[r] = "findItemEntity"
  /\ LET c == call[r]
         Fits == EntityStored(c.entity)
                   /\ (c.op = "createItem" => seen[r] \in {"any", entity[c.entity]})
     IN \/ ~ Fits /\ Refuse(r)
        \/ Fits /\ Goto(r, IF c.op = "createItem" THEN "insertItem" ELSE "moveItem")
                /\ UNCHANGED store

InsertItem(r) ==
  /\ pc[r] = "insertItem"
  /\ items' = items \cup {[by |-> r, type |-> call[r].type, entity |-> call[r].entity]}
  /\ FinishWriting(r, ItemReaders)
  /\ UNCHANGED <<entity, parent, type>>

\* UpdateWorkItem; 404 when the item is gone by now.
MoveItem(r) ==
  /\ pc[r] = "moveItem"
  /\ \/ \E x \in items :
          /\ x.by = call[r].item
          /\ items' = (items \ {x}) \cup {[x EXCEPT !.entity = call[r].entity]}
          /\ FinishWriting(r, ItemReaders)
          /\ UNCHANGED <<entity, parent, type>>
     \/ (\A x \in items : x.by # call[r].item) /\ Refuse(r)

\* DeleteWorkItem, whose deleteOne nobody looks at.
RemoveItem(r) ==
  /\ pc[r] = "deleteItem"
  /\ items' = {x \in items : x.by # call[r].item}
  /\ FinishWriting(r, ItemReaders)
  /\ UNCHANGED <<entity, parent, type>>

-----------------------------------------------------------------------------

\* A database call rejects, or its answer does not validate: nothing is undone,
\* and there is nothing to undo before the one write.
DatabaseError(r) == r \in InFlight /\ Refuse(r)

Step(r) ==
  \/ \E c \in Calls : Begin(r, c)
  \/ FindSelf(r) \/ FindParent(r)
  \/ InsertEntity(r) \/ WriteEntity(r) \/ DeleteEntity(r)
  \/ InsertType(r) \/ CountItems(r) \/ DeleteType(r)
  \/ FindItemEntity(r) \/ InsertItem(r) \/ MoveItem(r) \/ RemoveItem(r)
  \/ DatabaseError(r)

Next == \E r \in Requests : Step(r)

Spec == Init /\ [][Next]_vars
-----------------------------------------------------------------------------
(* Properties.                                                             *)

Awaits == {"new", "findSelf", "findParent", "insertEntity", "updateEntity",
           "deleteEntity", "insertType", "countItems", "deleteType",
           "findItemEntity", "insertItem", "moveItem", "deleteItem", "done"}

\* Every variable has the shape the code gives it; parents, and the types and
\* entities of items, are or were there.
TypeOK ==
  /\ entity \in [EntityIds -> Roles \cup {"unborn", "deleted"}]
  /\ parent \in [EntityIds -> {e \in EntityIds : entity[e] # "unborn"} \cup {"none"}]
  /\ type \in [TypeIds -> Restrictions \cup {"unborn", "deleted"}]
  /\ items \subseteq Items
  /\ \A x \in items : type[x.type] # "unborn" /\ entity[x.entity] # "unborn"
  /\ pc \in [Requests -> Awaits]
  /\ call \in [Requests -> Calls \cup {NoCall}]
  /\ seen \in [Requests -> Restrictions \cup {"none"}]
  /\ overtaken \subseteq InFlight

Overtaken(labels) == \E r \in overtaken : pc[r] \in labels

\* CreateEntity and UpdateEntity look for a SELF entity before they write, and no
\* index backs them: a second one appears only through a request that another
\* write of the collection has overtaken.
SelfDuplicatedOnlyWhenOvertaken ==
  [][AtMostOneSelf /\ ~ AtMostOneSelf' =>
       Overtaken({"insertEntity", "updateEntity"})]_vars

\* An entity gets a parent that is there and is no EMPLOYEE, unless the request
\* was overtaken.
ParentsFit ==
  [][\A e \in EntityIds :
       parent'[e] # parent[e] /\ parent'[e] # "none" =>
         \/ EntityStored(parent'[e]) /\ entity[parent'[e]] # "EMPLOYEE"
         \/ Overtaken({"insertEntity", "updateEntity"})]_vars

\* Type names are unique whatever their case, although the index is exact: two
\* spellings of one appear only through a CreateWorkItemType that was overtaken, or
\* whose findByName looked for another text than create stores.
NamesDuplicatedOnlyUnchecked ==
  [][NamesDiffer /\ ~ NamesDiffer' =>
       \E r \in Requests : pc[r] = "insertType" /\ (r \in overtaken \/ call[r].missed)]_vars

\* DeleteWorkItemType counts the items of the type, CreateWorkItem looks the type
\* up: an item is left without its type only when one has overtaken the other.
TypesInUseLostOnlyWhenOvertaken ==
  [][TypesOfItemsStored /\ ~ TypesOfItemsStored' =>
       Overtaken({"insertItem", "deleteType"})]_vars

\* An item refers to an entity that is there and, when the item is new, has the
\* role its type asks for, unless the request was overtaken.
ItemsFitEntities ==
  [][\A x \in items' \ items :
       \/ /\ EntityStored(x.entity)
          /\ \/ \E y \in items : y.by = x.by
             \/ type[x.type] \in {"any", entity[x.entity]}
       \/ Overtaken({"insertItem", "moveItem"})]_vars
=============================================================================
