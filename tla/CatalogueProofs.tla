--------------------------- MODULE CatalogueProofs ---------------------------
(***************************************************************************)
(* What the checks of the Catalogue are worth, for any entities, types and *)
(* requests: a request that no other write has overtaken still knows the   *)
(* truth when it writes (IInv, KnowInv), and overtaken or not it refers to *)
(* nothing that never was (BornInv).                                       *)
(***************************************************************************)
EXTENDS Catalogue, TLAPS

EntityWrites == EntityCreates \cup EntityUpdates

\* The kind of request that is suspended at each await.
Fits(c, label) ==
  /\ label \in {"new", "done"} <=> c = NoCall
  /\ label \in {"findSelf", "findParent"} => c \in EntityWrites
  /\ label = "insertEntity" => c \in EntityCreates
  /\ label = "updateEntity" => c \in EntityUpdates
  /\ label = "deleteEntity" => c \in EntityDeletes
  /\ label = "insertType" => c \in TypeCreates
  /\ label \in {"countItems", "deleteType"} => c \in TypeDeletes
  /\ label = "findItemEntity" => c \in ItemCreates \cup ItemMoves
  /\ label = "insertItem" => c \in ItemCreates
  /\ label = "moveItem" => c \in ItemMoves
  /\ label = "deleteItem" => c \in ItemDeletes

\* The part of the state the arguments below are about.
Shape ==
  /\ entity \in [EntityIds -> Roles \cup {"unborn", "deleted"}]
  /\ type \in [TypeIds -> Restrictions \cup {"unborn", "deleted"}]
  /\ items \subseteq Items
  /\ pc \in [Requests -> Awaits]
  /\ call \in [Requests -> Calls \cup {NoCall}]
  /\ seen \in [Requests -> Restrictions \cup {"none"}]
  /\ \A r \in Requests : Fits(call[r], pc[r])
  /\ overtaken \subseteq Requests
  /\ \A r \in overtaken : pc[r] # "new"

\* A request that makes an entity SELF and is past looking for another one: there
\* is none, or the entity is SELF as it is.
KnowsSelf(r) ==
  pc[r] \in {"findParent", "insertEntity", "updateEntity"} /\ call[r].role = "SELF" =>
    \/ SelfEntities = {}
    \/ call[r].op = "updateEntity" /\ entity[call[r].entity] = "SELF"

\* A request past counting the items of a type, or past reading the type of an item.
KnowsItems(r) ==
  /\ pc[r] = "deleteType" => ItemsOf(call[r].type) = {}
  /\ pc[r] \in {"findItemEntity", "insertItem"} /\ call[r].op = "createItem" =>
       TypeStored(call[r].type)

UpToDate == \A r \in Requests \ overtaken : KnowsSelf(r) /\ KnowsItems(r)

IInv == Shape /\ UpToDate

-----------------------------------------------------------------------------
(* The shape.                                                              *)

LEMMA CallsAreOfOneKind ==
  /\ \A c \in EntityCreates : c.op = "createEntity" /\ c.role \in Roles
                               /\ c.parent \in EntityIds \cup {"none"}
  /\ \A c \in EntityUpdates : c.op = "updateEntity" /\ c.entity \in EntityIds
                               /\ c.role \in Roles \cup {"keep"}
                               /\ c.parent \in EntityIds \cup {"none", "keep"}
  /\ \A c \in EntityDeletes : c.op = "deleteEntity" /\ c.entity \in EntityIds
  /\ \A c \in TypeCreates : c.op = "createType" /\ c.type \in TypeIds
                             /\ c.restriction \in Restrictions
  /\ \A c \in TypeDeletes : c.op = "deleteType" /\ c.type \in TypeIds
  /\ \A c \in ItemCreates : c.op = "createItem" /\ c.type \in TypeIds
                             /\ c.entity \in EntityIds
  /\ \A c \in ItemMoves : c.op = "moveItem" /\ c.entity \in EntityIds
  /\ \A c \in ItemDeletes : c.op = "deleteItem"
  /\ NoCall.op = "none"
BY DEF EntityCreates, EntityUpdates, EntityDeletes, TypeCreates, TypeDeletes,
       ItemCreates, ItemMoves, ItemDeletes, NoCall

\* A request begins with an await of its own kind.
LEMMA SecondAwaitFits ==
  \A c \in Calls : SecondAwait(c) \in Awaits \ {"new"} /\ Fits(c, SecondAwait(c))
<1> SUFFICES ASSUME NEW c \in Calls
             PROVE SecondAwait(c) \in Awaits \ {"new"} /\ Fits(c, SecondAwait(c))
  OBVIOUS
<1> USE CallsAreOfOneKind DEF SecondAwait, Fits, Awaits, EntityWrites
<1>1. CASE c \in EntityCreates
  BY <1>1
<1>2. CASE c \in EntityUpdates
  BY <1>2
<1>3. CASE c \in EntityDeletes \cup TypeCreates \cup TypeDeletes
  BY <1>3
<1>4. CASE c \in ItemCreates \cup ItemMoves \cup ItemDeletes
  BY <1>4
<1>5. QED
  BY <1>1, <1>2, <1>3, <1>4 DEF Calls

LEMMA ShapeInit == Init => Shape
<1> SUFFICES ASSUME Init PROVE Shape
  OBVIOUS
<1>1. items \subseteq Items
  BY DEF Init, Items, Creators
<1>2. QED
  BY <1>1 DEF Init, Shape, Awaits, Fits

LEMMA ShapeNext == Shape /\ [Next]_vars => Shape'
<1> SUFFICES ASSUME Shape, [Next]_vars PROVE Shape'
  OBVIOUS
<1> USE DEF Shape, Goto, Finish, Refuse, FinishWriting, Overtakes, InFlight, store
<1>1. ASSUME NEW r \in Requests, NEW c \in Calls, Begin(r, c) PROVE Shape'
  <2>1. CASE FirstQueryPasses(c)
    <3>1. c.op = "createItem" => type[c.type] \in Restrictions
      BY <2>1, CallsAreOfOneKind DEF FirstQueryPasses, TypeStored, Calls
    <3>2. seen' \in [Requests -> Restrictions \cup {"none"}]
      BY <1>1, <2>1, <3>1 DEF Begin
    <3>3. /\ pc' = [pc EXCEPT ![r] = SecondAwait(c)] /\ call' = [call EXCEPT ![r] = c]
          /\ UNCHANGED <<store, overtaken>> /\ c \in Calls /\ r \in Requests
          /\ SecondAwait(c) \in Awaits \ {"new"} /\ Fits(c, SecondAwait(c))
      BY <1>1, <2>1, SecondAwaitFits DEF Begin
    <3>4. QED
      BY <3>2, <3>3
  <2>2. CASE ~ FirstQueryPasses(c)
    BY <1>1, <2>2 DEF Begin, Fits, Awaits
  <2>3. QED
    BY <2>1, <2>2
<1>2. ASSUME NEW r \in Requests, FindSelf(r) \/ FindParent(r) PROVE Shape'
  BY <1>2, CallsAreOfOneKind
     DEF FindSelf, FindParent, WriteOf, Fits, Awaits, EntityWrites
<1>3. ASSUME NEW r \in Requests, InsertEntity(r) \/ WriteEntity(r) \/ DeleteEntity(r)
      PROVE Shape'
  BY <1>3, CallsAreOfOneKind
     DEF InsertEntity, WriteEntity, DeleteEntity, Fits, Awaits
<1>4. ASSUME NEW r \in Requests, InsertType(r) \/ CountItems(r) \/ DeleteType(r)
      PROVE Shape'
  BY <1>4, CallsAreOfOneKind DEF InsertType, CountItems, DeleteType, Fits, Awaits
<1>5. ASSUME NEW r \in Requests,
             FindItemEntity(r) \/ InsertItem(r) \/ MoveItem(r) \/ RemoveItem(r)
      PROVE Shape'
  BY <1>5, CallsAreOfOneKind
     DEF FindItemEntity, InsertItem, MoveItem, RemoveItem, Fits, Awaits, Items, Creators
<1>6. ASSUME NEW r \in Requests, DatabaseError(r) PROVE Shape'
  BY <1>6 DEF DatabaseError, Fits, Awaits
<1>7. CASE UNCHANGED vars
  BY <1>7 DEF vars
<1>8. QED
  BY <1>1, <1>2, <1>3, <1>4, <1>5, <1>6, <1>7 DEF Next, Step
-----------------------------------------------------------------------------
(* What a step does to the requests of others: it leaves them where they   *)
(* are, and those that have read the collection it writes are overtaken.   *)

Spares(r, readers) ==
  /\ \A q \in Requests \ {r} :
       pc'[q] = pc[q] /\ call'[q] = call[q] /\ seen'[q] = seen[q]
  /\ \A q \in Requests \ {r} : q \in overtaken => q \in overtaken'
  /\ \A q \in Requests \ {r} :
       pc[q] \notin {"new", "done"} /\ call[q] \in readers => q \in overtaken'

LEMMA StepsSpareOthers ==
  ASSUME Shape, NEW r \in Requests, Step(r)
  PROVE  \/ UNCHANGED store /\ Spares(r, {})
         \/ UNCHANGED <<type, items>> /\ Spares(r, EntityReaders)
         \/ UNCHANGED <<entity, items>> /\ Spares(r, TypeReaders)
         \/ UNCHANGED <<entity, type>> /\ Spares(r, ItemReaders)
<1> USE DEF Shape, Goto, Finish, Refuse, FinishWriting, Overtakes, InFlight, store, Spares
<1>1. ASSUME NEW c \in Calls, Begin(r, c) PROVE UNCHANGED store /\ Spares(r, {})
  BY <1>1 DEF Begin
<1>2. ASSUME FindSelf(r) \/ FindParent(r) \/ CountItems(r) \/ FindItemEntity(r)
                \/ DatabaseError(r)
      PROVE UNCHANGED store /\ Spares(r, {})
  BY <1>2 DEF FindSelf, FindParent, CountItems, FindItemEntity, DatabaseError
<1>3. ASSUME InsertEntity(r) \/ WriteEntity(r) \/ DeleteEntity(r)
      PROVE \/ UNCHANGED store /\ Spares(r, {})
            \/ UNCHANGED <<type, items>> /\ Spares(r, EntityReaders)
  BY <1>3 DEF InsertEntity, WriteEntity, DeleteEntity
<1>4. ASSUME InsertType(r) \/ DeleteType(r)
      PROVE \/ UNCHANGED store /\ Spares(r, {})
            \/ UNCHANGED <<entity, items>> /\ Spares(r, TypeReaders)
  BY <1>4 DEF InsertType, DeleteType
<1>5. ASSUME InsertItem(r) \/ MoveItem(r) \/ RemoveItem(r)
      PROVE \/ UNCHANGED store /\ Spares(r, {})
            \/ UNCHANGED <<entity, type>> /\ Spares(r, ItemReaders)
  BY <1>5 DEF InsertItem, MoveItem, RemoveItem
<1>6. QED
  BY <1>1, <1>2, <1>3, <1>4, <1>5 DEF Step

-----------------------------------------------------------------------------
(* A request that is not overtaken is up to date.                          *)

LEMMA OthersStayUpToDate ==
  ASSUME Shape, UpToDate, NEW r \in Requests, Step(r),
         NEW q \in Requests \ {r}, q \notin overtaken'
  PROVE  KnowsSelf(q)' /\ KnowsItems(q)'
<1>1. q \notin overtaken /\ pc'[q] = pc[q] /\ call'[q] = call[q]
  BY StepsSpareOthers DEF Spares
<1>2. KnowsSelf(q) /\ KnowsItems(q) /\ Fits(call[q], pc[q])
  BY <1>1 DEF UpToDate, Shape
<1>3. ASSUME pc[q] \in {"findParent", "insertEntity", "updateEntity"}
      PROVE  entity' = entity
  BY <1>2, <1>3, StepsSpareOthers DEF Spares, store, Fits, EntityWrites, EntityReaders
<1>4. ASSUME pc[q] = "deleteType" PROVE items' = items
  BY <1>2, <1>4, StepsSpareOthers DEF Spares, store, Fits, ItemReaders
<1>5. ASSUME pc[q] \in {"findItemEntity", "insertItem"}, call[q].op = "createItem"
      PROVE  type' = type
  BY <1>2, <1>5, StepsSpareOthers, CallsAreOfOneKind DEF Spares, store, Fits, TypeReaders
<1>6. KnowsSelf(q)'
  BY <1>1, <1>2, <1>3 DEF KnowsSelf, SelfEntities
<1>7. KnowsItems(q)'
  BY <1>1, <1>2, <1>4, <1>5 DEF KnowsItems, ItemsOf, TypeStored
<1>8. QED
  BY <1>6, <1>7

LEMMA OwnStepUpToDate ==
  ASSUME Shape, UpToDate, NEW r \in Requests, Step(r), r \notin overtaken'
  PROVE  KnowsSelf(r)' /\ KnowsItems(r)'
<1> USE DEF Goto, Finish, Refuse, FinishWriting, store
<1>1. ASSUME NEW c \in Calls, Begin(r, c) PROVE KnowsSelf(r)' /\ KnowsItems(r)'
  <2>1. CASE ~ FirstQueryPasses(c)
    BY <1>1, <2>1 DEF Begin, KnowsSelf, KnowsItems, Shape
  <2>2. CASE FirstQueryPasses(c)
    <3>1. /\ pc'[r] = SecondAwait(c) /\ call'[r] = c /\ UNCHANGED store
      BY <1>1, <2>2 DEF Begin, Shape
    <3>2. Fits(c, SecondAwait(c))
      BY SecondAwaitFits
    <3>3. KnowsSelf(r)'
      <4>1. CASE c \in EntityCreates
        BY <3>1, <4>1, CallsAreOfOneKind DEF KnowsSelf, SecondAwait
      <4>2. CASE c \in EntityUpdates
        BY <3>1, <4>2, CallsAreOfOneKind DEF KnowsSelf, SecondAwait
      <4>3. CASE c \notin EntityWrites
        BY <3>1, <3>2, <4>3 DEF KnowsSelf, Fits, EntityWrites
      <4>4. QED
        BY <4>1, <4>2, <4>3 DEF EntityWrites
    <3>4. KnowsItems(r)'
      <4>1. SecondAwait(c) # "deleteType"
        BY CallsAreOfOneKind DEF SecondAwait, Calls
      <4>2. ASSUME c.op = "createItem" PROVE TypeStored(c.type)
        BY <2>2, <4>2, CallsAreOfOneKind DEF FirstQueryPasses, Calls
      <4>3. QED
        BY <3>1, <4>1, <4>2 DEF KnowsItems, TypeStored
    <3>5. QED
      BY <3>3, <3>4
  <2>3. QED
    BY <2>1, <2>2
<1>2. ASSUME FindSelf(r) \/ FindParent(r) PROVE KnowsSelf(r)' /\ KnowsItems(r)'
  BY <1>2, CallsAreOfOneKind
     DEF FindSelf, FindParent, WriteOf, UpToDate, KnowsSelf, KnowsItems, SelfEntities,
         Shape, Fits, EntityWrites
<1>3. ASSUME CountItems(r) PROVE KnowsSelf(r)' /\ KnowsItems(r)'
  BY <1>3, CallsAreOfOneKind
     DEF CountItems, KnowsSelf, KnowsItems, ItemsOf, Shape, Fits
<1>4. ASSUME FindItemEntity(r) PROVE KnowsSelf(r)' /\ KnowsItems(r)'
  BY <1>4, CallsAreOfOneKind
     DEF FindItemEntity, UpToDate, KnowsSelf, KnowsItems, TypeStored, Shape, Fits
<1>5. ASSUME \/ InsertEntity(r) \/ WriteEntity(r) \/ DeleteEntity(r)
             \/ InsertType(r) \/ DeleteType(r)
             \/ InsertItem(r) \/ MoveItem(r) \/ RemoveItem(r) \/ DatabaseError(r)
      PROVE KnowsSelf(r)' /\ KnowsItems(r)'
  <2>1. pc'[r] = "done"
    BY <1>5
       DEF InsertEntity, WriteEntity, DeleteEntity, InsertType, DeleteType, InsertItem,
           MoveItem, RemoveItem, DatabaseError, Shape
  <2>2. QED
    BY <2>1 DEF KnowsSelf, KnowsItems
<1>6. QED
  BY <1>1, <1>2, <1>3, <1>4, <1>5 DEF Step

LEMMA UpToDateAlways == Spec => []IInv
<1>1. Init => IInv
  BY ShapeInit DEF Init, IInv, UpToDate, KnowsSelf, KnowsItems
<1>2. IInv /\ [Next]_vars => IInv'
  <2> SUFFICES ASSUME IInv, [Next]_vars PROVE IInv'
    OBVIOUS
  <2>1. Shape'
    BY ShapeNext DEF IInv
  <2>2. ASSUME NEW r \in Requests, Step(r) PROVE UpToDate'
    BY <2>2, OthersStayUpToDate, OwnStepUpToDate DEF IInv, UpToDate
  <2>3. ASSUME UNCHANGED vars PROVE UpToDate'
    BY <2>3 DEF vars, store, IInv, UpToDate, KnowsSelf, KnowsItems, SelfEntities, ItemsOf,
                TypeStored
  <2>4. QED
    BY <2>1, <2>2, <2>3 DEF IInv, Next
<1>3. QED
  BY <1>1, <1>2, PTL DEF Spec

-----------------------------------------------------------------------------
(* The theorems.                                                           *)

\* The checks of CreateEntity and UpdateEntity are enough unless requests overlap:
\* a second SELF entity is only written by a request another one has overtaken.
THEOREM OneSelfUnlessOvertaken == Spec => SelfDuplicatedOnlyWhenOvertaken
<1>1. IInv /\ [Next]_vars =>
        [AtMostOneSelf /\ ~ AtMostOneSelf' => Overtaken({"insertEntity", "updateEntity"})]_vars
  <2> SUFFICES ASSUME IInv, Next, AtMostOneSelf, ~ AtMostOneSelf'
               PROVE Overtaken({"insertEntity", "updateEntity"})
    BY DEF vars
  <2>1. PICK r \in Requests : Step(r)
    BY DEF Next
  <2>2. InsertEntity(r) \/ WriteEntity(r) \/ DeleteEntity(r)
    BY <2>1
       DEF Step, Begin, FindSelf, FindParent, InsertType, CountItems, DeleteType,
           FindItemEntity, InsertItem, MoveItem, RemoveItem, DatabaseError, Goto, Refuse,
           store, AtMostOneSelf, SelfEntities
  <2>3. CASE DeleteEntity(r)
    BY <2>3 DEF DeleteEntity, Refuse, store, AtMostOneSelf, SelfEntities, Own, IInv, Shape
  <2>4. CASE InsertEntity(r)
    <3>1. call[r].op = "createEntity"
      BY <2>4, CallsAreOfOneKind DEF InsertEntity, IInv, Shape, Fits
    <3>2. r \notin overtaken /\ call[r].role = "SELF" => SelfEntities = {}
      BY <2>4, <3>1 DEF InsertEntity, IInv, UpToDate, KnowsSelf
    <3>3. QED
      BY <2>4, <3>2
         DEF InsertEntity, AtMostOneSelf, SelfEntities, Overtaken, IInv, Shape
  <2>5. CASE WriteEntity(r)
    <3>1. call[r].entity \in EntityIds
      BY <2>5, CallsAreOfOneKind DEF WriteEntity, IInv, Shape, Fits
    <3>2. r \notin overtaken /\ call[r].role = "SELF" =>
            SelfEntities = {} \/ entity[call[r].entity] = "SELF"
      BY <2>5 DEF WriteEntity, IInv, UpToDate, KnowsSelf
    <3>3. QED
      BY <2>5, <3>1, <3>2
         DEF WriteEntity, Refuse, store, AtMostOneSelf, SelfEntities, Own, Overtaken, IInv,
             Shape
  <2>6. QED
    BY <2>2, <2>3, <2>4, <2>5
<1>2. QED
  BY UpToDateAlways, <1>1, PTL DEF Spec, SelfDuplicatedOnlyWhenOvertaken

\* DeleteWorkItemType and CreateWorkItem lose the type of an item only when one of
\* them has overtaken the other between its check and its write.
THEOREM TypesInUseKeptUnlessOvertaken == Spec => TypesInUseLostOnlyWhenOvertaken
<1>1. IInv /\ [Next]_vars =>
        [TypesOfItemsStored /\ ~ TypesOfItemsStored' =>
           Overtaken({"insertItem", "deleteType"})]_vars
  <2> SUFFICES ASSUME IInv, Next, TypesOfItemsStored, ~ TypesOfItemsStored'
               PROVE Overtaken({"insertItem", "deleteType"})
    BY DEF vars
  <2>1. PICK r \in Requests : Step(r)
    BY DEF Next
  <2>2. \/ InsertType(r) \/ DeleteType(r)
        \/ InsertItem(r) \/ MoveItem(r) \/ RemoveItem(r)
    BY <2>1
       DEF Step, Begin, FindSelf, FindParent, InsertEntity, WriteEntity, DeleteEntity,
           CountItems, FindItemEntity, DatabaseError, Goto, Refuse, store,
           TypesOfItemsStored, TypeStored
  <2>3. CASE RemoveItem(r)
    BY <2>3 DEF RemoveItem, TypesOfItemsStored, TypeStored
  <2>4. CASE MoveItem(r)
    BY <2>4 DEF MoveItem, Refuse, store, TypesOfItemsStored, TypeStored, IInv, Shape, Items
  <2>5. CASE InsertType(r)
    <3>1. call[r].type \in TypeIds /\ call[r].restriction \in Restrictions
      BY <2>5, CallsAreOfOneKind DEF InsertType, IInv, Shape, Fits
    <3>2. QED
      BY <2>5, <3>1
         DEF InsertType, Refuse, store, TypesOfItemsStored, TypeStored, IInv, Shape, Items
  <2>6. CASE InsertItem(r)
    <3>1. call[r].op = "createItem"
      BY <2>6, CallsAreOfOneKind DEF InsertItem, IInv, Shape, Fits
    <3>2. r \notin overtaken => TypeStored(call[r].type)
      BY <2>6, <3>1 DEF InsertItem, IInv, UpToDate, KnowsItems
    <3>3. QED
      BY <2>6, <3>2 DEF InsertItem, TypesOfItemsStored, TypeStored, Overtaken
  <2>7. CASE DeleteType(r)
    <3>1. r \notin overtaken => ItemsOf(call[r].type) = {}
      BY <2>7 DEF DeleteType, IInv, UpToDate, KnowsItems
    <3>2. QED
      BY <2>7, <3>1
         DEF DeleteType, ItemsOf, TypesOfItemsStored, TypeStored, Overtaken, IInv, Shape
  <2>8. QED
    BY <2>2, <2>3, <2>4, <2>5, <2>6, <2>7
<1>2. QED
  BY UpToDateAlways, <1>1, PTL DEF Spec, TypesInUseLostOnlyWhenOvertaken

-----------------------------------------------------------------------------
(* What a request refers to has been there when it looked, and is never    *)
(* unborn again, overtaken or not.                                         *)

Met(r) ==
  /\ pc[r] \in {"insertEntity", "updateEntity"} /\ call[r].parent \in EntityIds =>
       entity[call[r].parent] # "unborn"
  /\ pc[r] \in {"findItemEntity", "insertItem"} /\ call[r].op = "createItem" =>
       type[call[r].type] # "unborn"
  /\ pc[r] \in {"insertItem", "moveItem"} => entity[call[r].entity] # "unborn"

Born ==
  /\ parent \in [EntityIds -> EntityIds \cup {"none"}]
  /\ \A e \in EntityIds : parent[e] # "none" => entity[parent[e]] # "unborn"
  /\ \A x \in items : type[x.type] # "unborn" /\ entity[x.entity] # "unborn"

BornInv ==
  /\ Shape /\ Born
  /\ \A r \in overtaken : pc[r] # "done"
  /\ \A r \in Requests : Met(r)

\* Entities and types are born once.
LEMMA NothingUnborn ==
  ASSUME Shape, NEW r \in Requests, Step(r)
  PROVE  /\ \A e \in EntityIds : entity[e] # "unborn" => entity'[e] # "unborn"
         /\ \A t \in TypeIds : type[t] # "unborn" => type'[t] # "unborn"
<1> USE DEF Shape, Refuse, store
<1>1. ASSUME NEW e \in EntityIds, entity[e] # "unborn" PROVE entity'[e] # "unborn"
  <2>1. CASE InsertEntity(r)
    BY <1>1, <2>1 DEF InsertEntity
  <2>2. CASE WriteEntity(r)
    BY <1>1, <2>2, CallsAreOfOneKind, RolesAreNoStates DEF WriteEntity, Fits
  <2>3. CASE DeleteEntity(r)
    BY <1>1, <2>3 DEF DeleteEntity
  <2>4. CASE UNCHANGED entity
    BY <1>1, <2>4
  <2>5. QED
    BY <2>1, <2>2, <2>3, <2>4
       DEF Step, Begin, FindSelf, FindParent, InsertType, CountItems, DeleteType,
           FindItemEntity, InsertItem, MoveItem, RemoveItem, DatabaseError
<1>2. ASSUME NEW t \in TypeIds, type[t] # "unborn" PROVE type'[t] # "unborn"
  <2>1. CASE InsertType(r)
    BY <1>2, <2>1 DEF InsertType
  <2>2. CASE DeleteType(r)
    BY <1>2, <2>2 DEF DeleteType
  <2>3. CASE UNCHANGED type
    BY <1>2, <2>3
  <2>4. QED
    BY <2>1, <2>2, <2>3
       DEF Step, Begin, FindSelf, FindParent, InsertEntity, WriteEntity, DeleteEntity,
           CountItems, FindItemEntity, InsertItem, MoveItem, RemoveItem, DatabaseError
<1>3. QED
  BY <1>1, <1>2

\* The entities and types that a request looks for.
LEMMA WhatCallsName ==
  ASSUME NEW c \in Calls, NEW label, Fits(c, label)
  PROVE  /\ label \in {"findItemEntity", "insertItem"} /\ c.op = "createItem" =>
              c.type \in TypeIds
         /\ label \in {"findItemEntity", "insertItem", "moveItem"} => c.entity \in EntityIds
         /\ label \in {"insertType", "countItems", "deleteType"} => c.type \in TypeIds
         /\ label = "insertItem" => c.op = "createItem"
         /\ label = "insertEntity" => c.op = "createEntity"
         /\ label = "updateEntity" => c.op = "updateEntity" /\ c.entity \in EntityIds
         /\ label \in {"findParent", "insertEntity", "updateEntity"} =>
              c.parent \in EntityIds \cup {"none", "keep"}
BY CallsAreOfOneKind DEF Fits, EntityWrites, Calls

\* The first query of a request that goes straight to its write.
LEMMA StraightToWrite ==
  ASSUME NEW c \in Calls
  PROVE  /\ SecondAwait(c) \in {"insertEntity", "updateEntity"} => c.parent \notin EntityIds
         /\ SecondAwait(c) # "insertItem"
         /\ SecondAwait(c) = "moveItem" =>
              \E x \in items : x.by = c.item /\ x.entity = c.entity
         /\ SecondAwait(c) = "insertType" => c.op = "createType"
<1>1. CASE c \in EntityCreates
  <2>1. c.op = "createEntity" /\ c.parent \in EntityIds \cup {"none"}
    BY <1>1, CallsAreOfOneKind
  <2>2. SecondAwait(c) = "insertEntity" => c.parent = "none"
    BY <2>1 DEF SecondAwait
  <2>3. SecondAwait(c) \in {"findSelf", "findParent", "insertEntity"}
    BY <2>1 DEF SecondAwait
  <2>4. QED
    BY <2>2, <2>3, NoneIsNoEntity
<1>2. CASE c \in EntityUpdates
  <2>1. c.op = "updateEntity"
    BY <1>2, CallsAreOfOneKind
  <2>2. SecondAwait(c) = "updateEntity" => c.parent \notin EntityIds
    BY <2>1 DEF SecondAwait
  <2>3. SecondAwait(c) \in {"findSelf", "findParent", "updateEntity"}
    BY <2>1 DEF SecondAwait
  <2>4. QED
    BY <2>2, <2>3
<1>3. CASE c.op \in {"deleteEntity", "createType", "deleteType", "createItem", "deleteItem"}
  BY <1>3 DEF SecondAwait
<1>4. CASE c.op = "moveItem"
  <2>1. /\ SecondAwait(c) \in {"moveItem", "findItemEntity"}
        /\ SecondAwait(c) = "moveItem" => \E x \in items : x.by = c.item /\ x.entity = c.entity
    BY <1>4 DEF SecondAwait
  <2>2. QED
    BY <2>1
<1>5. QED
  BY <1>1, <1>2, <1>3, <1>4, CallsAreOfOneKind DEF Calls

LEMMA MetNext ==
  ASSUME BornInv, NEW r \in Requests, Step(r)
  PROVE  \A q \in Requests : Met(q)'
<1> USE DEF BornInv, Shape, Goto, Finish, Refuse, FinishWriting, store
<1>0. \A q \in Requests : pc[q] \notin {"new", "done"} => call[q] \in Calls
  BY DEF Fits
<1>1. ASSUME NEW q \in Requests \ {r} PROVE Met(q)'
  <2>1. pc'[q] = pc[q] /\ call'[q] = call[q] /\ Met(q) /\ Fits(call[q], pc[q])
    BY StepsSpareOthers DEF Spares
  <2>2. QED
    BY <1>0, <2>1, NothingUnborn, WhatCallsName DEF Met
<1>2. Met(r)'
  <2>1. ASSUME NEW c \in Calls, Begin(r, c) PROVE Met(r)'
    <3>1. CASE ~ FirstQueryPasses(c)
      BY <2>1, <3>1 DEF Begin, Met
    <3>2. CASE FirstQueryPasses(c)
      <4>1. pc'[r] = SecondAwait(c) /\ call'[r] = c /\ UNCHANGED store
        BY <2>1, <3>2 DEF Begin
      <4>2. c.op = "createItem" => type[c.type] # "unborn"
        BY <3>2, CallsAreOfOneKind, RestrictionsAreNoStates
           DEF FirstQueryPasses, TypeStored, Calls
      <4>3. QED
        BY <4>1, <4>2, StraightToWrite DEF Met, Born
    <3>3. QED
      BY <3>1, <3>2
  <2>2. CASE FindSelf(r)
    BY <2>2, CallsAreOfOneKind DEF FindSelf, WriteOf, Met
  <2>3. CASE FindParent(r)
    BY <2>3, CallsAreOfOneKind, RolesAreNoStates DEF FindParent, EntityStored, WriteOf, Met
  <2>4. CASE FindItemEntity(r)
    BY <2>4, RolesAreNoStates DEF FindItemEntity, EntityStored, Met
  <2>5. CASE CountItems(r)
    BY <2>5 DEF CountItems, Met
  <2>6. ASSUME \/ InsertEntity(r) \/ WriteEntity(r) \/ DeleteEntity(r)
               \/ InsertType(r) \/ DeleteType(r)
               \/ InsertItem(r) \/ MoveItem(r) \/ RemoveItem(r) \/ DatabaseError(r)
        PROVE Met(r)'
    <3>1. pc'[r] = "done"
      BY <2>6
         DEF InsertEntity, WriteEntity, DeleteEntity, InsertType, DeleteType, InsertItem,
             MoveItem, RemoveItem, DatabaseError
    <3>2. QED
      BY <3>1 DEF Met
  <2>7. QED
    BY <2>1, <2>2, <2>3, <2>4, <2>5, <2>6 DEF Step
<1>3. QED
  BY <1>1, <1>2

\* The writes of parents and of items, which are the only ones to add references.
LEMMA BornNext ==
  ASSUME BornInv, NEW r \in Requests, Step(r)
  PROVE  Born'
<1> USE DEF BornInv, Shape, Refuse, store
<1>0. /\ \A e \in EntityIds : entity[e] # "unborn" => entity'[e] # "unborn"
      /\ \A t \in TypeIds : type[t] # "unborn" => type'[t] # "unborn"
      /\ \A x \in items : x.type \in TypeIds /\ x.entity \in EntityIds
      /\ \A e \in EntityIds : parent[e] # "none" => parent[e] \in EntityIds
      /\ pc[r] \notin {"new", "done"} => call[r] \in Calls
  BY NothingUnborn DEF Items, Born, Fits
<1>1. CASE UNCHANGED <<parent, items>>
  BY <1>0, <1>1 DEF Born
<1>2. CASE InsertEntity(r)
  <2>1. PICK e \in Own : /\ parent' = [parent EXCEPT ![e] = call[r].parent]
                         /\ items' = items
    BY <1>2 DEF InsertEntity
  <2>2. /\ call[r].parent \in EntityIds \cup {"none"}
        /\ call[r].parent \in EntityIds => entity[call[r].parent] # "unborn"
    BY <1>2, CallsAreOfOneKind DEF InsertEntity, Fits, Met
  <2>3. QED
    BY <1>0, <2>1, <2>2, NoneIsNoEntity DEF Born, Own
<1>3. CASE WriteEntity(r)
  <2>1. \/ parent' = parent
        \/ /\ parent' = [parent EXCEPT ![call[r].entity] = call[r].parent]
           /\ call[r].parent # "keep"
    BY <1>3 DEF WriteEntity
  <2>2. /\ call[r].parent \in EntityIds \cup {"none", "keep"}
        /\ call[r].parent \in EntityIds => entity[call[r].parent] # "unborn"
        /\ items' = items
    BY <1>3, CallsAreOfOneKind DEF WriteEntity, Fits, Met
  <2>3. QED
    BY <1>0, <2>1, <2>2, NoneIsNoEntity DEF Born
<1>4. CASE InsertItem(r)
  <2>1. /\ type[call[r].type] # "unborn" /\ entity[call[r].entity] # "unborn"
        /\ UNCHANGED <<entity, parent, type>>
    BY <1>4, CallsAreOfOneKind DEF InsertItem, Fits, Met
  <2>2. QED
    BY <1>4, <2>1 DEF InsertItem, Born
<1>5. CASE MoveItem(r)
  <2>1. entity[call[r].entity] # "unborn"
    BY <1>5 DEF MoveItem, Met
  <2>2. CASE UNCHANGED items
    BY <1>0, <1>5, <2>2 DEF MoveItem, Born
  <2>3. ASSUME NEW x \in items,
               items' = (items \ {x}) \cup {[x EXCEPT !.entity = call[r].entity]}
        PROVE Born'
    <3>1. /\ [x EXCEPT !.entity = call[r].entity].type = x.type
          /\ [x EXCEPT !.entity = call[r].entity].entity = call[r].entity
      BY <2>3 DEF Items
    <3>2. UNCHANGED <<entity, parent, type>>
      BY <1>5 DEF MoveItem
    <3>3. QED
      BY <2>1, <2>3, <3>1, <3>2 DEF Born
  <2>4. QED
    BY <1>5, <2>2, <2>3 DEF MoveItem
<1>6. CASE RemoveItem(r)
  BY <1>0, <1>6 DEF RemoveItem, Born
<1>7. QED
  BY <1>1, <1>2, <1>3, <1>4, <1>5, <1>6
     DEF Step, Begin, FindSelf, FindParent, InsertType, CountItems, DeleteType,
         FindItemEntity, DeleteEntity, DatabaseError, Goto

LEMMA OvertakenInFlight ==
  ASSUME BornInv, NEW r \in Requests, Step(r)
  PROVE  \A q \in overtaken' : pc'[q] # "done"
<1> USE DEF BornInv, Shape, Goto, Finish, Refuse, FinishWriting, Overtakes, InFlight, store
<1>1. ASSUME NEW c \in Calls, Begin(r, c) PROVE \A q \in overtaken' : pc'[q] # "done"
  BY <1>1 DEF Begin
<1>2. CASE FindSelf(r) \/ FindParent(r) \/ CountItems(r) \/ FindItemEntity(r)
             \/ DatabaseError(r)
  BY <1>2 DEF FindSelf, FindParent, CountItems, FindItemEntity, DatabaseError, WriteOf
<1>3. CASE InsertEntity(r) \/ WriteEntity(r) \/ DeleteEntity(r)
  BY <1>3 DEF InsertEntity, WriteEntity, DeleteEntity
<1>4. CASE InsertType(r) \/ DeleteType(r)
  BY <1>4 DEF InsertType, DeleteType
<1>5. CASE InsertItem(r) \/ MoveItem(r) \/ RemoveItem(r)
  BY <1>5 DEF InsertItem, MoveItem, RemoveItem
<1>6. QED
  BY <1>1, <1>2, <1>3, <1>4, <1>5 DEF Step

LEMMA BornInvAlways == Spec => []BornInv
<1>1. Init => BornInv
  <2> SUFFICES ASSUME Init PROVE BornInv
    OBVIOUS
  <2>1. Shape
    BY ShapeInit
  <2>2. Born
    BY RolesAreNoStates, RestrictionsAreNoStates DEF Init, Born, TypeStored, EntityStored
  <2>3. QED
    BY <2>1, <2>2 DEF Init, BornInv, Met
<1>2. BornInv /\ [Next]_vars => BornInv'
  <2> SUFFICES ASSUME BornInv, [Next]_vars PROVE BornInv'
    OBVIOUS
  <2>1. Shape'
    BY ShapeNext DEF BornInv
  <2>2. CASE Next
    BY <2>1, <2>2, BornNext, OvertakenInFlight, MetNext DEF BornInv, Next
  <2>3. CASE UNCHANGED vars
    BY <2>1, <2>3 DEF vars, store, BornInv, Born, Met
  <2>4. QED
    BY <2>2, <2>3
<1>3. QED
  BY <1>1, <1>2, PTL DEF Spec

\* Every variable has the shape the code gives it: in particular a reference is
\* to something that is or was there, overlapping requests or not (TypeOK).
THEOREM TypeCorrect == Spec => []TypeOK
<1>1. BornInv => TypeOK
  <2> SUFFICES ASSUME BornInv PROVE TypeOK
    OBVIOUS
  <2>1. parent \in [EntityIds -> {e \in EntityIds : entity[e] # "unborn"} \cup {"none"}]
    BY DEF BornInv, Born
  <2>2. overtaken \subseteq InFlight
    BY DEF BornInv, Shape, InFlight
  <2>3. QED
    BY <2>1, <2>2 DEF BornInv, Born, Shape, TypeOK
<1>2. QED
  BY <1>1, BornInvAlways, PTL

-----------------------------------------------------------------------------
(* What else a request that is not overtaken still knows when it writes:   *)
(* that the parent it looked up fits, that no type has the name it looked  *)
(* for, and that the entity of its item is there, in the role that the     *)
(* type asks of a new item.                                                *)

KnowsParent(r) ==
  pc[r] \in {"insertEntity", "updateEntity"} /\ call[r].parent \in EntityIds =>
    EntityStored(call[r].parent) /\ entity[call[r].parent] # "EMPLOYEE"

KnowsName(r) ==
  pc[r] = "insertType" /\ ~ call[r].missed => SameName(call[r].type) = {}

KnowsEntity(r) ==
  /\ pc[r] = "findItemEntity" /\ call[r].op = "createItem" => seen[r] = type[call[r].type]
  /\ pc[r] = "insertItem" =>
       /\ EntityStored(call[r].entity)
       /\ type[call[r].type] \in {"any", entity[call[r].entity]}
  /\ pc[r] = "moveItem" =>
       \/ EntityStored(call[r].entity)
       \/ \E x \in items : x.by = call[r].item /\ x.entity = call[r].entity

Knows(r) == KnowsParent(r) /\ KnowsName(r) /\ KnowsEntity(r)

\* An item is named after the request that creates it, which creates no other.
ItemsNamed ==
  /\ \A x, y \in items : x.by = y.by => x = y
  /\ \A x \in items : x.by \in Requests => pc[x.by] = "done"

KnowInv == Shape /\ ItemsNamed /\ \A r \in Requests \ overtaken : Knows(r)

LEMMA OthersStillKnow ==
  ASSUME KnowInv, NEW r \in Requests, Step(r), NEW q \in Requests \ {r}, q \notin overtaken'
  PROVE  Knows(q)'
<1>1. /\ q \notin overtaken
      /\ pc'[q] = pc[q] /\ call'[q] = call[q] /\ seen'[q] = seen[q]
  BY StepsSpareOthers DEF KnowInv, Spares
<1>2. Knows(q) /\ Fits(call[q], pc[q])
  BY <1>1 DEF KnowInv, Shape
<1>3. ASSUME pc[q] \in {"insertEntity", "updateEntity", "findItemEntity", "insertItem", "moveItem"}
      PROVE  entity' = entity
  BY <1>2, <1>3, StepsSpareOthers DEF KnowInv, Spares, store, Fits, EntityReaders
<1>4. ASSUME \/ pc[q] \in {"insertType", "insertItem"}
             \/ pc[q] = "findItemEntity" /\ call[q].op = "createItem"
      PROVE  type' = type
  BY <1>2, <1>4, StepsSpareOthers, CallsAreOfOneKind
     DEF KnowInv, Spares, store, Fits, TypeReaders
<1>5. ASSUME pc[q] = "moveItem" PROVE items' = items
  BY <1>2, <1>5, StepsSpareOthers DEF KnowInv, Spares, store, Fits, ItemReaders
<1>6. KnowsParent(q)'
  BY <1>1, <1>2, <1>3 DEF Knows, KnowsParent, EntityStored
<1>7. KnowsName(q)'
  BY <1>1, <1>2, <1>4 DEF Knows, KnowsName, SameName, TypeStored
<1>8. KnowsEntity(q)'
  BY <1>1, <1>2, <1>3, <1>4, <1>5 DEF Knows, KnowsEntity, EntityStored
<1>9. QED
  BY <1>6, <1>7, <1>8 DEF Knows

LEMMA OwnStepKnows ==
  ASSUME KnowInv, NEW r \in Requests, Step(r), r \notin overtaken'
  PROVE  Knows(r)'
<1> USE DEF Goto, Finish, Refuse, FinishWriting, store
<1>0. Shape /\ Fits(call[r], pc[r])
  BY DEF KnowInv, Shape
<1>1. ASSUME NEW c \in Calls, Begin(r, c) PROVE Knows(r)'
  <2>1. CASE ~ FirstQueryPasses(c)
    BY <1>0, <1>1, <2>1 DEF Begin, Knows, KnowsParent, KnowsName, KnowsEntity, Shape
  <2>2. CASE FirstQueryPasses(c)
    <3>1. /\ pc'[r] = SecondAwait(c) /\ call'[r] = c /\ UNCHANGED store
          /\ c.op = "createItem" => seen'[r] = type[c.type]
      BY <1>0, <1>1, <2>2 DEF Begin, Shape
    <3>2. KnowsParent(r)'
      BY <3>1, StraightToWrite DEF KnowsParent
    <3>3. KnowsName(r)'
      <4>1. SecondAwait(c) = "insertType" => c \in TypeCreates
        BY SecondAwaitFits DEF Fits
      <4>2. QED
        BY <2>2, <3>1, <4>1 DEF KnowsName, FirstQueryPasses, SameName, TypeStored
    <3>4. KnowsEntity(r)'
      BY <3>1, StraightToWrite DEF KnowsEntity
    <3>5. QED
      BY <3>2, <3>3, <3>4 DEF Knows
  <2>3. QED
    BY <2>1, <2>2
<1>2. CASE FindSelf(r)
  <2>1. \/ pc'[r] = "done" \/ pc'[r] = "findParent"
        \/ pc'[r] \in {"insertEntity", "updateEntity"} /\ call'[r].parent \notin EntityIds
    BY <1>0, <1>2 DEF FindSelf, WriteOf, Shape
  <2>2. QED
    BY <2>1 DEF Knows, KnowsParent, KnowsName, KnowsEntity
<1>3. CASE FindParent(r)
  <2>1. \/ pc'[r] = "done"
        \/ /\ pc'[r] \in {"insertEntity", "updateEntity"}
           /\ EntityStored(call[r].parent) /\ entity[call[r].parent] # "EMPLOYEE"
           /\ call' = call /\ entity' = entity
    BY <1>0, <1>3 DEF FindParent, WriteOf, Shape
  <2>2. QED
    BY <2>1 DEF Knows, KnowsParent, KnowsName, KnowsEntity, EntityStored
<1>4. CASE FindItemEntity(r)
  <2>1. r \notin overtaken' /\ call[r] \in ItemCreates \cup ItemMoves
        /\ (call[r].op = "createItem" <=> call[r] \in ItemCreates)
    BY <1>0, <1>4, CallsAreOfOneKind DEF FindItemEntity, Fits
  <2>2. CASE pc'[r] = "done"
    BY <2>2 DEF Knows, KnowsParent, KnowsName, KnowsEntity
  <2>3. CASE pc'[r] # "done"
    <3>1. /\ EntityStored(call[r].entity)
          /\ call[r].op = "createItem" => seen[r] \in {"any", entity[call[r].entity]}
          /\ pc'[r] = IF call[r].op = "createItem" THEN "insertItem" ELSE "moveItem"
          /\ UNCHANGED <<store, call, seen, overtaken>>
      BY <1>0, <1>4, <2>3 DEF FindItemEntity, Shape
    <3>2. call[r].op = "createItem" => seen[r] = type[call[r].type]
      BY <1>4, <2>1, <3>1 DEF FindItemEntity, KnowInv, Knows, KnowsEntity
    <3>3. QED
      BY <3>1, <3>2 DEF Knows, KnowsParent, KnowsName, KnowsEntity, EntityStored
  <2>4. QED
    BY <2>2, <2>3
<1>5. CASE CountItems(r)
  <2>1. pc'[r] \in {"deleteType", "done"}
    BY <1>0, <1>5 DEF CountItems, Shape
  <2>2. QED
    BY <2>1 DEF Knows, KnowsParent, KnowsName, KnowsEntity
<1>6. ASSUME \/ InsertEntity(r) \/ WriteEntity(r) \/ DeleteEntity(r)
             \/ InsertType(r) \/ DeleteType(r)
             \/ InsertItem(r) \/ MoveItem(r) \/ RemoveItem(r) \/ DatabaseError(r)
      PROVE Knows(r)'
  <2>1. pc'[r] = "done"
    BY <1>0, <1>6
       DEF InsertEntity, WriteEntity, DeleteEntity, InsertType, DeleteType, InsertItem,
           MoveItem, RemoveItem, DatabaseError, Shape
  <2>2. QED
    BY <2>1 DEF Knows, KnowsParent, KnowsName, KnowsEntity
<1>7. QED
  BY <1>1, <1>2, <1>3, <1>4, <1>5, <1>6 DEF Step

LEMMA ItemsNamedNext ==
  ASSUME KnowInv, NEW r \in Requests, Step(r)
  PROVE  ItemsNamed'
<1> USE DEF Goto, Finish, Refuse, FinishWriting, store
<1>0. Shape /\ ItemsNamed
  BY DEF KnowInv
\* Whoever takes a step has not been answered yet, so no item is named after it.
<1>1. pc[r] # "done"
  BY DEF Step, Begin, FindSelf, FindParent, InsertEntity, WriteEntity, DeleteEntity,
         InsertType, CountItems, DeleteType, FindItemEntity, InsertItem, MoveItem,
         RemoveItem, DatabaseError, InFlight
<1>2. \A x \in items : x.by # r /\ (x.by \in Requests => pc'[x.by] = "done")
  BY <1>0, <1>1, StepsSpareOthers DEF ItemsNamed, Spares
<1>3. CASE UNCHANGED items
  BY <1>0, <1>2, <1>3 DEF ItemsNamed
<1>4. CASE InsertItem(r)
  <2>1. /\ items' = items \cup {[by |-> r, type |-> call[r].type, entity |-> call[r].entity]}
        /\ pc'[r] = "done"
    BY <1>0, <1>4 DEF InsertItem, Shape
  <2>2. QED
    BY <1>0, <1>2, <2>1 DEF ItemsNamed
<1>5. CASE MoveItem(r)
  <2>1. ASSUME NEW x \in items,
               items' = (items \ {x}) \cup {[x EXCEPT !.entity = call[r].entity]}
        PROVE  ItemsNamed'
    <3>1. [x EXCEPT !.entity = call[r].entity].by = x.by
      BY <1>0 DEF Shape, Items
    <3>2. PICK z : z.by = x.by /\ items' = (items \ {x}) \cup {z}
      BY <2>1, <3>1
    <3>3. QED
      BY <1>0, <1>2, <3>2 DEF ItemsNamed
  <2>2. QED
    BY <1>3, <1>5, <2>1 DEF MoveItem
<1>6. CASE RemoveItem(r)
  BY <1>0, <1>2, <1>6 DEF RemoveItem, ItemsNamed
<1>7. QED
  BY <1>3, <1>4, <1>5, <1>6
     DEF Step, Begin, FindSelf, FindParent, InsertEntity, WriteEntity, DeleteEntity,
         InsertType, CountItems, DeleteType, FindItemEntity, DatabaseError

LEMMA KnowInvAlways == Spec => []KnowInv
<1>1. Init => KnowInv
  BY ShapeInit, BeforeIsNoRequest
     DEF Init, KnowInv, ItemsNamed, Knows, KnowsParent, KnowsName, KnowsEntity
<1>2. KnowInv /\ [Next]_vars => KnowInv'
  <2> SUFFICES ASSUME KnowInv, [Next]_vars PROVE KnowInv'
    OBVIOUS
  <2>1. Shape'
    BY ShapeNext DEF KnowInv
  <2>2. ASSUME NEW r \in Requests, Step(r) PROVE KnowInv'
    BY <2>1, <2>2, ItemsNamedNext, OthersStillKnow, OwnStepKnows DEF KnowInv
  <2>3. ASSUME UNCHANGED vars PROVE KnowInv'
    BY <2>1, <2>3 DEF vars, store, KnowInv, ItemsNamed, Knows, KnowsParent, KnowsName,
                      KnowsEntity, EntityStored, SameName, TypeStored
  <2>4. QED
    BY <2>2, <2>3 DEF Next
<1>3. QED
  BY <1>1, <1>2, PTL DEF Spec

\* The parent that CreateEntity or UpdateEntity has looked up is still there, and no
\* EMPLOYEE, when it is written - unless another write of an entity came between.
THEOREM ParentsFitUnlessOvertaken == Spec => ParentsFit
<1>1. KnowInv /\ [Next]_vars =>
        [\A e \in EntityIds :
           parent'[e] # parent[e] /\ parent'[e] # "none" =>
             \/ EntityStored(parent'[e]) /\ entity[parent'[e]] # "EMPLOYEE"
             \/ Overtaken({"insertEntity", "updateEntity"})]_vars
  <2> SUFFICES ASSUME KnowInv, Next,
                      NEW e \in EntityIds, parent'[e] # parent[e], parent'[e] # "none"
               PROVE  \/ EntityStored(parent'[e]) /\ entity[parent'[e]] # "EMPLOYEE"
                      \/ Overtaken({"insertEntity", "updateEntity"})
    BY DEF vars
  <2>1. PICK r \in Requests : Step(r)
    BY DEF Next
  <2>2. InsertEntity(r) \/ WriteEntity(r)
    BY <2>1
       DEF Step, Begin, FindSelf, FindParent, DeleteEntity, InsertType, CountItems,
           DeleteType, FindItemEntity, InsertItem, MoveItem, RemoveItem, DatabaseError,
           Goto, Refuse, store
  <2>3. call[r].parent \in EntityIds \cup {"none", "keep"}
    BY <2>2, CallsAreOfOneKind DEF InsertEntity, WriteEntity, KnowInv, Shape, Fits
  <2>4. parent'[e] = call[r].parent /\ call[r].parent # "keep"
    <3>1. CASE InsertEntity(r)
      <4>1. call[r].parent # "keep"
        BY <3>1, CallsAreOfOneKind, NoneIsNoEntity DEF InsertEntity, KnowInv, Shape, Fits
      <4>2. QED
        BY <3>1, <4>1 DEF InsertEntity
    <3>2. CASE WriteEntity(r)
      <4>1. /\ call[r].parent # "keep"
            /\ parent' = [parent EXCEPT ![call[r].entity] = call[r].parent]
        BY <3>2 DEF WriteEntity, Refuse, store
      <4>2. QED
        BY <4>1
    <3>3. QED
      BY <2>2, <3>1, <3>2
  <2>5. call[r].parent \in EntityIds /\ pc[r] \in {"insertEntity", "updateEntity"}
    BY <2>2, <2>3, <2>4 DEF InsertEntity, WriteEntity
  <2>6. r \notin overtaken =>
          EntityStored(call[r].parent) /\ entity[call[r].parent] # "EMPLOYEE"
    BY <2>5 DEF KnowInv, Knows, KnowsParent
  <2>7. QED
    BY <2>4, <2>5, <2>6 DEF Overtaken
<1>2. QED
  BY KnowInvAlways, <1>1, PTL DEF Spec, ParentsFit

\* Two types whose names differ in case only come from a CreateWorkItemType that was
\* overtaken between findByName and its insert, or whose findByName looked for
\* another text; never from a deletion, nor from requests that follow each other.
THEOREM NamesDifferUnlessUnchecked == Spec => NamesDuplicatedOnlyUnchecked
<1>1. KnowInv /\ [Next]_vars =>
        [NamesDiffer /\ ~ NamesDiffer' =>
           \E r \in Requests :
             pc[r] = "insertType" /\ (r \in overtaken \/ call[r].missed)]_vars
  <2> SUFFICES ASSUME KnowInv, Next, NamesDiffer, ~ NamesDiffer'
               PROVE  \E r \in Requests :
                        pc[r] = "insertType" /\ (r \in overtaken \/ call[r].missed)
    BY DEF vars
  <2>1. PICK r \in Requests : Step(r)
    BY DEF Next
  <2>2. PICK t \in TypeIds, u \in TypeIds :
          TypeStored(t)' /\ TypeStored(u)' /\ t.name = u.name /\ t # u
    BY DEF NamesDiffer
  <2>3. InsertType(r)
    <3>1. CASE UNCHANGED type
      BY <2>2, <3>1 DEF NamesDiffer, TypeStored
    <3>2. CASE DeleteType(r)
      BY <2>2, <3>2, RestrictionsAreNoStates
         DEF DeleteType, NamesDiffer, TypeStored, KnowInv, Shape
    <3>3. QED
      BY <2>1, <3>1, <3>2
         DEF Step, Begin, FindSelf, FindParent, InsertEntity, WriteEntity, DeleteEntity,
             CountItems, FindItemEntity, InsertItem, MoveItem, RemoveItem, DatabaseError,
             Goto, Refuse, store
  <2>4. /\ pc[r] = "insertType" /\ call[r] \in TypeCreates /\ call[r].type \in TypeIds
        /\ \A v \in TypeIds : v # call[r].type => type'[v] = type[v]
    BY <2>3, CallsAreOfOneKind DEF InsertType, Refuse, store, KnowInv, Shape, Fits
  <2>5. SameName(call[r].type) # {}
    <3>1. CASE t = call[r].type
      BY <2>2, <2>4, <3>1 DEF SameName, TypeStored
    <3>2. CASE u = call[r].type
      BY <2>2, <2>4, <3>2 DEF SameName, TypeStored
    <3>3. CASE t # call[r].type /\ u # call[r].type
      BY <2>2, <2>4, <3>3 DEF NamesDiffer, TypeStored
    <3>4. QED
      BY <3>1, <3>2, <3>3
  <2>6. r \in overtaken \/ call[r].missed
    BY <2>4, <2>5 DEF KnowInv, Knows, KnowsName
  <2>7. QED
    BY <2>4, <2>6
<1>2. QED
  BY KnowInvAlways, <1>1, PTL DEF Spec, NamesDuplicatedOnlyUnchecked

\* A new item is of an entity that is there and has the role its type asks for, and an
\* item is moved to an entity that is there, unless the request was overtaken.
THEOREM ItemsFitUnlessOvertaken == Spec => ItemsFitEntities
<1>1. KnowInv /\ [Next]_vars =>
        [\A x \in items' \ items :
           \/ /\ EntityStored(x.entity)
              /\ \/ \E y \in items : y.by = x.by
                 \/ type[x.type] \in {"any", entity[x.entity]}
           \/ Overtaken({"insertItem", "moveItem"})]_vars
  <2> SUFFICES ASSUME KnowInv, Next, NEW x \in items' \ items,
                      ~ Overtaken({"insertItem", "moveItem"})
               PROVE  /\ EntityStored(x.entity)
                      /\ \/ \E y \in items : y.by = x.by
                         \/ type[x.type] \in {"any", entity[x.entity]}
    BY DEF vars
  <2>1. PICK r \in Requests : Step(r)
    BY DEF Next
  <2>2. InsertItem(r) \/ MoveItem(r)
    BY <2>1
       DEF Step, Begin, FindSelf, FindParent, InsertEntity, WriteEntity, DeleteEntity,
           InsertType, CountItems, DeleteType, FindItemEntity, RemoveItem, DatabaseError,
           Goto, Refuse, store
  <2>3. KnowsEntity(r)
    BY <2>2 DEF InsertItem, MoveItem, Overtaken, KnowInv, Knows
  <2>4. CASE InsertItem(r)
    <3>1. x = [by |-> r, type |-> call[r].type, entity |-> call[r].entity]
      BY <2>4 DEF InsertItem
    <3>2. EntityStored(x.entity) /\ type[x.type] \in {"any", entity[x.entity]}
      BY <2>3, <2>4, <3>1 DEF InsertItem, KnowsEntity
    <3>3. QED
      BY <3>2
  <2>5. CASE MoveItem(r)
    <3>1. PICK y \in items : /\ y.by = call[r].item
                             /\ x = [y EXCEPT !.entity = call[r].entity]
      BY <2>5 DEF MoveItem, Refuse, store
    <3>2. x.by = y.by /\ x.entity = call[r].entity
      BY <3>1 DEF KnowInv, Shape, Items
    \* An item that UpdateWorkItem leaves with its entity is not changed at all.
    <3>3. ASSUME NEW z \in items, z.by = call[r].item, z.entity = call[r].entity
          PROVE FALSE
      <4>1. z = y
        BY <3>1, <3>3 DEF KnowInv, ItemsNamed
      <4>2. x = y
        BY <3>1, <3>3, <4>1 DEF KnowInv, Shape, Items
      <4>3. QED
        BY <4>2
    <3>4. EntityStored(x.entity)
      BY <2>3, <2>5, <3>2, <3>3 DEF MoveItem, KnowsEntity
    <3>5. QED
      BY <3>2, <3>4
  <2>6. QED
    BY <2>2, <2>4, <2>5
<1>2. QED
  BY KnowInvAlways, <1>1, PTL DEF Spec, ItemsFitEntities
\* The three checks together are enough for requests that follow each other: as long
\* as none is overtaken there is at most one SELF entity and no item without its type
\* - and, when findByName looks for the text that is stored, no name twice.
THEOREM ChecksHoldWithoutOverlap ==
  Spec /\ [](overtaken = {}) =>
    /\ [](AtMostOneSelf /\ TypesOfItemsStored)
    /\ [](\A r \in Requests : pc[r] = "insertType" => ~ call[r].missed) => []NamesDiffer
<1>1. Init => AtMostOneSelf /\ NamesDiffer /\ TypesOfItemsStored
  BY DEF Init, TypesOfItemsStored
<1>2. UNCHANGED vars =>
        /\ AtMostOneSelf' <=> AtMostOneSelf
        /\ NamesDiffer' <=> NamesDiffer
        /\ TypesOfItemsStored' <=> TypesOfItemsStored
  BY DEF vars, store, AtMostOneSelf, SelfEntities, NamesDiffer, TypesOfItemsStored, TypeStored
<1>3. overtaken = {} => /\ ~ Overtaken({"insertEntity", "updateEntity"})
                        /\ ~ Overtaken({"insertItem", "deleteType"})
  BY DEF Overtaken
<1>4. overtaken = {} /\ (\A r \in Requests : pc[r] = "insertType" => ~ call[r].missed) =>
        ~ \E r \in Requests : pc[r] = "insertType" /\ (r \in overtaken \/ call[r].missed)
  OBVIOUS
<1>5. QED
  BY <1>1, <1>2, <1>3, <1>4, OneSelfUnlessOvertaken, TypesInUseKeptUnlessOvertaken,
     NamesDifferUnlessUnchecked, PTL
     DEF Spec, SelfDuplicatedOnlyWhenOvertaken, TypesInUseLostOnlyWhenOvertaken,
         NamesDuplicatedOnlyUnchecked
=============================================================================
