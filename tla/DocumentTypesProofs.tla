------------------------- MODULE DocumentTypesProofs -------------------------
(***************************************************************************)
(* Proofs about DocumentTypes for any types, keys and requests.            *)
(*                                                                         *)
(* Everything a request concludes from its reads must still hold when it   *)
(* writes.  It does because of three facts about the collections: a type   *)
(* is born once and stays deleted, the fields of a type only grow while it *)
(* is there, and an expiry field that was there stays.  So the invariant   *)
(* has one part per request (what its reads and its checks say of the      *)
(* collections as they are now), and a step of one request preserves the   *)
(* parts of all others whenever it respects the three facts.               *)
(***************************************************************************)
EXTENDS DocumentTypes, TLAPS

Deleted(t) == type[t] = "deleted"

Justified(t) == HasExpiryField(FieldsOf(t)) \/ Deleted(t) \/ t \in coerced

\* Ids of new types are drawn once.
Fresh(r) ==
  pc[r] \in {"create", "commitCreate"} =>
    /\ type[call[r].type] = "unborn"
    /\ \A q \in Requests \ {r} : call[q].op = "create" => call[q].type # call[r].type

\* What an open creation is about to show has passed every check.
Staged(r) ==
  pc[r] = "commitCreate" =>
    /\ Acceptable(call[r])
    /\ \A s, t \in call[r].specs : s.key = t.key => s = t
    /\ \A s \in call[r].specs : Valid(s)

AfterFind == {"findFields", "insertField", "update", "deleteFields", "deleteType", "commitDelete"}

SeesItsType(r) ==
  /\ pc[r] \in AfterFind /\ call[r].op # "list" => seen[r] = {call[r].type}
  /\ \A t \in seen[r] : type[t] # "unborn"

\* What was read still holds, unless the type is gone.
ReadsHold(r) ==
  /\ \A t \in tracked[r] : Justified(t)
  /\ \A f \in got[r] : /\ f.of \in read[r] /\ f.key \notin Malformed
                       /\ f \in fields \/ Deleted(f.of)

Shown(r, t) ==
  \/ \E f \in got[r] : f.of = t /\ f.kind = "expiry"
  \/ Deleted(t) \/ t \in coerced

ReadsAreWhole(r) ==
  /\ \A t \in tracked[r] \cap read[r] : Shown(r, t)
  /\ pc[r] = "present" => read[r] = seen[r]
  /\ pc[r] \in {"new", "findTypes"} => read[r] = {}

\* The check an update or an insert was let through by.
Checked(r) ==
  /\ pc[r] = "update" /\ call[r].expiry = "on" =>
       \/ call[r].type \in tracked[r]
       \/ \E f \in got[r] : f.of = call[r].type /\ f.kind = "expiry"
  /\ pc[r] = "insertField" /\ r \notin overtaken /\ ~ call[r].spec.blank =>
       \A f \in FieldsOf(call[r].type) : ~ SameUpToCase(f.key, call[r].spec.key)
  /\ pc[r] = "insertField" /\ AsksForExpiry(call[r].spec) => call[r].type \in tracked[r]

\* An open deletion has every field of the type, but for those that came late.
Deletes(r) ==
  pc[r] \in {"deleteType", "commitDelete"} =>
    /\ \A f \in gone[r] : f.of = call[r].type
    /\ \A f \in FieldsOf(call[r].type) : f \in gone[r] \/ f \in late

Local(r) ==
  /\ Fresh(r) /\ Staged(r) /\ SeesItsType(r)
  /\ ReadsHold(r) /\ ReadsAreWhole(r) /\ Checked(r) /\ Deletes(r)

Global == OrphanFieldsCameLate /\ KeysClashOnlyUnchecked /\ TrackedTypesHaveExpiryFields

IInv == TypeOK /\ Global /\ \A r \in Requests : Local(r)

-----------------------------------------------------------------------------
(* Fields, keys and calls.                                                 *)

LEMMA SpecParts ==
  ASSUME NEW s \in Specs
  PROVE  s.key \in Keys /\ s.kind \in {"plain", "expiry", "textExpiry", "castFalse"} /\ s.blank \in BOOLEAN
  BY DEF Specs

LEMMA FieldOfParts ==
  ASSUME NEW t \in TypeIds, NEW s \in Specs
  PROVE  /\ FieldOf(t, s) \in Fields
         /\ FieldOf(t, s).of = t /\ FieldOf(t, s).key = s.key
         /\ FieldOf(t, s).kind = "expiry" <=> CastsToExpiry(s)
         /\ CastsToExpiry(s) => AsksForExpiry(s)
  BY SpecParts DEF FieldOf, Fields, CastsToExpiry, AsksForExpiry

LEMMA CaseIsSymmetric ==
  ASSUME NEW k, NEW l PROVE SameUpToCase(k, l) <=> SameUpToCase(l, k)
  <1>1. {k, l} = {l, k}
    OBVIOUS
  <1> QED BY <1>1 DEF SameUpToCase

LEMMA SpecListParts ==
  ASSUME NEW F \in SpecLists PROVE F \subseteq Specs
  BY DEF SpecLists

LEMMA CreateParts ==
  ASSUME NEW c \in Creates
  PROVE  c.op = "create" /\ c.type \in TypeIds /\ c.expiry \in BOOLEAN /\ c.specs \subseteq Specs
  <1>1. c.specs \in SpecLists
    BY DEF Creates
  <1> QED BY <1>1, SpecListParts DEF Creates

LEMMA CallParts ==
  /\ \A c \in Adds : c.op = "addField" /\ c.type \in TypeIds /\ c.spec \in Specs
  /\ \A c \in Updates : c.op = "update" /\ c.type \in TypeIds /\ c.expiry \in {"on", "off", "keep", "coerced"}
  /\ \A c \in Others : c.op \in {"delete", "get"} /\ c.type \in TypeIds
  /\ List.op = "list" /\ NoCall.op = "none"
  BY DEF Adds, Updates, Others, List, NoCall

\* The fields a creation shows.
LEMMA NewFieldParts ==
  ASSUME NEW c \in Creates, NEW f \in NewFields(c)
  PROVE  /\ f \in Fields /\ f.of = c.type
         /\ \E s \in c.specs : f = FieldOf(c.type, s) /\ f.key = s.key
  <1>1. PICK s \in c.specs : f = FieldOf(c.type, s)
    BY DEF NewFields
  <1>2. s \in Specs /\ c.type \in TypeIds
    BY CreateParts
  <1> QED BY <1>1, <1>2, FieldOfParts
LEMMA CallsAreOne ==
  /\ NoCall \notin Calls
  /\ \A c \in Calls : c.op = "create" => c \in Creates
  /\ \A c \in Calls : c.op = "addField" => c \in Adds
  /\ \A c \in Calls : c.op = "update" => c \in Updates
  /\ \A c \in Calls : c.op = "delete" => c \in [op : {"delete"}, type : TypeIds]
  /\ \A c \in Calls : c.op \in {"create", "addField", "update", "delete", "get", "list"}
  /\ \A c \in Calls : c.op # "list" => c.type \in TypeIds
  BY DEF Calls, Creates, Adds, Updates, Others, List, NoCall

-----------------------------------------------------------------------------
(* Steps and what they leave alone.                                        *)

Same(q) ==
  /\ pc'[q] = pc[q] /\ call'[q] = call[q] /\ seen'[q] = seen[q]
  /\ tracked'[q] = tracked[q] /\ read'[q] = read[q] /\ got'[q] = got[q]
  /\ gone'[q] = gone[q]

\* The three facts about the collections.
Respectful ==
  /\ \A t \in TypeIds : type[t] # "unborn" => type'[t] # "unborn"
  /\ \A t \in TypeIds : Deleted(t) => Deleted(t)'
  /\ \A t \in TypeIds : Justified(t) => Justified(t)'
  /\ \A f \in fields : f \in fields' \/ Deleted(f.of)'
  /\ coerced \subseteq coerced'

LEMMA UnchangedIsRespectful == UNCHANGED <<type, fields, coerced>> => Respectful
  BY DEF Respectful, Justified, Deleted, HasExpiryField, FieldsOf

\* A request that does nothing itself keeps what it has read.
LEMMA OthersKeepTheirReads ==
  ASSUME TypeOK, NEW q \in Requests, Same(q), Respectful,
         SeesItsType(q), ReadsHold(q), ReadsAreWhole(q), Staged(q)
  PROVE  SeesItsType(q)' /\ ReadsHold(q)' /\ ReadsAreWhole(q)' /\ Staged(q)'
  <1> USE DEF Same
  <1>0. /\ seen[q] \subseteq TypeIds /\ tracked[q] \subseteq TypeIds /\ got[q] \subseteq Fields
        /\ \A f \in Fields : f.of \in TypeIds
    BY DEF TypeOK, Fields
  <1>1. SeesItsType(q)'
    BY <1>0 DEF SeesItsType, Respectful
  <1>2. ReadsHold(q)'
    <2>1. \A t \in tracked'[q] : Justified(t)'
      BY <1>0 DEF ReadsHold, Respectful
    <2>2. ASSUME NEW f \in got'[q]
          PROVE  f.of \in read'[q] /\ f.key \notin Malformed /\ (f \in fields' \/ Deleted(f.of)')
      BY <1>0, <2>2 DEF ReadsHold, Respectful
    <2> QED BY <2>1, <2>2 DEF ReadsHold
  <1>3. ReadsAreWhole(q)'
    <2>1. \A t \in TypeIds : Shown(q, t) => Shown(q, t)'
      BY DEF Shown, Respectful
    <2> QED BY <1>0, <2>1 DEF ReadsAreWhole
  <1>4. Staged(q)'
    BY DEF Staged
  <1> QED BY <1>1, <1>2, <1>3, <1>4

\* A step that changes no collection and no history keeps all of another request.
LEMMA OthersKeepQuietly ==
  ASSUME IInv, NEW q \in Requests, Same(q), UNCHANGED <<type, fields, history>>, Fresh(q)'
  PROVE  Local(q)'
  <1>1. Respectful
    BY UnchangedIsRespectful DEF history
  <1>2. SeesItsType(q)' /\ ReadsHold(q)' /\ ReadsAreWhole(q)' /\ Staged(q)'
    BY <1>1, OthersKeepTheirReads DEF IInv, Local
  <1>3. Checked(q)' /\ Deletes(q)'
    BY DEF IInv, Local, Checked, Deletes, FieldsOf, Same, history
  <1> QED BY <1>2, <1>3 DEF Local

LEMMA GlobalKeptQuietly == Global /\ UNCHANGED <<type, fields, history>> => Global'
  BY DEF Global, OrphanFieldsCameLate, KeysClashOnlyUnchecked, TrackedTypesHaveExpiryFields,
         HasExpiryField, FieldsOf, history

\* Freshness of the others survives a step of r that starts no creation.
LEMMA FreshKept ==
  ASSUME IInv, NEW r \in Requests, NEW q \in Requests, q # r, Same(q),
         \A p \in Requests \ {r} : Same(p),
         call'[r] = call[r] \/ call'[r].op # "create",
         type'[call[q].type] = type[call[q].type]
  PROVE  Fresh(q)'
  BY DEF IInv, Local, Fresh, Same

-----------------------------------------------------------------------------
(* A request that is answered.                                             *)

LEMMA AnswerParts ==
  ASSUME TypeOK, NEW r \in Requests, Answer(r)
  PROVE  /\ \A q \in Requests \ {r} : Same(q)
         /\ pc'[r] = "done" /\ call'[r] = NoCall
         /\ seen'[r] = {} /\ tracked'[r] = {} /\ read'[r] = {} /\ got'[r] = {} /\ gone'[r] = {}
         /\ pc' \in [Requests -> Awaits]
         /\ call' \in [Requests -> Calls \cup {NoCall}]
         /\ \A q \in Requests : HoldsItsCall(q)'
         /\ seen' \in [Requests -> SUBSET TypeIds]
         /\ tracked' \in [Requests -> SUBSET TypeIds]
         /\ read' \in [Requests -> SUBSET TypeIds]
         /\ got' \in [Requests -> SUBSET Fields]
         /\ gone' \in [Requests -> SUBSET Fields]
         /\ \A q \in Requests : tracked'[q] \subseteq seen'[q] /\ read'[q] \subseteq seen'[q]
  <1>1. "done" \in Awaits
    BY DEF Awaits
  <1> QED BY <1>1 DEF TypeOK, Answer, Same, HoldsItsCall

LEMMA AnsweredIsLocal ==
  ASSUME TypeOK, NEW r \in Requests, Answer(r)
  PROVE  Local(r)'
  <1>1. SeesItsType(r)' /\ ReadsHold(r)' /\ ReadsAreWhole(r)'
    BY AnswerParts DEF SeesItsType, ReadsHold, ReadsAreWhole, AfterFind
  <1>2. Fresh(r)' /\ Staged(r)' /\ Checked(r)' /\ Deletes(r)'
    BY AnswerParts DEF Fresh, Staged, Checked, Deletes
  <1> QED BY <1>1, <1>2 DEF Local

\* Nothing but the answer: a refusal, a 404, a rejected call, a response.
LEMMA AnswerKeepsIInv ==
  ASSUME IInv, NEW r \in Requests, Answer(r), UNCHANGED <<type, fields, stale, history>>
  PROVE  IInv'
  <1>0. TypeOK /\ \A q \in Requests : Local(q)
    BY DEF IInv
  <1>1. TypeOK'
    <2>1. /\ UNCHANGED <<type, fields, stale, late, overtaken, unchecked, coerced>>
      BY DEF history
    <2> QED BY <1>0, <2>1, AnswerParts DEF TypeOK
  <1>2. Local(r)'
    BY <1>0, AnsweredIsLocal
  <1>3. ASSUME NEW q \in Requests \ {r} PROVE Local(q)'
    <2>1. Same(q) /\ \A p \in Requests \ {r} : Same(p)
      BY <1>0, AnswerParts
    <2>2. Fresh(q)'
      BY <1>0, <2>1, AnswerParts, CallParts, FreshKept
    <2> QED BY <2>1, <2>2, OthersKeepQuietly
  <1>4. Global'
    BY GlobalKeptQuietly DEF IInv
  <1> QED BY <1>1, <1>2, <1>3, <1>4 DEF IInv

\* A step of r without an answer that changes no collection.
LEMMA QuietStepKeepsIInv ==
  ASSUME IInv, NEW r \in Requests, UNCHANGED <<type, fields, history>>,
         \A q \in Requests \ {r} : Same(q) /\ Fresh(q)',
         TypeOK', Local(r)'
  PROVE  IInv'
  <1>1. \A q \in Requests \ {r} : Local(q)'
    BY OthersKeepQuietly
  <1>2. Global'
    BY GlobalKeptQuietly DEF IInv
  <1> QED BY <1>1, <1>2 DEF IInv
-----------------------------------------------------------------------------
(* Steps that change no collection.                                        *)

LEMMA BeginKeepsIInv ==
  ASSUME IInv, NEW r \in Requests, NEW c \in Calls, Begin(r, c)
  PROVE  IInv'
  <1> USE DEF Begin
  <1>0. TypeOK /\ \A q \in Requests : Local(q)
    BY DEF IInv
  <1>1. \A q \in Requests \ {r} : Same(q)
    BY <1>0 DEF TypeOK, Same
  <1>2. call[r] = NoCall /\ call'[r] = c /\ pc'[r] \in {"create", "findTypes"}
        /\ (pc'[r] = "create" <=> c.op = "create")
    BY <1>0 DEF TypeOK, HoldsItsCall
  <1>3. UNCHANGED <<type, fields, stale, late, overtaken, unchecked, coerced>>
    BY DEF history
  <1>4. HoldsItsCall(r)'
    <2>1. c.op # "create" => c \in Adds \cup Updates \cup Others \cup {List}
      BY CreateParts DEF Calls
    <2> QED BY <1>2, <2>1, CallsAreOne DEF HoldsItsCall
  <1>5. TypeOK'
    <2>1. \A q \in Requests \ {r} : HoldsItsCall(q)'
      BY <1>0, <1>1 DEF TypeOK, HoldsItsCall, Same
    <2>2. pc' \in [Requests -> Awaits] /\ call' \in [Requests -> Calls \cup {NoCall}]
      BY <1>0 DEF TypeOK, Awaits
    <2> QED BY <1>0, <1>3, <1>4, <2>1, <2>2 DEF TypeOK
  <1>6. Fresh(r)'
    BY <1>0, <1>1, <1>2, <1>3 DEF Fresh, Same
  <1>7. ASSUME NEW q \in Requests \ {r} PROVE Fresh(q)'
    <2>1. pc[q] \in {"create", "commitCreate"} => call[q].op = "create"
      BY <1>0, CreateParts DEF TypeOK, HoldsItsCall
    <2> QED BY <1>0, <1>1, <1>2, <1>3, <2>1 DEF Fresh, Same, Local
  <1>8. Local(r)'
    <2>1. Staged(r)' /\ Checked(r)' /\ Deletes(r)'
      BY <1>2 DEF Staged, Checked, Deletes
    <2>2. SeesItsType(r)'
      BY <1>0, <1>2, <1>3 DEF Local, SeesItsType, AfterFind
    <2>3. ReadsHold(r)' /\ ReadsAreWhole(r)'
      BY <1>0, <1>2, <1>3 DEF Local, ReadsHold, ReadsAreWhole, Justified, Deleted,
                              HasExpiryField, FieldsOf, Shown
    <2> QED BY <1>6, <2>1, <2>2, <2>3 DEF Local
  <1> QED BY <1>1, <1>3, <1>5, <1>7, <1>8, QuietStepKeepsIInv DEF history

\* A request that only moves on keeps what it holds.
LEMMA GotoParts ==
  ASSUME TypeOK, NEW r \in Requests, NEW label \in Awaits, Goto(r, label)
  PROVE  /\ \A q \in Requests \ {r} : Same(q)
         /\ pc'[r] = label
         /\ pc' \in [Requests -> Awaits]
         /\ call' = call /\ seen' = seen /\ tracked' = tracked /\ read' = read
         /\ got' = got /\ gone' = gone
  BY DEF Goto, memory, TypeOK, Same

LEMMA GotoKeepsIInv ==
  ASSUME IInv, NEW r \in Requests, NEW label \in Awaits \ {"new", "done"}, Goto(r, label),
         UNCHANGED <<type, fields, stale, history>>, HoldsItsCall(r)',
         Fresh(r)', Staged(r)', Checked(r)', Deletes(r)', ReadsAreWhole(r)',
         pc[r] \in AfterFind \/ label \notin AfterFind
  PROVE  IInv'
  <1>0. TypeOK /\ \A q \in Requests : Local(q)
    BY DEF IInv
  <1>1. UNCHANGED <<type, fields, stale, late, overtaken, unchecked, coerced>>
    BY DEF history
  <1>2. TypeOK'
    <2>1. \A q \in Requests \ {r} : HoldsItsCall(q)'
      BY <1>0, GotoParts DEF TypeOK, HoldsItsCall, Same
    <2> QED BY <1>0, <1>1, <2>1, GotoParts DEF TypeOK
  <1>3. ASSUME NEW q \in Requests \ {r} PROVE Same(q) /\ Fresh(q)'
    <2>1. \A p \in Requests \ {r} : Same(p)
      BY <1>0, GotoParts
    <2> QED BY <1>0, <1>1, <2>1, GotoParts, FreshKept
  <1>4. SeesItsType(r)' /\ ReadsHold(r)'
    BY <1>0, <1>1, GotoParts DEF Local, SeesItsType, ReadsHold, Justified, Deleted,
                                 HasExpiryField, FieldsOf
  <1> QED BY <1>2, <1>3, <1>4, QuietStepKeepsIInv DEF Local, history

LEMMA StageKeepsIInv ==
  ASSUME IInv, NEW r \in Requests, Stage(r)
  PROVE  IInv'
  <1> USE DEF Stage
  <1>0. TypeOK /\ Local(r)
    BY DEF IInv
  <1>1. CASE Answer(r)
    BY <1>1, AnswerKeepsIInv
  <1>2. CASE /\ Goto(r, "commitCreate")
             /\ Acceptable(call[r])
             /\ \A s, t \in call[r].specs : s.key = t.key => s = t
             /\ \A s \in call[r].specs : Valid(s)
    <2>1. "commitCreate" \in Awaits \ {"new", "done"} /\ "commitCreate" \notin AfterFind
      BY DEF Awaits, AfterFind
    <2>2. pc'[r] = "commitCreate" /\ call' = call /\ \A q \in Requests \ {r} : Same(q)
      BY <1>0, <1>2, <2>1, GotoParts
    <2>3. HoldsItsCall(r)' /\ Fresh(r)' /\ Checked(r)' /\ Deletes(r)'
      BY <1>0, <2>2 DEF TypeOK, HoldsItsCall, Local, Fresh, Checked, Deletes
    <2>4. Staged(r)'
      BY <1>2, <2>2 DEF Staged
    <2>5. ReadsAreWhole(r)'
      BY <1>0, <1>2, <2>1, GotoParts DEF Local, ReadsAreWhole, Shown, Deleted, history
    <2> QED BY <1>2, <2>1, <2>3, <2>4, <2>5, GotoKeepsIInv
  <1> QED BY <1>1, <1>2

LEMMA DeleteTypeKeepsIInv ==
  ASSUME IInv, NEW r \in Requests, DeleteType(r)
  PROVE  IInv'
  <1> USE DEF DeleteType
  <1>0. TypeOK /\ Local(r)
    BY DEF IInv
  <1>1. CASE Answer(r)
    BY <1>1, AnswerKeepsIInv
  <1>2. CASE Goto(r, "commitDelete")
    <2>1. "commitDelete" \in Awaits \ {"new", "done"}
      BY DEF Awaits
    <2>2. pc'[r] = "commitDelete" /\ call' = call /\ gone' = gone
      BY <1>0, <1>2, <2>1, GotoParts
    <2>3. HoldsItsCall(r)' /\ Fresh(r)' /\ Staged(r)' /\ Checked(r)'
      BY <1>0, <2>2 DEF TypeOK, HoldsItsCall, Fresh, Staged, Checked
    <2>4. Deletes(r)'
      BY <1>0, <2>2 DEF Local, Deletes, FieldsOf, history
    <2>5. ReadsAreWhole(r)'
      BY <1>0, <1>2, <2>1, GotoParts DEF Local, ReadsAreWhole, Shown, Deleted, history
    <2> QED BY <1>2, <2>1, <2>3, <2>4, <2>5, GotoKeepsIInv DEF AfterFind
  <1> QED BY <1>1, <1>2

LEMMA PresentKeepsIInv ==
  ASSUME IInv, NEW r \in Requests, Present(r) \/ DatabaseError(r)
  PROVE  IInv'
  BY AnswerKeepsIInv DEF Present, DatabaseError
-----------------------------------------------------------------------------
(* Reads.                                                                  *)

LEMMA FindTypesKeepsIInv ==
  ASSUME IInv, NEW r \in Requests, FindTypes(r)
  PROVE  IInv'
  <1> USE DEF FindTypes
  <1>0. TypeOK /\ \A q \in Requests : Local(q)
    BY DEF IInv
  <1> DEFINE asked == IF call[r].op = "list" THEN TypeIds ELSE {call[r].type}
             there == {t \in asked : Stored(t)}
  <1>1. CASE Answer(r)
    BY <1>1, AnswerKeepsIInv
  <1>2. CASE /\ ~ (call[r].op # "list" /\ there = {})
             /\ seen' = [seen EXCEPT ![r] = there]
             /\ tracked' = [tracked EXCEPT ![r] = {t \in there : type[t] = "tracked"}]
             /\ pc' = [pc EXCEPT ![r] = IF there = {} THEN "present" ELSE "findFields"]
             /\ UNCHANGED <<call, read, got, gone>>
    <2>1. call[r] \in Calls /\ call[r] \in Adds \cup Updates \cup Others \cup {List}
      BY <1>0 DEF TypeOK, HoldsItsCall, Calls
    <2>2. asked \subseteq TypeIds /\ there \subseteq TypeIds
      BY <2>1, CallsAreOne
    <2>3. UNCHANGED <<type, fields, stale, late, overtaken, unchecked, coerced>>
      BY DEF history
    <2>4. \A q \in Requests \ {r} : Same(q)
      BY <1>0, <1>2 DEF TypeOK, Same
    <2>5. /\ pc'[r] \in {"present", "findFields"} /\ call'[r] = call[r]
          /\ seen'[r] = there /\ tracked'[r] = {t \in there : type[t] = "tracked"}
          /\ read'[r] = {} /\ got'[r] = {}
          /\ pc'[r] = "present" <=> there = {}
      <3>1. read[r] = {} /\ got[r] = {}
        BY <1>0 DEF Local, ReadsAreWhole, ReadsHold
      <3> QED BY <1>0, <1>2, <3>1 DEF TypeOK
    <2>6. TypeOK'
      <3>1. \A q \in Requests \ {r} : HoldsItsCall(q)'
        BY <1>0, <2>4 DEF TypeOK, HoldsItsCall, Same
      <3>2. HoldsItsCall(r)'
        BY <1>2, <2>1, <2>5, CallsAreOne, CallParts DEF HoldsItsCall
      <3>3. pc' \in [Requests -> Awaits]
        BY <1>0, <1>2 DEF TypeOK, Awaits
      <3> QED BY <1>0, <1>2, <2>2, <2>3, <2>4, <2>5, <3>1, <3>2, <3>3 DEF TypeOK, Same
    <2>7. \A q \in Requests \ {r} : Fresh(q)'
      BY <1>0, <2>3, <2>4, <2>5, FreshKept
    <2>8. SeesItsType(r)'
      BY <1>2, <2>2, <2>3, <2>5 DEF SeesItsType, Stored
    <2>9. ReadsHold(r)' /\ ReadsAreWhole(r)'
      <3>1. \A t \in TypeIds : type[t] = "tracked" => Justified(t)
        BY DEF IInv, Global, TrackedTypesHaveExpiryFields, Justified
      <3> QED BY <2>2, <2>3, <2>5, <3>1 DEF ReadsHold, ReadsAreWhole, Justified, Deleted,
                                            HasExpiryField, FieldsOf
    <2>10. Fresh(r)' /\ Staged(r)' /\ Checked(r)' /\ Deletes(r)'
      BY <2>5 DEF Fresh, Staged, Checked, Deletes
    <2> QED BY <2>3, <2>4, <2>6, <2>7, <2>8, <2>9, <2>10, QuietStepKeepsIInv DEF Local, history
  <1> QED BY <1>1, <1>2

LEMMA AfterReadingParts ==
  /\ AfterReading("addField") = "insertField" /\ AfterReading("update") = "update"
  /\ AfterReading("delete") = "deleteFields"
  /\ AfterReading("get") = "present" /\ AfterReading("list") = "present"
  BY DEF AfterReading

LEMMA FindFieldsKeepsIInv ==
  ASSUME IInv, NEW r \in Requests, NEW t \in TypeIds, FindFields(r, t)
  PROVE  IInv'
  <1> USE DEF FindFields
  <1>0. TypeOK /\ \A q \in Requests : Local(q)
    BY DEF IInv
  <1> DEFINE F == got[r] \cup FieldsOf(t)
             next == AfterReading(call[r].op)
  <1>1. CASE Answer(r)
    BY <1>1, AnswerKeepsIInv
  <1>2. CASE /\ \A f \in FieldsOf(t) : f.key \notin Malformed
             /\ AllRead(r, t) => Allowed(r, F)
             /\ got' = [got EXCEPT ![r] = F]
             /\ read' = [read EXCEPT ![r] = @ \cup {t}]
             /\ pc' = IF AllRead(r, t) THEN [pc EXCEPT ![r] = next] ELSE pc
             /\ UNCHANGED <<call, seen, tracked, gone>>
    <2>1. call[r] \in Calls /\ call[r] \in Adds \cup Updates \cup Others \cup {List}
      BY <1>0 DEF TypeOK, HoldsItsCall, Calls
    <2>2. FieldsOf(t) \subseteq Fields /\ \A f \in FieldsOf(t) : f \in fields /\ f.of = t
      BY <1>0 DEF TypeOK, FieldsOf
    <2>3. UNCHANGED <<type, fields, stale, late, overtaken, unchecked, coerced>>
      BY DEF history
    <2>4. \A q \in Requests \ {r} : Same(q)
      BY <1>0, <1>2 DEF TypeOK, Same
    <2>5. /\ pc'[r] = IF AllRead(r, t) THEN next ELSE "findFields"
          /\ call'[r] = call[r] /\ seen'[r] = seen[r] /\ tracked'[r] = tracked[r]
          /\ read'[r] = read[r] \cup {t} /\ got'[r] = F /\ t \in seen[r]
      BY <1>0, <1>2 DEF TypeOK
    <2>6. /\ call[r].op \in {"addField", "update", "delete", "get", "list"}
          /\ call[r].op = "addField" => next = "insertField"
          /\ call[r].op = "update" => next = "update"
          /\ call[r].op = "delete" => next = "deleteFields"
          /\ call[r].op \in {"get", "list"} => next = "present"
      BY <2>1, CallParts, AfterReadingParts
    <2>7. TypeOK'
      <3>1. \A q \in Requests \ {r} : HoldsItsCall(q)'
        BY <1>0, <2>4 DEF TypeOK, HoldsItsCall, Same
      <3>2. HoldsItsCall(r)'
        BY <1>0, <2>1, <2>5, <2>6, CallsAreOne DEF HoldsItsCall, TypeOK
      <3>3. next \in Awaits
        BY <2>6 DEF Awaits
      <3>4. pc' \in [Requests -> Awaits] /\ got' \in [Requests -> SUBSET Fields]
            /\ read' \in [Requests -> SUBSET TypeIds]
        BY <1>0, <1>2, <2>2, <3>3 DEF TypeOK
      <3>5. \A q \in Requests : tracked'[q] \subseteq seen'[q] /\ read'[q] \subseteq seen'[q]
        BY <1>0, <2>4, <2>5 DEF TypeOK, Same
      <3> QED BY <1>0, <1>2, <2>3, <3>1, <3>2, <3>4, <3>5 DEF TypeOK
    <2>8. \A q \in Requests \ {r} : Fresh(q)'
      BY <1>0, <2>3, <2>4, <2>5, FreshKept
    <2>9. SeesItsType(r)'
      BY <1>0, <2>3, <2>5 DEF Local, SeesItsType, AfterFind
    <2>10. ReadsHold(r)'
      BY <1>0, <1>2, <2>2, <2>3, <2>5 DEF Local, ReadsHold, Justified, Deleted,
                                          HasExpiryField, FieldsOf
    <2>11. ReadsAreWhole(r)'
      <3>1. ASSUME NEW u \in tracked[r], u \in read[r] \cup {t} PROVE Shown(r, u)'
        <4>1. CASE u = t
          <5>1. Justified(t)
            BY <1>0, <4>1 DEF Local, ReadsHold
          <5> QED BY <2>2, <2>3, <2>5, <4>1, <5>1
                  DEF Justified, HasExpiryField, Shown, Deleted
        <4>2. CASE u \in read[r]
          BY <1>0, <2>3, <2>5, <4>2 DEF Local, ReadsAreWhole, Shown, Deleted
        <4> QED BY <3>1, <4>1, <4>2
      <3>2. pc'[r] = "present" => read'[r] = seen'[r]
        BY <2>5 DEF AllRead
      <3> QED BY <2>5, <2>6, <3>1, <3>2 DEF ReadsAreWhole
    <2>12. Checked(r)'
      <3>1. CASE pc'[r] = "update" /\ call[r].expiry = "on"
        <4>1. AllRead(r, t) /\ call[r].op = "update" /\ seen[r] = {call[r].type}
          BY <1>0, <2>5, <2>6, <3>1 DEF Local, SeesItsType, AfterFind
        <4>2. MayUpdate(r, F)
          BY <1>2, <4>1 DEF Allowed
        <4>3. \A f \in F : f.of = call[r].type
          BY <1>0, <2>2, <2>5, <4>1 DEF Local, ReadsHold, TypeOK
        <4> QED BY <2>5, <3>1, <4>2, <4>3 DEF MayUpdate, HasExpiryField, Checked
      <3>2. CASE pc'[r] = "insertField"
        <4>1. AllRead(r, t) /\ call[r].op = "addField" /\ t = call[r].type
          BY <1>0, <2>5, <2>6, <3>2 DEF Local, SeesItsType, AfterFind
        <4>2. MayAdd(r, F)
          BY <1>2, <4>1 DEF Allowed
        <4>3. call[r].spec.blank \/ \A f \in FieldsOf(t) : ~ SameUpToCase(f.key, call[r].spec.key)
          BY <4>2 DEF MayAdd
        <4>4. AsksForExpiry(call[r].spec) => call[r].type \in tracked[r]
          BY <4>2 DEF MayAdd
        <4> QED BY <2>3, <2>5, <3>2, <4>1, <4>3, <4>4 DEF Checked, FieldsOf
      <3> QED BY <2>5, <3>1, <3>2 DEF Checked
    <2>13. Fresh(r)' /\ Staged(r)' /\ Deletes(r)'
      BY <2>5, <2>6 DEF Fresh, Staged, Deletes
    <2> QED BY <2>3, <2>4, <2>7, <2>8, <2>9, <2>10, <2>11, <2>12, <2>13, QuietStepKeepsIInv
            DEF Local, history
  <1> QED BY <1>1, <1>2

\* The deletion has every field: none of them is late yet.
LEMMA DeleteFieldsKeepsIInv ==
  ASSUME IInv, NEW r \in Requests, DeleteFields(r)
  PROVE  IInv'
  <1> USE DEF DeleteFields
  <1>0. TypeOK /\ \A q \in Requests : Local(q)
    BY DEF IInv
  <1>1. CASE Answer(r)
    BY <1>1, AnswerKeepsIInv
  <1>2. CASE /\ gone' = [gone EXCEPT ![r] = FieldsOf(call[r].type)]
             /\ pc' = [pc EXCEPT ![r] = "deleteType"]
             /\ UNCHANGED <<call, seen, tracked, read, got>>
    <2>1. UNCHANGED <<type, fields, stale, late, overtaken, unchecked, coerced>>
      BY DEF history
    <2>2. \A q \in Requests \ {r} : Same(q)
      BY <1>0, <1>2 DEF TypeOK, Same
    <2>3. pc'[r] = "deleteType" /\ gone'[r] = FieldsOf(call[r].type) /\ call' = call
      BY <1>0, <1>2 DEF TypeOK
    <2>4. TypeOK'
      <3>1. \A q \in Requests : HoldsItsCall(q)'
        BY <1>0, <2>2, <2>3 DEF TypeOK, HoldsItsCall, Same
      <3>2. FieldsOf(call[r].type) \subseteq Fields
        BY <1>0 DEF TypeOK, FieldsOf
      <3>3. pc' \in [Requests -> Awaits] /\ gone' \in [Requests -> SUBSET Fields]
        BY <1>0, <1>2, <3>2 DEF TypeOK, Awaits
      <3> QED BY <1>0, <1>2, <2>1, <3>1, <3>3 DEF TypeOK
    <2>5. \A q \in Requests \ {r} : Fresh(q)'
      BY <1>0, <2>1, <2>2, <2>3, FreshKept
    <2>6. SeesItsType(r)' /\ ReadsHold(r)' /\ ReadsAreWhole(r)'
      BY <1>0, <1>2, <2>1, <2>3 DEF Local, SeesItsType, AfterFind, ReadsHold, ReadsAreWhole,
                                    Shown, Justified, Deleted, HasExpiryField, FieldsOf
    <2>7. Fresh(r)' /\ Staged(r)' /\ Checked(r)' /\ Deletes(r)'
      BY <2>1, <2>3 DEF Fresh, Staged, Checked, Deletes, FieldsOf
    <2> QED BY <2>1, <2>2, <2>4, <2>5, <2>6, <2>7, QuietStepKeepsIInv DEF Local, history
  <1> QED BY <1>1, <1>2
-----------------------------------------------------------------------------
(* Writes.                                                                 *)

LEMMA CommitCreateKeepsIInv ==
  ASSUME IInv, NEW r \in Requests, CommitCreate(r)
  PROVE  IInv'
  <1> USE DEF CommitCreate
  <1>0. TypeOK /\ Global /\ \A q \in Requests : Local(q)
    BY DEF IInv
  <1> DEFINE c == call[r]
             t == call[r].type
             new == NewFields(call[r])
  <1>1. c \in Creates /\ t \in TypeIds /\ type[t] = "unborn"
    BY <1>0, CreateParts DEF TypeOK, HoldsItsCall, Local, Fresh
  <1>2. /\ type' = [type EXCEPT ![t] = IF c.expiry THEN "tracked" ELSE "untracked"]
        /\ fields' = fields \cup new
        /\ coerced' = IF CastAway(c) THEN coerced \cup {t} ELSE coerced
        /\ UNCHANGED <<stale, late, overtaken>> /\ Answer(r)
    OBVIOUS
  <1>3. \A f \in new : f \in Fields /\ f.of = t
    BY <1>1, NewFieldParts
  <1>4. \A f \in fields : f \in Fields /\ f.of \in TypeIds /\ f.of # t
    BY <1>0, <1>1 DEF TypeOK, Fields
  <1>5. \A u \in TypeIds : u # t => type'[u] = type[u] /\ FieldsOf(u)' = FieldsOf(u)
    BY <1>0, <1>2, <1>3 DEF TypeOK, FieldsOf
  <1>6. type'[t] \in {"tracked", "untracked"} /\ (type'[t] = "tracked" => c.expiry)
    BY <1>0, <1>1, <1>2 DEF TypeOK
  <1>7. \A q \in Requests \ {r} : Same(q)
    BY <1>0, <1>2, AnswerParts
  <1>8. Respectful
    <2>1. \A u \in TypeIds : Justified(u) => Justified(u)'
      BY <1>1, <1>2 DEF Justified, HasExpiryField, FieldsOf, Deleted, TypeOK
    <2> QED BY <1>1, <1>2, <1>5, <1>6, <2>1 DEF Respectful, Deleted
  <1>9. TypeOK'
    <2>1. type' \in [TypeIds -> {"unborn", "untracked", "tracked", "deleted"}]
      BY <1>0, <1>2 DEF TypeOK
    <2>2. fields' \subseteq {f \in Fields : type'[f.of] # "unborn"}
      BY <1>0, <1>2, <1>3, <1>4, <1>5, <1>6 DEF TypeOK
    <2>3. unchecked' \subseteq Fields
      <3>1. \A s \in c.specs : FieldOf(t, s) \in Fields
        BY <1>1, CreateParts, FieldOfParts
      <3> QED BY <1>0, <3>1 DEF TypeOK
    <2>4. coerced' \subseteq TypeIds
      BY <1>0, <1>1, <1>2 DEF TypeOK
    <2> QED BY <1>0, <1>2, <2>1, <2>2, <2>3, <2>4, AnswerParts DEF TypeOK
  <1>10. ASSUME NEW q \in Requests \ {r} PROVE Local(q)'
    <2>1. SeesItsType(q)' /\ ReadsHold(q)' /\ ReadsAreWhole(q)' /\ Staged(q)'
      BY <1>0, <1>7, <1>8, OthersKeepTheirReads DEF Local
    <2>2. Fresh(q)'
      <3>1. CASE pc[q] \in {"create", "commitCreate"}
        <4>1. call[q] \in Creates /\ call[q].type # t
          BY <1>0, <1>1, <3>1, CreateParts DEF TypeOK, HoldsItsCall, Local, Fresh
        <4>2. type'[call[q].type] = type[call[q].type]
          BY <1>5, <4>1, CreateParts
        <4> QED BY <1>0, <1>2, <1>7, <4>2, AnswerParts, CallParts, FreshKept
      <3> QED BY <1>7, <3>1 DEF Fresh, Same
    <2>3. pc[q] \in AfterFind /\ call[q].op # "list" => call[q].type # t
      BY <1>0, <1>1 DEF Local, SeesItsType
    <2>4. pc[q] \in {"insertField", "update", "deleteType", "commitDelete"} => call[q].op # "list"
      BY <1>0, CallParts DEF TypeOK, HoldsItsCall
    <2>5. Checked(q)'
      BY <1>0, <1>2, <1>3, <1>7, <2>3, <2>4 DEF Local, Checked, Same, AfterFind, FieldsOf
    <2>6. Deletes(q)'
      BY <1>0, <1>2, <1>3, <1>7, <2>3, <2>4 DEF Local, Deletes, Same, AfterFind, FieldsOf
    <2> QED BY <2>1, <2>2, <2>5, <2>6 DEF Local
  <1>11. Local(r)'
    BY <1>0, <1>2, AnsweredIsLocal
  <1>12. OrphanFieldsCameLate'
    BY <1>0, <1>2, <1>3, <1>4, <1>5, <1>6 DEF Global, OrphanFieldsCameLate
  <1>13. TrackedTypesHaveExpiryFields'
    <2>1. c.expiry /\ ~ CastAway(c) => \E f \in new : f.kind = "expiry"
      <3>1. c.expiry /\ ~ CastAway(c) => \E s \in c.specs : CastsToExpiry(s)
        BY <1>0 DEF Local, Staged, Acceptable, CastAway
      <3>2. \A s \in c.specs : CastsToExpiry(s) => FieldOf(t, s).kind = "expiry"
        BY <1>1, CreateParts, FieldOfParts
      <3> QED BY <3>1, <3>2 DEF NewFields
    <2>2. type'[t] = "tracked" =>
            t \in coerced' \/ \E f \in fields' : f.of = t /\ f.kind = "expiry"
      BY <1>2, <1>3, <1>6, <2>1
    <2>3. ASSUME NEW u \in TypeIds, u # t, type'[u] = "tracked"
          PROVE  HasExpiryField(FieldsOf(u))' \/ u \in coerced'
      BY <1>0, <1>2, <1>5, <2>3 DEF Global, TrackedTypesHaveExpiryFields, HasExpiryField
    <2> QED BY <2>2, <2>3 DEF TrackedTypesHaveExpiryFields, HasExpiryField, FieldsOf
  <1>14. KeysClashOnlyUnchecked'
    <2>1. SUFFICES ASSUME NEW f \in fields', NEW g \in fields',
                          f.of = g.of, f # g, SameUpToCase(f.key, g.key)
                   PROVE  f \in unchecked' \/ g \in unchecked'
      BY DEF KeysClashOnlyUnchecked
    <2>2. CASE f \in new /\ g \in new
      <3>1. PICK s \in c.specs : f = FieldOf(t, s) /\ f.key = s.key
        BY <1>1, <2>2, NewFieldParts
      <3>2. PICK u \in c.specs : g = FieldOf(t, u) /\ g.key = u.key
        BY <1>1, <2>2, NewFieldParts
      <3>3. s # u /\ SameUpToCase(s.key, u.key)
        BY <2>1, <3>1, <3>2
      <3>4. s.blank # u.blank
        BY <1>0, <3>3 DEF Local, Staged, Acceptable, NoDuplicates
      <3>5. s.blank \/ u.blank
        BY <1>1, <3>4, CreateParts, SpecParts
      <3> QED BY <3>1, <3>2, <3>5
    <2>3. CASE f \in fields /\ g \in fields
      BY <1>0, <2>1, <2>3 DEF Global, KeysClashOnlyUnchecked
    <2> QED BY <1>2, <1>3, <1>4, <2>1, <2>2, <2>3
  <1> QED BY <1>9, <1>10, <1>11, <1>12, <1>13, <1>14 DEF IInv, Global

LEMMA InsertFieldKeepsIInv ==
  ASSUME IInv, NEW r \in Requests, InsertField(r)
  PROVE  IInv'
  <1> USE DEF InsertField
  <1>0. TypeOK /\ Global /\ \A q \in Requests : Local(q)
    BY DEF IInv
  <1> DEFINE t == call[r].type
             new == FieldOf(call[r].type, call[r].spec)
  <1>1. CASE UNCHANGED <<fields, history>>
    BY <1>1, AnswerKeepsIInv
  <1>2. CASE /\ ~ \E g \in FieldsOf(t) : g.key = new.key
             /\ fields' = fields \cup {new}
             /\ late' = IF Deleting(t) # {} \/ ~ Stored(t) THEN late \cup {new} ELSE late
             /\ overtaken' = overtaken \cup
                  {q \in Requests \ {r} : pc[q] = "insertField" /\ call[q].type = t}
             /\ unchecked' = IF call[r].spec.blank \/ r \in overtaken
                               THEN unchecked \cup {new} ELSE unchecked
             /\ UNCHANGED coerced
    <2>1. call[r] \in Adds /\ t \in TypeIds /\ call[r].spec \in Specs /\ call[r].op = "addField"
      BY <1>0, CallParts DEF TypeOK, HoldsItsCall
    <2>2. new \in Fields /\ new.of = t /\ new.key = call[r].spec.key
      BY <2>1, FieldOfParts
    <2>3. type[t] # "unborn"
      BY <1>0, <2>1 DEF Local, SeesItsType, AfterFind
    <2>4. \A q \in Requests \ {r} : Same(q)
      BY <1>0, AnswerParts
    <2>5. Respectful
      BY <1>2 DEF Respectful, Justified, HasExpiryField, FieldsOf, Deleted
    <2>6. TypeOK'
      BY <1>0, <1>2, <2>2, <2>3, AnswerParts DEF TypeOK
    <2>7. Local(r)'
      BY <1>0, AnsweredIsLocal
    <2>8. ASSUME NEW q \in Requests \ {r} PROVE Local(q)'
      <3>1. SeesItsType(q)' /\ ReadsHold(q)' /\ ReadsAreWhole(q)' /\ Staged(q)'
        BY <1>0, <2>4, <2>5, OthersKeepTheirReads DEF Local
      <3>2. Fresh(q)'
        BY <1>0, <2>4, AnswerParts, CallParts, FreshKept
      <3>3. Checked(q)'
        BY <1>0, <1>2, <2>2, <2>4 DEF Local, Checked, Same, FieldsOf
      <3>4. Deletes(q)'
        <4>1. pc[q] \in {"deleteType", "commitDelete"} /\ call[q].type = t => new \in late'
          BY <1>2 DEF Deleting
        <4> QED BY <1>0, <1>2, <2>2, <2>4, <4>1 DEF Local, Deletes, Same, FieldsOf
      <3> QED BY <3>1, <3>2, <3>3, <3>4 DEF Local
    <2>9. OrphanFieldsCameLate'
      BY <1>0, <1>2, <2>2 DEF Global, OrphanFieldsCameLate, Stored
    <2>10. TrackedTypesHaveExpiryFields'
      BY <1>0, <1>2 DEF Global, TrackedTypesHaveExpiryFields, HasExpiryField, FieldsOf
    <2>11. KeysClashOnlyUnchecked'
      <3>1. new \notin unchecked' => \A f \in FieldsOf(t) : ~ SameUpToCase(f.key, new.key)
        BY <1>0, <1>2, <2>2 DEF Local, Checked
      <3>2. \A f \in fields : f.of = t /\ SameUpToCase(f.key, new.key) => new \in unchecked'
        BY <3>1 DEF FieldsOf
      <3>3. \A f \in fields : f.of = t /\ SameUpToCase(new.key, f.key) => new \in unchecked'
        BY <3>2, CaseIsSymmetric
      <3>4. unchecked \subseteq unchecked'
        BY <1>2
      <3> QED BY <1>0, <1>2, <2>2, <3>2, <3>3, <3>4 DEF Global, KeysClashOnlyUnchecked
    <2> QED BY <2>6, <2>7, <2>8, <2>9, <2>10, <2>11 DEF IInv, Global
  <1> QED BY <1>1, <1>2
LEMMA UpdateTypeKeepsIInv ==
  ASSUME IInv, NEW r \in Requests, UpdateType(r)
  PROVE  IInv'
  <1> USE DEF UpdateType
  <1>0. TypeOK /\ Global /\ \A q \in Requests : Local(q)
    BY DEF IInv
  <1> DEFINE t == call[r].type
             expiry == call[r].expiry
  <1>1. CASE Answer(r) /\ UNCHANGED <<type, stale, history>>
    BY <1>1, AnswerKeepsIInv
  <1>2. CASE /\ Stored(t)
             /\ type' = [type EXCEPT ![t] = IF expiry = "keep" THEN @
                                            ELSE IF expiry = "off" THEN "untracked"
                                            ELSE "tracked"]
             /\ coerced' = IF expiry = "coerced" THEN coerced \cup {t} ELSE coerced
             /\ stale' = stale \cup Deleting(t)
             /\ pc' = [pc EXCEPT ![r] = "findTypes"]
             /\ call' = [call EXCEPT ![r] = [op |-> "get", type |-> t]]
             /\ seen' = [seen EXCEPT ![r] = {}]
             /\ tracked' = [tracked EXCEPT ![r] = {}]
             /\ read' = [read EXCEPT ![r] = {}]
             /\ got' = [got EXCEPT ![r] = {}]
             /\ UNCHANGED <<gone, late, overtaken, unchecked>>
    <2>1. call[r] \in Updates /\ t \in TypeIds /\ expiry \in {"on", "off", "keep", "coerced"}
      BY <1>0, CallParts DEF TypeOK, HoldsItsCall
    <2>2. /\ type[t] \in {"untracked", "tracked"} /\ type'[t] \in {"untracked", "tracked"}
          /\ type' \in [TypeIds -> {"unborn", "untracked", "tracked", "deleted"}]
          /\ \A u \in TypeIds : u # t => type'[u] = type[u]
      BY <1>0, <1>2, <2>1 DEF TypeOK, Stored
    <2>3. \A q \in Requests \ {r} : Same(q)
      BY <1>0, <1>2 DEF TypeOK, Same
    <2>4. /\ pc'[r] = "findTypes" /\ call'[r] = [op |-> "get", type |-> t]
          /\ seen'[r] = {} /\ tracked'[r] = {} /\ read'[r] = {} /\ got'[r] = {}
      BY <1>0, <1>2 DEF TypeOK
    <2>5. [op |-> "get", type |-> t] \in Others /\ Others \subseteq Calls
      BY <2>1 DEF Others, Calls
    <2>6. \A u \in TypeIds : (Deleted(u) <=> Deleted(u)') /\ FieldsOf(u)' = FieldsOf(u)
      BY <2>2 DEF Deleted, FieldsOf
    <2>7. Respectful
      BY <1>2, <2>2, <2>6 DEF Respectful, Justified, HasExpiryField
    <2>8. TypeOK'
      <3>1. \A q \in Requests \ {r} : HoldsItsCall(q)'
        BY <1>0, <2>3 DEF TypeOK, HoldsItsCall, Same
      <3>2. HoldsItsCall(r)'
        BY <2>4, <2>5 DEF HoldsItsCall
      <3>3. fields' \subseteq {f \in Fields : type'[f.of] # "unborn"}
        BY <1>0, <2>2 DEF TypeOK, Fields
      <3>4. /\ pc' \in [Requests -> Awaits]
            /\ call' \in [Requests -> Calls \cup {NoCall}]
            /\ seen' \in [Requests -> SUBSET TypeIds]
            /\ tracked' \in [Requests -> SUBSET TypeIds]
            /\ read' \in [Requests -> SUBSET TypeIds]
            /\ got' \in [Requests -> SUBSET Fields]
        BY <1>0, <1>2, <2>5 DEF TypeOK, Awaits
      <3>5. \A q \in Requests : tracked'[q] \subseteq seen'[q] /\ read'[q] \subseteq seen'[q]
        BY <1>0, <2>3, <2>4 DEF TypeOK, Same
      <3>6. stale' \subseteq Requests /\ coerced' \subseteq TypeIds
        BY <1>0, <1>2, <2>1 DEF TypeOK, Deleting
      <3> QED BY <1>0, <1>2, <2>2, <3>1, <3>2, <3>3, <3>4, <3>5, <3>6 DEF TypeOK
    <2>9. Local(r)'
      <3>1. Fresh(r)' /\ Staged(r)' /\ Checked(r)' /\ Deletes(r)'
        BY <2>4 DEF Fresh, Staged, Checked, Deletes
      <3>2. SeesItsType(r)' /\ ReadsHold(r)' /\ ReadsAreWhole(r)'
        BY <2>4 DEF SeesItsType, ReadsHold, ReadsAreWhole, AfterFind
      <3> QED BY <3>1, <3>2 DEF Local
    <2>10. ASSUME NEW q \in Requests \ {r} PROVE Local(q)'
      <3>1. SeesItsType(q)' /\ ReadsHold(q)' /\ ReadsAreWhole(q)' /\ Staged(q)'
        BY <1>0, <2>3, <2>7, OthersKeepTheirReads DEF Local
      <3>2. Fresh(q)'
        <4>1. pc[q] \in {"create", "commitCreate"} => call[q] \in Creates
          BY <1>0 DEF TypeOK, HoldsItsCall
        <4>2. pc[q] \in {"create", "commitCreate"} =>
                call[q].type # t /\ type'[call[q].type] = type[call[q].type]
          BY <1>0, <2>2, <4>1, CreateParts DEF Local, Fresh
        <4> QED BY <1>0, <2>3, <2>4, <4>2 DEF Local, Fresh, Same
      <3>3. Checked(q)' /\ Deletes(q)'
        BY <1>0, <1>2, <2>3 DEF Local, Checked, Deletes, Same, FieldsOf
      <3> QED BY <3>1, <3>2, <3>3 DEF Local
    <2>11. OrphanFieldsCameLate' /\ KeysClashOnlyUnchecked'
      BY <1>0, <1>2, <2>2, <2>8 DEF Global, OrphanFieldsCameLate, KeysClashOnlyUnchecked, TypeOK, Fields
    <2>12. TrackedTypesHaveExpiryFields'
      <3>1. expiry = "on" => Justified(t)
        <4>1. CASE t \in tracked[r]
          BY <1>0, <4>1 DEF Local, ReadsHold
        <4>2. ASSUME NEW f \in got[r], f.of = t, f.kind = "expiry" PROVE Justified(t)
          BY <1>0, <4>2 DEF Local, ReadsHold, Justified, HasExpiryField, FieldsOf
        <4> QED BY <1>0, <4>1, <4>2 DEF Local, Checked
      <3>2. type'[t] = "tracked" => HasExpiryField(FieldsOf(t)) \/ t \in coerced'
        <4>1. CASE expiry = "on"
          BY <1>2, <2>2, <3>1, <4>1 DEF Justified, Deleted
        <4>2. CASE expiry = "coerced"
          BY <1>2, <4>2
        <4>3. CASE expiry \in {"keep", "off"}
          BY <1>0, <1>2, <2>1, <4>3 DEF TypeOK, Global, TrackedTypesHaveExpiryFields
        <4> QED BY <2>1, <4>1, <4>2, <4>3
      <3>3. ASSUME NEW u \in TypeIds, type'[u] = "tracked"
            PROVE  HasExpiryField(FieldsOf(u)) \/ u \in coerced'
        BY <1>0, <1>2, <2>2, <3>2, <3>3 DEF Global, TrackedTypesHaveExpiryFields
      <3> QED BY <3>3 DEF TrackedTypesHaveExpiryFields, HasExpiryField, FieldsOf
    <2> QED BY <2>8, <2>9, <2>10, <2>11, <2>12 DEF IInv, Global
  <1> QED BY <1>1, <1>2

LEMMA CommitDeleteKeepsIInv ==
  ASSUME IInv, NEW r \in Requests, CommitDelete(r)
  PROVE  IInv'
  <1> USE DEF CommitDelete
  <1>0. TypeOK /\ Global /\ \A q \in Requests : Local(q)
    BY DEF IInv
  <1> DEFINE t == call[r].type
  <1>1. t \in TypeIds /\ type[t] # "unborn"
    BY <1>0 DEF TypeOK, HoldsItsCall, Local, SeesItsType, AfterFind
  <1>2. /\ type' \in [TypeIds -> {"unborn", "untracked", "tracked", "deleted"}]
        /\ type'[t] = "deleted"
        /\ \A u \in TypeIds : u # t => type'[u] = type[u]
    BY <1>0, <1>1 DEF TypeOK
  <1>3. fields' \subseteq fields /\ \A f \in fields : f \in fields' \/ f.of = t
    BY <1>0 DEF Local, Deletes
  <1>4. \A f \in fields' : f.of = t => f \in late
    BY <1>0 DEF Local, Deletes, FieldsOf
  <1>5. UNCHANGED <<late, overtaken, unchecked, coerced>> /\ Answer(r)
    BY DEF history
  <1>6. \A q \in Requests \ {r} : Same(q)
    BY <1>0, <1>5, AnswerParts
  <1>7. Respectful
    <2>1. \A u \in TypeIds : Justified(u) => Justified(u)'
      BY <1>2, <1>3, <1>5 DEF Justified, HasExpiryField, FieldsOf, Deleted
    <2> QED BY <1>1, <1>2, <1>3, <1>5, <2>1 DEF Respectful, Deleted
  <1>8. TypeOK'
    <2>1. fields' \subseteq {f \in Fields : type'[f.of] # "unborn"}
      BY <1>0, <1>2, <1>3 DEF TypeOK, Fields
    <2>2. stale' \subseteq Requests
      BY <1>0 DEF TypeOK, Deleting
    <2> QED BY <1>0, <1>2, <1>5, <2>1, <2>2, AnswerParts DEF TypeOK
  <1>9. Local(r)'
    BY <1>0, <1>5, AnsweredIsLocal
  <1>10. ASSUME NEW q \in Requests \ {r} PROVE Local(q)'
    <2>1. SeesItsType(q)' /\ ReadsHold(q)' /\ ReadsAreWhole(q)' /\ Staged(q)'
      BY <1>0, <1>6, <1>7, OthersKeepTheirReads DEF Local
    <2>2. Fresh(q)'
      <3>1. pc[q] \in {"create", "commitCreate"} => call[q] \in Creates
        BY <1>0 DEF TypeOK, HoldsItsCall
      <3>2. pc[q] \in {"create", "commitCreate"} =>
              call[q].type # t /\ type'[call[q].type] = type[call[q].type]
        BY <1>0, <1>1, <1>2, <3>1, CreateParts DEF Local, Fresh
      <3> QED BY <1>0, <1>5, <1>6, <3>2, AnswerParts, CallParts DEF Local, Fresh, Same
    <2>3. Checked(q)' /\ Deletes(q)'
      BY <1>0, <1>3, <1>5, <1>6 DEF Local, Checked, Deletes, Same, FieldsOf
    <2> QED BY <2>1, <2>2, <2>3 DEF Local
  <1>11. OrphanFieldsCameLate'
    BY <1>0, <1>2, <1>3, <1>4, <1>5, <1>8 DEF Global, OrphanFieldsCameLate, TypeOK, Fields
  <1>12. KeysClashOnlyUnchecked'
    BY <1>0, <1>3, <1>5 DEF Global, KeysClashOnlyUnchecked
  <1>13. TrackedTypesHaveExpiryFields'
    <2>1. ASSUME NEW u \in TypeIds, type'[u] = "tracked"
          PROVE  HasExpiryField(FieldsOf(u))' \/ u \in coerced'
      BY <1>0, <1>2, <1>3, <1>5, <2>1
         DEF Global, TrackedTypesHaveExpiryFields, HasExpiryField, FieldsOf
    <2> QED BY <2>1 DEF TrackedTypesHaveExpiryFields
  <1> QED BY <1>8, <1>9, <1>10, <1>11, <1>12, <1>13 DEF IInv, Global
-----------------------------------------------------------------------------
(* The invariant.                                                          *)

LEMMA InitIInv == Init => IInv
  <1> SUFFICES ASSUME Init PROVE IInv
    OBVIOUS
  <1>1. TypeOK
    <2>1. \A r \in Requests : HoldsItsCall(r)
      BY DEF Init, HoldsItsCall
    <2>2. fields \subseteq {f \in Fields : type[f.of] # "unborn"}
      BY DEF Init, Stored
    <2> QED BY <2>1, <2>2 DEF Init, TypeOK, Awaits
  <1>2. Global
    <2>1. OrphanFieldsCameLate /\ TrackedTypesHaveExpiryFields
      BY DEF Init, OrphanFieldsCameLate, TrackedTypesHaveExpiryFields, Stored
    <2>2. KeysClashOnlyUnchecked
      BY DEF Init, KeysClashOnlyUnchecked
    <2> QED BY <2>1, <2>2 DEF Global
  <1>3. ASSUME NEW r \in Requests PROVE Local(r)
    BY DEF Init, Local, Fresh, Staged, SeesItsType, AfterFind, ReadsHold, ReadsAreWhole,
           Checked, Deletes
  <1> QED BY <1>1, <1>2, <1>3 DEF IInv

LEMMA NextKeepsIInv == IInv /\ [Next]_vars => IInv'
  <1> SUFFICES ASSUME IInv, [Next]_vars PROVE IInv'
    OBVIOUS
  <1>1. ASSUME NEW r \in Requests, Step(r) PROVE IInv'
    <2>1. CASE \E c \in Calls : Begin(r, c)
      BY <2>1, BeginKeepsIInv
    <2>2. CASE Stage(r) \/ CommitCreate(r)
      BY <2>2, StageKeepsIInv, CommitCreateKeepsIInv
    <2>3. CASE FindTypes(r) \/ \E t \in TypeIds : FindFields(r, t)
      BY <2>3, FindTypesKeepsIInv, FindFieldsKeepsIInv
    <2>4. CASE Present(r) \/ DatabaseError(r)
      BY <2>4, PresentKeepsIInv
    <2>5. CASE InsertField(r) \/ UpdateType(r)
      BY <2>5, InsertFieldKeepsIInv, UpdateTypeKeepsIInv
    <2>6. CASE DeleteFields(r) \/ DeleteType(r) \/ CommitDelete(r)
      BY <2>6, DeleteFieldsKeepsIInv, DeleteTypeKeepsIInv, CommitDeleteKeepsIInv
    <2> QED BY <1>1, <2>1, <2>2, <2>3, <2>4, <2>5, <2>6 DEF Step
  <1>2. CASE UNCHANGED vars
    <2>1. UNCHANGED <<type, fields, pc, call, seen, tracked, read, got, gone, stale, late,
                      overtaken, unchecked, coerced>>
      BY <1>2 DEF vars, memory, history
    <2>2. TypeOK' /\ Global'
      BY <2>1 DEF IInv, TypeOK, HoldsItsCall, Global, OrphanFieldsCameLate,
                  KeysClashOnlyUnchecked, TrackedTypesHaveExpiryFields, HasExpiryField, FieldsOf
    <2>3. ASSUME NEW r \in Requests PROVE Local(r)'
      <3>1. Same(r) /\ Fresh(r)'
        BY <2>1 DEF IInv, Local, Same, Fresh
      <3> QED BY <2>1, <3>1, OthersKeepQuietly DEF history
    <2> QED BY <2>2, <2>3 DEF IInv
  <1> QED BY <1>1, <1>2 DEF Next

LEMMA IInvAlways == Spec => []IInv
  BY InitIInv, NextKeepsIInv, PTL DEF Spec

LEMMA PresentedIsWhole == IInv => AnswersAreWhole
  <1> SUFFICES ASSUME IInv, NEW r \in Requests, pc[r] = "present"
               PROVE  /\ \A t \in tracked[r] : \/ \E f \in got[r] : f.of = t /\ f.kind = "expiry"
                                               \/ type[t] = "deleted" \/ t \in coerced
                      /\ \A f \in got[r] : f.key \notin Malformed
    BY DEF AnswersAreWhole
  <1>1. tracked[r] \subseteq read[r]
    BY DEF IInv, TypeOK, Local, ReadsAreWhole
  <1> QED BY <1>1 DEF IInv, Local, ReadsAreWhole, ReadsHold, Shown, Deleted

-----------------------------------------------------------------------------
(* The theorems.                                                           *)

\* Every variable has the shape the code gives it, and no field names a type that
\* was never created.
THEOREM TypeCorrect == Spec => []TypeOK
  BY IInvAlways, PTL DEF IInv

\* A deletion takes every field with the type but those that were added while
\* its transaction was open, or after it.
THEOREM OrphansCameLate == Spec => []OrphanFieldsCameLate
  BY IInvAlways, PTL DEF IInv, Global

\* Keys of one type that differ in case only were not compared with one another.
THEOREM KeysClashUnchecked == Spec => []KeysClashOnlyUnchecked
  BY IInvAlways, PTL DEF IInv, Global

\* A type with hasExpiry has an expiry field, unless an update set the flag, or its
\* creation promised the field, with a value that is no boolean: the one is not
\* checked, the other checked for truth, and the schema casts both.
THEOREM TrackedTypesCanExpire == Spec => []TrackedTypesHaveExpiryFields
  BY IInvAlways, PTL DEF IInv, Global

\* What is answered about a type fits together although the type and its fields
\* are read apart: an answer with hasExpiry has an expiry field, unless the type was
\* deleted between the reads or tracks expiry on the word of a non-boolean.
THEOREM AnswersWhole == Spec => []AnswersAreWhole
  BY IInvAlways, PresentedIsWhole, PTL

\* The step of one request on a type that is untracked, has no expiry field and has
\* met no flag that is no boolean.
LEMMA StepKeepsUntracked ==
  ASSUME IInv, NEW r \in Requests, Step(r), NEW t \in TypeIds,
         type[t] = "untracked", ~ HasExpiryField(FieldsOf(t)), t \notin coerced'
  PROVE  type'[t] # "tracked" /\ ~ HasExpiryField(FieldsOf(t)')
  <1>0. TypeOK /\ Local(r)
    BY DEF IInv
  <1>1. t \notin coerced => ~ Justified(t) /\ t \notin tracked[r]
    BY <1>0 DEF Local, ReadsHold, Justified, Deleted
  <1>2. ~ \E f \in got[r] : f.of = t /\ f.kind = "expiry"
    BY <1>0 DEF Local, ReadsHold, Deleted, HasExpiryField, FieldsOf
  <1>3. CASE CommitCreate(r)
    <2>1. call[r].type # t /\ call[r].type \in TypeIds /\ call[r] \in Creates
      BY <1>0, <1>3, CreateParts DEF Local, Fresh, TypeOK, HoldsItsCall, CommitCreate
    <2>2. type'[t] = type[t]
      BY <1>0, <1>3, <2>1 DEF CommitCreate, TypeOK
    <2>3. \A f \in NewFields(call[r]) : f.of # t
      BY <2>1, NewFieldParts
    <2>4. FieldsOf(t)' = FieldsOf(t)
      BY <1>3, <2>3 DEF CommitCreate, FieldsOf
    <2> QED BY <2>2, <2>4 DEF HasExpiryField
  <1>4. CASE InsertField(r)
    <2>1. type' = type /\ coerced' = coerced
      BY <1>4 DEF InsertField, history
    <2>2. call[r].type \in TypeIds /\ call[r].spec \in Specs
      BY <1>0, <1>4, CallParts DEF TypeOK, HoldsItsCall, InsertField
    <2>3. call[r].type = t => ~ AsksForExpiry(call[r].spec)
      BY <1>0, <1>1, <1>4, <2>1 DEF Local, Checked, InsertField
    <2>4. \A f \in fields' : f \in fields \/ f = FieldOf(call[r].type, call[r].spec)
      BY <1>4 DEF InsertField
    <2>5. \A f \in FieldsOf(t)' : f.kind # "expiry"
      BY <2>2, <2>3, <2>4, FieldOfParts DEF HasExpiryField, FieldsOf
    <2> QED BY <2>1, <2>5 DEF HasExpiryField
  <1>5. CASE UpdateType(r)
    <2>1. FieldsOf(t)' = FieldsOf(t)
      BY <1>5 DEF UpdateType, FieldsOf
    <2>2. call[r] \in Updates /\ call[r].type \in TypeIds
      BY <1>0, <1>5, CallParts DEF TypeOK, HoldsItsCall, UpdateType
    <2>3. CASE type' = type \/ call[r].type # t
      BY <1>0, <1>5, <2>1, <2>2, <2>3 DEF UpdateType, TypeOK, HasExpiryField
    <2>4. CASE call[r].type = t /\ coerced' = coerced /\ call[r].expiry = "on"
      BY <1>0, <1>1, <1>2, <1>5, <2>4 DEF Local, Checked, UpdateType
    <2>5. CASE call[r].type = t /\ call[r].expiry \in {"off", "keep"}
      BY <1>0, <1>5, <2>1, <2>2, <2>5 DEF UpdateType, TypeOK, HasExpiryField
    <2>6. CASE call[r].type = t /\ call[r].expiry = "coerced" /\ t \in coerced'
      BY <2>6
    <2> QED BY <1>5, <2>2, <2>3, <2>4, <2>5, <2>6, CallParts DEF UpdateType, history
  <1>6. CASE CommitDelete(r)
    <2>1. fields' \subseteq fields
      BY <1>6 DEF CommitDelete
    <2>2. type'[t] # "tracked"
      BY <1>0, <1>6 DEF CommitDelete, TypeOK
    <2> QED BY <2>1, <2>2 DEF HasExpiryField, FieldsOf
  <1>7. CASE \/ \E c \in Calls : Begin(r, c)
             \/ Stage(r) \/ FindTypes(r) \/ (\E u \in TypeIds : FindFields(r, u)) \/ Present(r)
             \/ DeleteFields(r) \/ DeleteType(r) \/ DatabaseError(r)
    <2>1. UNCHANGED <<type, fields>>
      BY <1>7 DEF Begin, Stage, FindTypes, FindFields, Present, DeleteFields, DeleteType,
                  DatabaseError
    <2> QED BY <2>1 DEF HasExpiryField, FieldsOf
  <1> QED BY <1>3, <1>4, <1>5, <1>6, <1>7 DEF Step

\* A type that is created untracked and without an expiry field never gets one nor
\* expiry tracking, under any interleaving of additions and updates, unless by flags
\* that are no booleans.
THEOREM UntrackedAlways == Spec => UntrackedForGood
  <1> DEFINE Keeps == \A t \in TypeIds \ coerced' :
                type[t] = "untracked" /\ ~ HasExpiryField(FieldsOf(t)) =>
                  type'[t] # "tracked" /\ ~ HasExpiryField(FieldsOf(t)')
  <1>1. IInv /\ [Next]_vars => [Keeps]_vars
    BY StepKeepsUntracked DEF Next
  <1> QED BY <1>1, IInvAlways, PTL DEF Spec, UntrackedForGood
-----------------------------------------------------------------------------
(* The refinement: what the mapping of Schemas makes of the steps.         *)

StateOf ==
  [t \in TypeIds |-> IF type[t] = "unborn" THEN "absent"
                     ELSE IF type[t] = "deleted" THEN "gone" ELSE "shown"]
Tracking == {t \in TypeIds : type[t] = "tracked"}
Schema == {f \in fields : Stored(f.of)}

LEMMA QuietIsStutter == UNCHANGED <<type, fields>> => UNCHANGED Schemas!vars
  BY DEF Schemas!vars, Stored

LEMMA InitImplements == Init => Schemas!Init
  <1> SUFFICES ASSUME Init PROVE Schemas!Init
    OBVIOUS
  <1>1. \A f \in fields : f \in Fields /\ f.of \in TypeIds /\ Stored(f.of)
    BY DEF Init, Fields
  <1>2. StateOf \in [TypeIds -> {"absent", "shown", "gone"}]
    BY DEF StateOf
  <1>3. Tracking \subseteq {t \in TypeIds : StateOf[t] = "shown"}
    BY DEF Tracking, StateOf
  <1>4. Schema \subseteq {f \in Fields : StateOf[f.of] = "shown"}
    BY <1>1 DEF Schema, StateOf, Stored
  <1>5. \A f, g \in Schema : f.of = g.of /\ f.key = g.key => f = g
    BY DEF Schema, Init, SameUpToCase
  <1> QED BY <1>2, <1>3, <1>4, <1>5 DEF Schemas!Init, Schemas!DistinctKeys, StateOf, Tracking, Schema

LEMMA CommitCreatePublishes ==
  ASSUME IInv, NEW r \in Requests, CommitCreate(r)
  PROVE  \E t \in TypeIds : Schemas!Publish(t)
  <1>0. TypeOK /\ Local(r)
    BY DEF IInv
  <1> DEFINE c == call[r]
             new == NewFields(call[r])
  <1>1. PICK t \in TypeIds : t = call[r].type
    BY <1>0, CreateParts DEF TypeOK, HoldsItsCall, CommitCreate
  <1>2. c \in Creates /\ type[t] = "unborn"
    BY <1>0, <1>1 DEF TypeOK, HoldsItsCall, Local, Fresh, CommitCreate
  <1>3. /\ type' = [type EXCEPT ![t] = IF c.expiry THEN "tracked" ELSE "untracked"]
        /\ fields' = fields \cup new
    BY <1>1 DEF CommitCreate
  <1>4. \A f \in new : f \in Fields /\ f.of = t
    BY <1>1, <1>2, NewFieldParts
  <1>5. \A f \in fields : f.of \in TypeIds /\ f.of # t
    BY <1>0, <1>2 DEF TypeOK, Fields
  <1>6. type'[t] \in {"tracked", "untracked"} /\ \A u \in TypeIds : u # t => type'[u] = type[u]
    BY <1>0, <1>3 DEF TypeOK
  <1>7. StateOf[t] = "absent" /\ StateOf' = [StateOf EXCEPT ![t] = "shown"]
    BY <1>2, <1>6 DEF StateOf
  <1>8. Tracking' \in {Tracking, Tracking \cup {t}}
    BY <1>2, <1>6 DEF Tracking
  <1>9. Schema' = Schema \cup new
    BY <1>3, <1>4, <1>5, <1>6 DEF Schema, Stored
  <1>10. \A f, g \in new : f.of = g.of /\ f.key = g.key => f = g
    <2>1. SUFFICES ASSUME NEW f \in new, NEW g \in new, f.key = g.key PROVE f = g
      OBVIOUS
    <2>2. PICK s \in c.specs : f = FieldOf(c.type, s) /\ f.key = s.key
      BY <1>2, NewFieldParts
    <2>3. PICK u \in c.specs : g = FieldOf(c.type, u) /\ g.key = u.key
      BY <1>2, NewFieldParts
    <2>4. s = u
      BY <1>0, <2>1, <2>2, <2>3 DEF Local, Staged, CommitCreate
    <2> QED BY <2>2, <2>3, <2>4
  <1>11. new \in SUBSET {f \in Fields : f.of = t}
    BY <1>4
  <1>12. Schemas!Publish(t)
    BY <1>7, <1>8, <1>9, <1>10, <1>11
       DEF Schemas!Publish, Schemas!DistinctKeys, StateOf, Tracking, Schema
  <1> QED BY <1>12

LEMMA InsertFieldExtends ==
  ASSUME IInv, NEW r \in Requests, InsertField(r)
  PROVE  (\E f \in Fields : Schemas!Extend(f)) \/ UNCHANGED Schemas!vars
  <1>0. TypeOK
    BY DEF IInv
  <1>1. call[r].type \in TypeIds /\ call[r].spec \in Specs
    BY <1>0, CallParts DEF TypeOK, HoldsItsCall, InsertField
  <1>2. PICK f \in Fields : f = FieldOf(call[r].type, call[r].spec) /\ f.of = call[r].type
    BY <1>1, FieldOfParts
  <1>3. type' = type
    BY DEF InsertField
  <1>4. CASE UNCHANGED fields
    BY <1>3, <1>4, QuietIsStutter
  <1>5. CASE fields' = fields \cup {f} /\ \A g \in FieldsOf(f.of) : g.key # f.key
    <2>1. CASE Stored(f.of)
      <3>1. StateOf[f.of] = "shown"
        BY <1>1, <1>2, <2>1 DEF StateOf, Stored
      <3>2. Schema' = Schema \cup {f}
        BY <1>3, <1>5, <2>1 DEF Schema, Stored
      <3>3. \A g \in Schema : g.of = f.of => g.key # f.key
        BY <1>5 DEF Schema, FieldsOf
      <3>4. StateOf' = StateOf /\ Tracking' = Tracking
        BY <1>3 DEF StateOf, Tracking
      <3> QED BY <3>1, <3>2, <3>3, <3>4 DEF Schemas!Extend, StateOf, Tracking, Schema
    <2>2. CASE ~ Stored(f.of)
      <3>1. Schema' = Schema /\ StateOf' = StateOf /\ Tracking' = Tracking
        BY <1>3, <1>5, <2>2 DEF Schema, Stored, StateOf, Tracking
      <3> QED BY <3>1 DEF Schemas!vars, StateOf, Tracking, Schema
    <2> QED BY <2>1, <2>2
  <1>6. \/ UNCHANGED fields
        \/ fields' = fields \cup {f} /\ \A g \in FieldsOf(f.of) : g.key # f.key
    BY <1>2 DEF InsertField
  <1> QED BY <1>4, <1>5, <1>6

LEMMA UpdateTypeRetracks ==
  ASSUME IInv, NEW r \in Requests, UpdateType(r)
  PROVE  (\E t \in TypeIds : Schemas!Retrack(t)) \/ UNCHANGED Schemas!vars
  <1>0. TypeOK
    BY DEF IInv
  <1>1. PICK t \in TypeIds : t = call[r].type
    BY <1>0, CallParts DEF TypeOK, HoldsItsCall, UpdateType
  <1>2. CASE UNCHANGED type
    BY <1>2, QuietIsStutter DEF UpdateType
  <1>3. CASE Stored(t) /\ \E s \in {"untracked", "tracked"} : type' = [type EXCEPT ![t] = s]
    <2>1. fields' = fields
      BY DEF UpdateType
    <2>2. /\ type[t] \in {"untracked", "tracked"} /\ type'[t] \in {"untracked", "tracked"}
          /\ \A u \in TypeIds : u # t => type'[u] = type[u]
      BY <1>0, <1>3 DEF TypeOK, Stored
    <2>3. StateOf[t] = "shown" /\ StateOf' = StateOf
      BY <2>2 DEF StateOf
    <2>4. Tracking' \in {Tracking \cup {t}, Tracking \ {t}}
      BY <2>2 DEF Tracking
    <2>5. Schema' = Schema
      <3>1. \A f \in fields : f.of \in TypeIds
        BY <1>0 DEF TypeOK, Fields
      <3> QED BY <2>1, <2>2, <3>1 DEF Schema, Stored
    <2>6. Schemas!Retrack(t)
      BY <2>3, <2>4, <2>5 DEF Schemas!Retrack, StateOf, Tracking, Schema
    <2> QED BY <2>6
  <1>4. UNCHANGED type \/ (Stored(t) /\ \E s \in {"untracked", "tracked"} : type' = [type EXCEPT ![t] = s])
    <2>1. Stored(t) => type[t] \in {"untracked", "tracked"}
      BY DEF Stored
    <2> QED BY <1>1, <2>1 DEF UpdateType
  <1> QED BY <1>2, <1>3, <1>4

LEMMA CommitDeleteRetires ==
  ASSUME IInv, NEW r \in Requests, CommitDelete(r)
  PROVE  (\E t \in TypeIds : Schemas!Retire(t)) \/ UNCHANGED Schemas!vars
  <1>0. TypeOK /\ Local(r)
    BY DEF IInv
  <1>1. PICK t \in TypeIds : t = call[r].type
    BY <1>0 DEF TypeOK, HoldsItsCall, CommitDelete
  <1>2. /\ type[t] # "unborn" /\ type'[t] = "deleted"
        /\ \A u \in TypeIds : u # t => type'[u] = type[u]
    BY <1>0, <1>1 DEF TypeOK, HoldsItsCall, Local, SeesItsType, AfterFind, CommitDelete
  <1>3. fields' \subseteq fields /\ \A f \in fields : f \in fields' \/ f.of = t
    BY <1>0, <1>1 DEF Local, Deletes, CommitDelete
  <1>4. \A f \in fields : f.of \in TypeIds
    BY <1>0 DEF TypeOK, Fields
  <1>5. CASE Stored(t)
    <2>1. StateOf[t] = "shown" /\ StateOf' = [StateOf EXCEPT ![t] = "gone"]
      BY <1>2, <1>5 DEF StateOf, Stored
    <2>2. Tracking' = Tracking \ {t}
      BY <1>2 DEF Tracking
    <2>3. Schema' = {f \in Schema : f.of # t}
      BY <1>2, <1>3, <1>4 DEF Schema, Stored
    <2>4. Schemas!Retire(t)
      BY <2>1, <2>2, <2>3 DEF Schemas!Retire, StateOf, Tracking, Schema
    <2> QED BY <2>4
  <1>6. CASE ~ Stored(t)
    <2>1. type[t] = "deleted"
      BY <1>0, <1>2, <1>6 DEF TypeOK, Stored
    <2>2. type' = type
      BY <1>0, <1>1, <2>1 DEF TypeOK, CommitDelete
    <2>3. Schema' = Schema /\ StateOf' = StateOf /\ Tracking' = Tracking
      BY <1>3, <1>4, <1>6, <2>2 DEF Schema, Stored, StateOf, Tracking
    <2> QED BY <2>3 DEF Schemas!vars, StateOf, Tracking, Schema
  <1> QED BY <1>5, <1>6

LEMMA StepImplements == IInv /\ [Next]_vars => [Schemas!Next]_(Schemas!vars)
  <1> SUFFICES ASSUME IInv, [Next]_vars PROVE [Schemas!Next]_(Schemas!vars)
    OBVIOUS
  <1>1. ASSUME NEW r \in Requests, Step(r) PROVE [Schemas!Next]_(Schemas!vars)
    <2>1. CASE CommitCreate(r)
      BY <2>1, CommitCreatePublishes DEF Schemas!Next
    <2>2. CASE InsertField(r)
      BY <2>2, InsertFieldExtends DEF Schemas!Next
    <2>3. CASE UpdateType(r)
      BY <2>3, UpdateTypeRetracks DEF Schemas!Next
    <2>4. CASE CommitDelete(r)
      BY <2>4, CommitDeleteRetires DEF Schemas!Next
    <2>5. CASE \/ \E c \in Calls : Begin(r, c)
               \/ Stage(r) \/ FindTypes(r) \/ (\E t \in TypeIds : FindFields(r, t)) \/ Present(r)
               \/ DeleteFields(r) \/ DeleteType(r) \/ DatabaseError(r)
      <3>1. UNCHANGED <<type, fields>>
        BY <2>5 DEF Begin, Stage, FindTypes, FindFields, Present, DeleteFields, DeleteType,
                    DatabaseError
      <3> QED BY <3>1, QuietIsStutter
    <2> QED BY <1>1, <2>1, <2>2, <2>3, <2>4, <2>5 DEF Step
  <1>2. CASE UNCHANGED vars
    BY <1>2, QuietIsStutter DEF vars
  <1> QED BY <1>1, <1>2 DEF Next

\* Whoever reads a type sees it come with all its fields, gain them one at a time,
\* and go with all of them: two transactions and the unique index implement
\* DocumentTypeSchemas for any types, keys and requests.
THEOREM ImplementsSchemas == Spec => TypesComeAndGoWhole
  <1>1. Spec => Schemas!Init /\ [][Schemas!Next]_(Schemas!vars)
    BY IInvAlways, InitImplements, StepImplements, PTL DEF Spec
  <1> QED BY <1>1 DEF TypesComeAndGoWhole, Schemas!Spec
=============================================================================
