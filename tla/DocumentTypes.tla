---------------------------- MODULE DocumentTypes ----------------------------
(***************************************************************************)
(* Document types and their fields, two collections, in one workspace.     *)
(*                                                                         *)
(* Creating a type inserts it and its fields in one MongoDB transaction,   *)
(* deleting it removes both in another.  Everything else is outside: a     *)
(* field is added, and the expiry flag of a type changed, by a request     *)
(* that has read the type in one await and its fields in the next.         *)
(*                                                                         *)
(* An action is the code from one await to the next.  Transactions read    *)
(* the snapshot of their first statement; a write to a document that an    *)
(* open transaction has written, or that was written after the snapshot,   *)
(* aborts the transaction that makes it, and waits for the other to end    *)
(* when it is not in one.  The audit record, written after everything      *)
(* here, is left out.  Every request makes one write or commit, so a crash *)
(* that loses it is like a rejected call (DatabaseError).                  *)
(*                                                                         *)
(* What a type is called, whether it has metadata and which entities it    *)
(* fits are checked on their own and do not meet with the rest of it.      *)
(***************************************************************************)
CONSTANTS
  TypeIds,       \* _ids of document types, drawn afresh by every creation
  Keys,          \* field keys, trimmed
  Malformed,     \* those with a character that is no letter, digit or _
  CaseVariants,  \* pairs of keys that differ in case only
  Requests       \* HTTP requests; each is made at most once

ASSUME MalformedKeys == Malformed \subseteq Keys

VARIABLES
  type,      \* the document_types collection: _id -> "unborn", "untracked",
             \* "tracked" (hasExpiry) or "deleted"
  fields,    \* the document_type_fields collection
  pc,        \* the await each request is suspended at
  call,      \* the request itself
  seen,      \* the types it has read,
  tracked,   \*   those of them that had hasExpiry,
  read,      \*   those whose fields it has read as well,
  got,       \*   and these fields
  gone,      \* the fields its open transaction has deleted
  stale,     \* deletions whose snapshot is older than the type is now
  late,      \* history: fields added while a deletion was open, or later
  overtaken, \* history: AddFields whose type got a field since they read it
  unchecked, \* history: fields whose key was not compared with all others
  coerced    \* history: types that track expiry on the word of a non-boolean

memory == <<call, seen, tracked, read, got, gone>>
history == <<late, overtaken, unchecked, coerced>>
vars == <<type, fields, pc, memory, stale, history>>

Fields == [of : TypeIds, key : Keys, kind : {"plain", "expiry"}]

\* A field as a request describes it.  "textExpiry" is an expiry field that is no
\* date; "castFalse" a date with an isExpiryField such as the string "false", true
\* to the checks and cast to false by the schema (on a field that is no date it is
\* refused where "textExpiry" is for being no date, and "plain" elsewhere).  A key
\* with a blank in front or behind is stored trimmed, but compared untrimmed (asked
\* for with plain fields only, a bound of the model).
Specs == [key : Keys, kind : {"plain", "expiry", "textExpiry", "castFalse"}, blank : {FALSE}]
           \cup [key : Keys, kind : {"plain"}, blank : {TRUE}]

\* At most two fields come with a new type (bound of the model).
SpecLists == {{}} \cup {{s, t} : s, t \in Specs}

\* A hasExpiry such as "true" is like TRUE; one such as "false" meets the checks
\* of TRUE and is stored as FALSE, which leaves less than FALSE does.
Creates == [op : {"create"}, type : TypeIds, expiry : BOOLEAN, specs : SpecLists]
Adds == [op : {"addField"}, type : TypeIds, spec : Specs]
\* "coerced" is a hasExpiry such as the string "true": not === true, and cast
\* to true by the schema.
Updates == [op : {"update"}, type : TypeIds, expiry : {"on", "off", "keep", "coerced"}]
Others == [op : {"delete", "get"}, type : TypeIds]
List == [op |-> "list"]
NoCall == [op |-> "none"]
Calls == Creates \cup Adds \cup Updates \cup Others \cup {List}

Stored(t) == type[t] \in {"untracked", "tracked"}
FieldsOf(t) == {f \in fields : f.of = t}

\* The checks test isExpiryField for truth, the schema casts it.
AsksForExpiry(spec) == spec.kind # "plain"
CastsToExpiry(spec) == spec.kind \in {"expiry", "textExpiry"}

FieldOf(t, spec) ==
  [of |-> t, key |-> spec.key, kind |-> IF CastsToExpiry(spec) THEN "expiry" ELSE "plain"]
SameUpToCase(k, l) == k = l \/ {k, l} \in CaseVariants
DistinctKeys(F) == \A f, g \in F : f.of = g.of /\ f.key = g.key => f = g
HasExpiryField(F) == \E f \in F : f.kind = "expiry"

\* Open transactions that delete t.
Deleting(t) == {q \in Requests : pc[q] \in {"deleteType", "commitDelete"} /\ call[q].type = t}
HoldingType(t) == {q \in Deleting(t) : pc[q] = "commitDelete"}

\* What requests can have left behind, none of them overtaken or refused.
Init ==
  /\ type \in [TypeIds -> {"unborn", "untracked", "tracked"}]
  /\ fields \in SUBSET {f \in Fields : Stored(f.of) /\ f.key \notin Malformed}
  /\ \A f, g \in fields : f.of = g.of /\ SameUpToCase(f.key, g.key) => f = g
  /\ \A t \in TypeIds : type[t] = "tracked" => HasExpiryField(FieldsOf(t))
  /\ pc = [r \in Requests |-> "new"]
  /\ call = [r \in Requests |-> NoCall]
  /\ seen = [r \in Requests |-> {}]
  /\ tracked = seen /\ read = seen /\ got = seen /\ gone = seen
  /\ stale = {} /\ late = {} /\ overtaken = {} /\ unchecked = {} /\ coerced = {}

-----------------------------------------------------------------------------

Goto(r, label) == pc' = [pc EXCEPT ![r] = label] /\ UNCHANGED memory

\* The request is answered, whatever the answer; what it held is forgotten.
Answer(r) ==
  /\ pc' = [pc EXCEPT ![r] = "done"]
  /\ call' = [call EXCEPT ![r] = NoCall]
  /\ seen' = [seen EXCEPT ![r] = {}]
  /\ tracked' = [tracked EXCEPT ![r] = {}]
  /\ read' = [read EXCEPT ![r] = {}]
  /\ got' = [got EXCEPT ![r] = {}]
  /\ gone' = [gone EXCEPT ![r] = {}]

Begin(r, c) ==
  /\ pc[r] = "new"
  /\ call' = [call EXCEPT ![r] = c]
  /\ IF c.op = "create"
       THEN /\ type[c.type] = "unborn"
            /\ \A q \in Requests : call[q].op = "create" => call[q].type # c.type
            /\ pc' = [pc EXCEPT ![r] = "create"]
       ELSE pc' = [pc EXCEPT ![r] = "findTypes"]
  /\ UNCHANGED <<type, fields, seen, tracked, read, got, gone, stale, history>>

-----------------------------------------------------------------------------
(* CreateDocumentType.                                                     *)

\* (mutant) case matters.
NoDuplicatesExactly(specs) ==
  \A s, t \in specs : s.key = t.key /\ s.blank = t.blank => s = t

\* No two keys of the request are equal but for case, as they are spelled.
NoDuplicates(specs) ==
  \A s, t \in specs : SameUpToCase(s.key, t.key) /\ s.blank = t.blank => s = t

Acceptable(c) ==
  /\ c.expiry => /\ \E s \in c.specs : AsksForExpiry(s)
                 /\ \A s \in c.specs : s.kind # "textExpiry"
  /\ NoDuplicates(c.specs)

\* DocumentTypeField.validate, which the inserted fields meet inside the
\* transaction.
Valid(spec) == spec.key \notin Malformed /\ spec.kind # "textExpiry"

NewFields(c) == {FieldOf(c.type, s) : s \in c.specs}

\* Every expiry field that the checks found is none for the schema.
CastAway(c) ==
  c.expiry /\ (\E s \in c.specs : AsksForExpiry(s)) /\ \A s \in c.specs : ~ CastsToExpiry(s)

\* The checks of the use case, then the inserts of the transaction, which
\* nobody sees yet.  A key twice (the unique index) or an invalid field aborts
\* it.
Stage(r) ==
  /\ pc[r] = "create"
  /\ LET c == call[r] IN
       IF /\ Acceptable(c)
          /\ \A s, t \in c.specs : s.key = t.key => s = t
          /\ \A s \in c.specs : Valid(s)
         THEN Goto(r, "commitCreate")
         ELSE Answer(r)
  /\ UNCHANGED <<type, fields, stale, history>>

CommitCreate(r) ==
  /\ pc[r] = "commitCreate"
  /\ LET c == call[r] IN
       /\ type' = [type EXCEPT ![c.type] = IF c.expiry THEN "tracked" ELSE "untracked"]
       /\ fields' = fields \cup NewFields(c)
       /\ unchecked' = unchecked \cup {FieldOf(c.type, s) : s \in {s \in c.specs : s.blank}}
       /\ coerced' = IF CastAway(c) THEN coerced \cup {c.type} ELSE coerced
  /\ Answer(r)
  /\ UNCHANGED <<stale, late, overtaken>>

-----------------------------------------------------------------------------
(* Reading: findByIdWithFields, and GetDocumentTypes for all types.        *)

FindTypes(r) ==
  /\ pc[r] = "findTypes"
  /\ LET asked == IF call[r].op = "list" THEN TypeIds ELSE {call[r].type}
         there == {t \in asked : Stored(t)}
     IN IF call[r].op # "list" /\ there = {}
          THEN Answer(r)
          ELSE /\ seen' = [seen EXCEPT ![r] = there]
               /\ tracked' = [tracked EXCEPT ![r] = {t \in there : type[t] = "tracked"}]
               /\ pc' = [pc EXCEPT ![r] = IF there = {} THEN "present" ELSE "findFields"]
               /\ UNCHANGED <<call, read, got, gone>>
  /\ UNCHANGED <<type, fields, stale, history>>

\* (mutant) an expiry field asks for no expiry tracking.
MayAddUntracked(r, F) ==
  LET s == call[r].spec IN
    /\ \A f \in F : s.blank \/ ~ SameUpToCase(f.key, s.key)
    /\ s.kind # "textExpiry"

\* The checks of AddField and UpdateDocumentType against what was read.
MayAdd(r, F) ==
  LET s == call[r].spec IN
    /\ \A f \in F : s.blank \/ ~ SameUpToCase(f.key, s.key)
    /\ s.kind # "textExpiry"
    /\ AsksForExpiry(s) => call[r].type \in tracked[r]

\* (mutant) nobody asks for an expiry field.
MayUpdateAnyway(r, F) == TRUE

MayUpdate(r, F) ==
  call[r].expiry = "on" => call[r].type \in tracked[r] \/ HasExpiryField(F)

Allowed(r, F) ==
  /\ call[r].op = "addField" => MayAdd(r, F)
  /\ call[r].op = "update" => MayUpdate(r, F)

AfterReading(op) ==
  CASE op = "addField" -> "insertField"
    [] op = "update" -> "update"
    [] op = "delete" -> "deleteFields"
    [] op \in {"get", "list"} -> "present"

\* (mutant) Promise.race: the first query to settle is enough.
SomeRead(r, t) == TRUE

AllRead(r, t) == read[r] \cup {t} = seen[r]

\* One field that fails validation, and the whole request is answered 400.
FindFields(r, t) ==
  /\ pc[r] = "findFields"
  /\ t \in seen[r] \ read[r]
  /\ LET F == got[r] \cup FieldsOf(t)
     IN IF \/ \E f \in FieldsOf(t) : f.key \in Malformed
           \/ AllRead(r, t) /\ ~ Allowed(r, F)
          THEN Answer(r)
          ELSE /\ got' = [got EXCEPT ![r] = F]
               /\ read' = [read EXCEPT ![r] = @ \cup {t}]
               /\ pc' = IF AllRead(r, t) THEN [pc EXCEPT ![r] = AfterReading(call[r].op)] ELSE pc
               /\ UNCHANGED <<call, seen, tracked, gone>>
  /\ UNCHANGED <<type, fields, stale, history>>

Present(r) ==
  /\ pc[r] = "present"
  /\ Answer(r)
  /\ UNCHANGED <<type, fields, stale, history>>

-----------------------------------------------------------------------------
(* AddField and UpdateDocumentType, outside any transaction.               *)

\* (mutant) no unique index.
InsertFieldNoIndex(r) ==
  /\ pc[r] = "insertField"
  /\ fields' = fields \cup {FieldOf(call[r].type, call[r].spec)}
  /\ Answer(r)
  /\ UNCHANGED <<type, stale, history>>

\* The insert, under the unique index on (documentTypeId, fieldKey), which
\* waits for an open deletion of the same key.  Nothing looks at the type
\* again.  A malformed key is answered 400, after it has been stored.
InsertField(r) ==
  /\ pc[r] = "insertField"
  /\ LET t == call[r].type
         f == FieldOf(t, call[r].spec)
     IN /\ \A q \in Deleting(t) : \A g \in gone[q] : g.key # f.key
        /\ IF \E g \in FieldsOf(t) : g.key = f.key
             THEN UNCHANGED <<fields, history>>
             ELSE /\ fields' = fields \cup {f}
                  /\ late' = IF Deleting(t) # {} \/ ~ Stored(t) THEN late \cup {f} ELSE late
                  /\ overtaken' = overtaken \cup
                       {q \in Requests \ {r} : pc[q] = "insertField" /\ call[q].type = t}
                  /\ unchecked' = IF call[r].spec.blank \/ r \in overtaken
                                    THEN unchecked \cup {f} ELSE unchecked
                  /\ UNCHANGED coerced
  /\ Answer(r)
  /\ UNCHANGED <<type, stale>>

\* findByIdAndUpdate, which waits for a transaction that has deleted the type;
\* 404 if it is gone.  The answer is then read like that of a get.
UpdateType(r) ==
  /\ pc[r] = "update"
  /\ LET t == call[r].type
         expiry == call[r].expiry
     IN /\ HoldingType(t) = {}
        /\ \/ ~ Stored(t) /\ Answer(r) /\ UNCHANGED <<type, stale, history>>
           \/ /\ Stored(t)
              /\ type' = [type EXCEPT ![t] = IF expiry = "keep" THEN @
                                             ELSE IF expiry = "off" THEN "untracked"
                                             ELSE "tracked"]
              /\ coerced' = IF expiry = "coerced" THEN coerced \cup {t} ELSE coerced
              /\ stale' = stale \cup Deleting(t)
              /\ pc' = [pc EXCEPT ![r] = "findTypes"]
              /\ call' = [call EXCEPT ![r] = [op |-> "get", type |-> t]]
              /\ seen' = [seen EXCEPT ![r] = {}]
              /\ tracked' = [tracked EXCEPT ![r] = {}]
              /\ read' = [read EXCEPT ![r] = {}]
              /\ got' = [got EXCEPT ![r] = {}]
              /\ UNCHANGED <<gone, late, overtaken, unchecked>>
  /\ UNCHANGED fields

-----------------------------------------------------------------------------
(* DeleteDocumentType: a transaction of two deletions.                     *)

\* deleteMany, the first statement.  It aborts on a field that another open
\* deletion has removed.
DeleteFields(r) ==
  /\ pc[r] = "deleteFields"
  /\ LET t == call[r].type IN
       IF \E q \in Deleting(t) : gone[q] \cap FieldsOf(t) # {}
         THEN Answer(r)
         ELSE /\ gone' = [gone EXCEPT ![r] = FieldsOf(t)]
              /\ pc' = [pc EXCEPT ![r] = "deleteType"]
              /\ UNCHANGED <<call, seen, tracked, read, got>>
  /\ UNCHANGED <<type, fields, stale, history>>

\* findByIdAndDelete; a type that was gone before the snapshot is not there to
\* conflict about.
DeleteType(r) ==
  /\ pc[r] = "deleteType"
  /\ LET t == call[r].type IN
       IF r \in stale \/ (Stored(t) /\ HoldingType(t) # {})
         THEN Answer(r)
         ELSE Goto(r, "commitDelete")
  /\ UNCHANGED <<type, fields, stale, history>>

\* (mutant) the fields were deleted without the session and nobody noticed.
CommitTypeOnly(r) ==
  /\ pc[r] = "commitDelete"
  /\ type' = [type EXCEPT ![call[r].type] = "deleted"]
  /\ Answer(r)
  /\ UNCHANGED <<fields, stale, history>>

CommitDelete(r) ==
  /\ pc[r] = "commitDelete"
  /\ LET t == call[r].type IN
       /\ fields' = fields \ gone[r]
       /\ type' = [type EXCEPT ![t] = "deleted"]
       /\ stale' = IF Stored(t) THEN stale \cup (Deleting(t) \ {r}) ELSE stale
  /\ Answer(r)
  /\ UNCHANGED history

-----------------------------------------------------------------------------

\* A database call rejects, or the process dies: nothing of an open transaction
\* is ever seen.
DatabaseError(r) ==
  /\ pc[r] \notin {"new", "done"}
  /\ Answer(r)
  /\ UNCHANGED <<type, fields, stale, history>>

Step(r) ==
  \/ \E c \in Calls : Begin(r, c)
  \/ Stage(r) \/ CommitCreate(r)
  \/ FindTypes(r) \/ (\E t \in TypeIds : FindFields(r, t)) \/ Present(r)
  \/ InsertField(r) \/ UpdateType(r)
  \/ DeleteFields(r) \/ DeleteType(r) \/ CommitDelete(r)
  \/ DatabaseError(r)

Next == \E r \in Requests : Step(r)

Spec == Init /\ [][Next]_vars

-----------------------------------------------------------------------------
(* Properties.                                                             *)

Awaits == {"new", "create", "commitCreate", "findTypes", "findFields", "present",
           "insertField", "update", "deleteFields", "deleteType", "commitDelete", "done"}

ByType == Creates \cup Adds \cup Updates \cup Others

\* What a request holds at each await.
HoldsItsCall(r) ==
  /\ pc[r] \in {"new", "done"} => call[r] = NoCall
  /\ pc[r] \in {"create", "commitCreate"} => call[r] \in Creates
  /\ pc[r] = "insertField" => call[r] \in Adds
  /\ pc[r] = "update" => call[r] \in Updates
  /\ pc[r] \in {"deleteFields", "deleteType", "commitDelete"} => call[r] \in [op : {"delete"}, type : TypeIds]
  /\ pc[r] \in {"findTypes", "findFields"} => call[r] \in Adds \cup Updates \cup Others \cup {List}
  /\ pc[r] = "present" => call[r].op \in {"get", "list"}

\* Every variable has the shape the code gives it, and a field names a type that
\* was created.
TypeOK ==
  /\ type \in [TypeIds -> {"unborn", "untracked", "tracked", "deleted"}]
  /\ fields \subseteq {f \in Fields : type[f.of] # "unborn"}
  /\ pc \in [Requests -> Awaits]
  /\ call \in [Requests -> Calls \cup {NoCall}]
  /\ \A r \in Requests : HoldsItsCall(r)
  /\ seen \in [Requests -> SUBSET TypeIds]
  /\ tracked \in [Requests -> SUBSET TypeIds]
  /\ read \in [Requests -> SUBSET TypeIds]
  /\ got \in [Requests -> SUBSET Fields]
  /\ gone \in [Requests -> SUBSET Fields]
  /\ \A r \in Requests : tracked[r] \subseteq seen[r] /\ read[r] \subseteq seen[r]
  /\ stale \subseteq Requests /\ overtaken \subseteq Requests
  /\ late \subseteq Fields /\ unchecked \subseteq Fields /\ coerced \subseteq TypeIds

\* A deletion takes the fields with the type: what is left of a deleted type was
\* added by a request that did not notice, while the transaction was open or
\* after it.
OrphanFieldsCameLate ==
  \A f \in fields : type[f.of] = "deleted" => f \in late

\* Two fields of a type have keys that differ in case only if one of them was
\* spelled with a blank when it was compared, or added by a request that another
\* one overtook: the unique index tells the spellings apart.
KeysClashOnlyUnchecked ==
  \A f, g \in fields :
    f.of = g.of /\ f # g /\ SameUpToCase(f.key, g.key) => f \in unchecked \/ g \in unchecked

\* README: "hasExpiry: true requires at least one field with isExpiryField".  It
\* does under every interleaving of creations, updates and deletions, except
\* where one of the flags was no boolean: hasExpiry of an update, which the check
\* overlooks and the schema casts to true, or every isExpiryField of a creation,
\* which the check takes for true and the schema casts to false.
TrackedTypesHaveExpiryFields ==
  \A t \in TypeIds : type[t] = "tracked" => HasExpiryField(FieldsOf(t)) \/ t \in coerced

\* What is answered about a type (the type is read first, its fields after it,
\* for several types in parallel) shows an expiry field if it shows hasExpiry,
\* unless the type was deleted in between or tracks expiry on the word of a flag
\* that is no boolean, and never a malformed key.
AnswersAreWhole ==
  \A r \in Requests :
    pc[r] = "present" =>
      /\ \A t \in tracked[r] : \/ \E f \in got[r] : f.of = t /\ f.kind = "expiry"
                               \/ type[t] = "deleted" \/ t \in coerced
      /\ \A f \in got[r] : f.key \notin Malformed

\* A type that was created untracked and without an expiry field stays so: one use
\* case answers "Add an expiry field first", the other "Enable hasExpiry first", and
\* no interleaving of the two gets around it.  Flags that are no booleans do: a
\* type that tracked expiry on the word of one is exempt from then on.
UntrackedForGood ==
  [][\A t \in TypeIds \ coerced' :
       type[t] = "untracked" /\ ~ HasExpiryField(FieldsOf(t)) =>
         type'[t] # "tracked" /\ ~ HasExpiryField(FieldsOf(t)')]_vars

\* Whoever reads a type sees it come and go with its fields, as DocumentTypeSchemas
\* has it; fields left to a type that is gone are nobody's.
Schemas == INSTANCE DocumentTypeSchemas WITH
  TypeIds <- TypeIds, Fields <- Fields,
  state <- [t \in TypeIds |-> IF type[t] = "unborn" THEN "absent"
                             ELSE IF type[t] = "deleted" THEN "gone"
                             ELSE "shown"],
  tracking <- {t \in TypeIds : type[t] = "tracked"},
  schema <- {f \in fields : Stored(f.of)}

TypesComeAndGoWhole == Schemas!Spec
=============================================================================
