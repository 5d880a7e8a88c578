----------------------- MODULE WorkItemLifecycleProofs -----------------------
(***************************************************************************)
(* WorkItemLifecycle, for every set of items and requests and whatever     *)
(* strings requests ask for: it implements WorkItemStatus; its answers and *)
(* its audit log tell the truth about status changes; no change is lost;   *)
(* and an item whose priority cannot be read stays so.                     *)
(***************************************************************************)
EXTENDS WorkItemLifecycle, TLAPS

StatusStates == Statuses \cup {"unborn", "deleted"}

\* A status change carries a transition that was legal for the status it read,
\* and that is all it needs to know when it writes.
CarriesLegalMove(r) ==
  /\ pc[r] \in {"cas", "set", "unlink", "delete"} => call[r] \in OnItem
  /\ pc[r] = "cas" =>
       call[r].op = "status" /\ call[r].status \in SM!Transitions(seen[r])
  /\ pc[r] = "delete" => call[r].item \in ItemIds

MoveInv ==
  /\ status \in [ItemIds -> StatusStates]
  /\ pc \in [Requests -> {"new", "insert", "cas", "set", "unlink", "delete",
                          "present", "done"}]
  /\ call \in [Requests -> Creates \cup OnItem \cup {NoCall}]
  /\ seen \in [Requests -> Statuses \cup {"unborn"}]
  /\ \A r \in Requests : CarriesLegalMove(r)

-----------------------------------------------------------------------------

LEMMA LegalTargets ==
  ASSUME NEW s \in StatusStates, NEW t \in SM!Transitions(s)
  PROVE  s \in Statuses /\ t \in Statuses
BY DEF StatusStates, SM!Transitions, Statuses, SM!Statuses

LEMMA MoveInvInit == Init => MoveInv
BY DEF Init, SM!Init, MoveInv, CarriesLegalMove, StatusStates, Statuses

LEMMA MoveInvNext == MoveInv /\ [Next]_vars => MoveInv'
<1> SUFFICES ASSUME MoveInv, [Next]_vars PROVE MoveInv'
  OBVIOUS
<1> USE DEF MoveInv, CarriesLegalMove, Goto, Answer
<1>1. ASSUME NEW r \in Requests, NEW c \in Creates, BeginCreate(r, c) PROVE MoveInv'
  BY <1>1 DEF BeginCreate
<1>2. ASSUME NEW r \in Requests, NEW c \in OnItem, BeginOnItem(r, c) PROVE MoveInv'
  BY <1>2 DEF BeginOnItem, Accepted, WritePoint, Readable, Stored,
              OnItem, StatusChanges, Updates, Deletes
<1>3. ASSUME NEW r \in Requests, InsertItem(r) PROVE MoveInv'
  BY <1>3 DEF InsertItem, StatusStates, Statuses, SM!Statuses
<1>4. ASSUME NEW r \in Requests, CompareAndSetStatus(r) PROVE MoveInv'
  BY <1>4, LegalTargets DEF CompareAndSetStatus, StatusStates
<1>5. ASSUME NEW r \in Requests, SetFields(r) PROVE MoveInv'
  BY <1>5 DEF SetFields
<1>6. ASSUME NEW r \in Requests, DeleteLinks(r) PROVE MoveInv'
  BY <1>6 DEF DeleteLinks, OnItem, StatusChanges, Updates, Deletes
<1>7. ASSUME NEW r \in Requests, DeleteItem(r) PROVE MoveInv'
  BY <1>7 DEF DeleteItem, StatusStates
<1>8. ASSUME NEW r \in Requests, Present(r) \/ DatabaseError(r) PROVE MoveInv'
  BY <1>8 DEF Present, DatabaseError
<1>9. CASE Crash
  BY <1>9 DEF Crash, InFlight
<1>10. CASE UNCHANGED vars
  BY <1>10 DEF vars
<1>11. QED
  BY <1>1, <1>2, <1>3, <1>4, <1>5, <1>6, <1>7, <1>8, <1>9, <1>10 DEF Next

LEMMA MoveInvAlways == Spec => []MoveInv
BY MoveInvInit, MoveInvNext, PTL DEF Spec

\* Every step of a request is a step of the state machine or leaves the status
\* of every item alone.
LEMMA StepImplements == MoveInv /\ [Next]_vars => [SM!Next]_status
<1> SUFFICES ASSUME MoveInv, [Next]_vars PROVE [SM!Next]_status
  OBVIOUS
<1> USE DEF MoveInv, CarriesLegalMove
<1>1. ASSUME NEW r \in Requests, InsertItem(r) PROVE SM!Next
  BY <1>1 DEF InsertItem, SM!Next, SM!Create
<1>2. ASSUME NEW r \in Requests, CompareAndSetStatus(r) PROVE [SM!Next]_status
  <2>1. CASE status[call[r].item] = seen[r]
    <3>1. call[r].item \in ItemIds
      BY <1>2 DEF CompareAndSetStatus, OnItem, StatusChanges, Updates, Deletes
    <3>2. SM!Move(call[r].item)
      BY <1>2, <2>1 DEF CompareAndSetStatus, SM!Move
    <3>3. QED
      BY <3>1, <3>2 DEF SM!Next
  <2>2. CASE status[call[r].item] # seen[r]
    BY <1>2, <2>2 DEF CompareAndSetStatus
  <2>3. QED
    BY <2>1, <2>2
<1>3. ASSUME NEW r \in Requests, DeleteItem(r) PROVE [SM!Next]_status
  BY <1>3 DEF DeleteItem, SM!Next, SM!Delete, Stored, Statuses
<1>4. ASSUME NEW r \in Requests, NEW c \in OnItem, BeginOnItem(r, c) PROVE UNCHANGED status
  BY <1>4 DEF BeginOnItem
<1>5. ASSUME NEW r \in Requests, NEW c \in Creates, BeginCreate(r, c) PROVE UNCHANGED status
  BY <1>5 DEF BeginCreate
<1>6. ASSUME NEW r \in Requests,
             SetFields(r) \/ DeleteLinks(r) \/ Present(r) \/ DatabaseError(r)
      PROVE  UNCHANGED status
  BY <1>6 DEF SetFields, DeleteLinks, Present, DatabaseError
<1>7. QED
  BY <1>1, <1>2, <1>3, <1>4, <1>5, <1>6 DEF Next, Crash, vars

\* Concurrent requests, refused, failing or lost, implement the promised state
\* machine.
THEOREM ImplementsStatusMachine == Spec => StatusMachine
<1>1. Init => SM!Init
  BY DEF Init
<1>2. MoveInv /\ [Next]_vars => [SM!Next]_status
  BY StepImplements
<1>3. QED
  BY <1>1, <1>2, MoveInvAlways, PTL DEF Spec, SM!Spec, StatusMachine

-----------------------------------------------------------------------------

(***************************************************************************)
(* What the answers, the history variable and the audit log say of the     *)
(* status changes that were made.                                          *)
(***************************************************************************)

PastRead(r) == pc[r] \in {"cas", "set", "unlink", "delete"}

OpOf(label) ==
  CASE label = "insert" -> "create"
    [] label = "cas" -> "status"
    [] label = "set" -> "update"
    [] OTHER -> "delete"

\* A request writes a status at its compare-and-set and nowhere else.
History(r) ==
  /\ pc[r] \in {"insert", "cas", "set", "unlink", "delete"} => call[r].op = OpOf(pc[r])
  /\ pc[r] # "done" => outcome[r] = "none"
  /\ pc[r] \notin {"present", "done"} => wrote[r] = Nothing
  /\ wrote[r] # Nothing =>
       /\ call[r] \in StatusChanges
       /\ call[r].status \in SM!Transitions(seen[r])
       /\ wrote[r] = <<seen[r], call[r].status>>
  /\ call[r].op = "status" /\ (pc[r] = "present" \/ outcome[r] = "ok") => wrote[r] # Nothing
  /\ outcome[r] = "conflict" => wrote[r] = Nothing

\* An item that was read, or changed, exists or has existed.
Born(r) ==
  PastRead(r) \/ wrote[r] # Nothing => call[r] \in OnItem /\ status[call[r].item] # "unborn"

Outcomes == {"none", "ok", "refused", "notFound", "conflict", "error"}

Actions == {"WORK_ITEM_CREATED", "WORK_ITEM_STATUS_CHANGED",
            "WORK_ITEM_UPDATED", "WORK_ITEM_DELETED"}

WroteType == (Statuses \X Statuses) \cup {Nothing}

HistoryInv ==
  /\ MoveInv
  /\ wrote \in [Requests -> WroteType]
  /\ outcome \in [Requests -> Outcomes]
  /\ \A r \in Requests : History(r) /\ Born(r)

LEMMA ChangesAreNotNothing ==
  ASSUME NEW a, NEW b
  PROVE  <<a, b>> # Nothing /\ <<a, b>>[1] = a /\ <<a, b>>[2] = b
BY DEF Nothing

\* No status leads to itself.
LEMMA TransitionsIrreflexive ==
  ASSUME NEW s \in StatusStates
  PROVE  s \notin SM!Transitions(s)
BY DEF StatusStates, SM!Transitions, Statuses, SM!Statuses

LEMMA OnItemFacts ==
  ASSUME NEW c \in OnItem
  PROVE  /\ c.item \in ItemIds
         /\ c.op \in {"status", "update", "delete"}
         /\ c.op = "status" => c \in StatusChanges
BY DEF OnItem, StatusChanges, Updates, Deletes

LEMMA HistoryInvInit == Init => HistoryInv
<1> SUFFICES ASSUME Init PROVE HistoryInv
  OBVIOUS
<1>1. MoveInv
  BY MoveInvInit
<1>2. QED
  BY <1>1 DEF Init, HistoryInv, History, Born, PastRead, NoCall, WroteType, Outcomes

LEMMA HistoryInvNext == HistoryInv /\ [Next]_vars => HistoryInv'
<1> SUFFICES ASSUME HistoryInv, [Next]_vars PROVE HistoryInv'
  OBVIOUS
<1>0. MoveInv'
  BY MoveInvNext DEF HistoryInv
<1> USE DEF HistoryInv, MoveInv, CarriesLegalMove, History, Born, PastRead, OpOf, Goto, Answer
<1>1. ASSUME NEW r \in Requests, NEW c \in Creates, BeginCreate(r, c) PROVE HistoryInv'
  BY <1>0, <1>1 DEF BeginCreate, Creates, Outcomes
<1>2. ASSUME NEW r \in Requests, NEW c \in OnItem, BeginOnItem(r, c) PROVE HistoryInv'
  BY <1>0, <1>2, OnItemFacts
     DEF BeginOnItem, WritePoint, Readable, Stored, Statuses, SM!Statuses, Outcomes
<1>3. ASSUME NEW r \in Requests, InsertItem(r) PROVE HistoryInv'
  BY <1>0, <1>3 DEF InsertItem
<1>4. ASSUME NEW r \in Requests, CompareAndSetStatus(r) PROVE HistoryInv'
  BY <1>0, <1>4, OnItemFacts, ChangesAreNotNothing, LegalTargets
     DEF CompareAndSetStatus, StatusStates, WroteType, Outcomes, Statuses, SM!Statuses
<1>5. ASSUME NEW r \in Requests, SetFields(r) PROVE HistoryInv'
  BY <1>0, <1>5 DEF SetFields, Outcomes
<1>6. ASSUME NEW r \in Requests, DeleteLinks(r) PROVE HistoryInv'
  BY <1>0, <1>6 DEF DeleteLinks
<1>7. ASSUME NEW r \in Requests, DeleteItem(r) PROVE HistoryInv'
  BY <1>0, <1>7 DEF DeleteItem, Outcomes
<1>8. ASSUME NEW r \in Requests, Present(r) \/ DatabaseError(r) PROVE HistoryInv'
  BY <1>0, <1>8 DEF Present, DatabaseError, InFlight, Outcomes
<1>9. CASE Crash
  BY <1>0, <1>9 DEF Crash, InFlight
<1>10. CASE UNCHANGED vars
  BY <1>0, <1>10 DEF vars
<1>11. QED
  BY <1>1, <1>2, <1>3, <1>4, <1>5, <1>6, <1>7, <1>8, <1>9, <1>10 DEF Next

LEMMA HistoryInvAlways == Spec => []HistoryInv
BY HistoryInvInit, HistoryInvNext, PTL DEF Spec

\* A 200 for a status change means that this request made exactly that change,
\* a 409 that it made none (StatusAnswersAreTrue).
THEOREM StatusAnswersAreTrueAlways == Spec => []StatusAnswersAreTrue
<1>1. HistoryInv => StatusAnswersAreTrue
  BY DEF HistoryInv, History, StatusAnswersAreTrue
<1>2. QED
  BY <1>1, HistoryInvAlways, PTL

-----------------------------------------------------------------------------

(***************************************************************************)
(* A status that a request has moved an item away from comes back only     *)
(* because somebody moved the item there: that is why two requests that    *)
(* read the same status do not both change it.                             *)
(***************************************************************************)

\* Somebody has brought item i to status s.
BroughtTo(i, s) ==
  \E p \in Requests : wrote[p] # Nothing /\ call[p].item = i /\ wrote[p][2] = s

LeftBehind ==
  \A r \in Requests :
    wrote[r] # Nothing =>
      status[call[r].item] # seen[r] \/ BroughtTo(call[r].item, seen[r])

UpdateInv == HistoryInv /\ LeftBehind /\ NoLostUpdate

\* Who has written has been through his compare-and-set: his request, what he
\* read and what he wrote stay.
LEMMA WritersAreSettled ==
  ASSUME HistoryInv, [Next]_vars, NEW r \in Requests, wrote[r] # Nothing
  PROVE  wrote'[r] = wrote[r] /\ call'[r] = call[r] /\ seen'[r] = seen[r]
<1> USE DEF HistoryInv, MoveInv, History, Goto, Answer
<1>1. ASSUME NEW q \in Requests, NEW c \in Creates, BeginCreate(q, c)
      PROVE  wrote'[r] = wrote[r] /\ call'[r] = call[r] /\ seen'[r] = seen[r]
  BY <1>1 DEF BeginCreate
<1>2. ASSUME NEW q \in Requests, NEW c \in OnItem, BeginOnItem(q, c)
      PROVE  wrote'[r] = wrote[r] /\ call'[r] = call[r] /\ seen'[r] = seen[r]
  BY <1>2 DEF BeginOnItem
<1>3. ASSUME NEW q \in Requests, CompareAndSetStatus(q)
      PROVE  wrote'[r] = wrote[r] /\ call'[r] = call[r] /\ seen'[r] = seen[r]
  BY <1>3 DEF CompareAndSetStatus
<1>4. QED
  BY <1>1, <1>2, <1>3
     DEF Next, InsertItem, SetFields, DeleteLinks, DeleteItem, Present, DatabaseError,
         Crash, vars

\* What was brought about stays in the history.
LEMMA BroughtToStays ==
  ASSUME HistoryInv, [Next]_vars, NEW i, NEW s, BroughtTo(i, s)
  PROVE  BroughtTo(i, s)'
BY WritersAreSettled DEF BroughtTo

\* Only the compare-and-set writes history.
LEMMA OnlyCompareAndSetWrites ==
  ASSUME [Next]_vars, \A q \in Requests : ~ CompareAndSetStatus(q)
  PROVE  wrote' = wrote
BY DEF Next, BeginCreate, BeginOnItem, InsertItem, SetFields, DeleteLinks, DeleteItem,
       Present, DatabaseError, Crash, vars

\* A status that nobody's compare-and-set changes is that of a new or a deleted
\* item afterwards: neither is the status a writer left behind.
LEMMA OtherStatusChanges ==
  ASSUME HistoryInv, [Next]_vars, NEW i \in ItemIds,
         \A q \in Requests : ~ CompareAndSetStatus(q)
  PROVE  \/ status'[i] = status[i]
         \/ status[i] = "unborn"
         \/ status'[i] = "deleted"
<1> USE DEF HistoryInv, MoveInv
<1>1. ASSUME NEW q \in Requests, InsertItem(q)
      PROVE  status'[i] = status[i] \/ status[i] = "unborn"
  BY <1>1 DEF InsertItem
<1>2. ASSUME NEW q \in Requests, DeleteItem(q)
      PROVE  status'[i] = status[i] \/ status'[i] = "deleted"
  BY <1>2 DEF DeleteItem
<1>3. QED
  BY <1>1, <1>2 DEF Next, BeginCreate, BeginOnItem, SetFields, DeleteLinks,
                    Present, DatabaseError, Crash, vars

LEMMA LeftBehindNext ==
  ASSUME HistoryInv, LeftBehind, [Next]_vars
  PROVE  LeftBehind'
<1> SUFFICES ASSUME NEW r \in Requests, (wrote[r] # Nothing)'
             PROVE  (\/ status[call[r].item] # seen[r]
                     \/ BroughtTo(call[r].item, seen[r]))'
  BY DEF LeftBehind
<1>1. CASE wrote[r] # Nothing
  <2> DEFINE i == call[r].item
  <2>1. call'[r] = call[r] /\ seen'[r] = seen[r] /\ i \in ItemIds
        /\ status[i] # "unborn" /\ seen[r] # "deleted"
    BY <1>1, WritersAreSettled, OnItemFacts
       DEF HistoryInv, MoveInv, Born, Statuses, SM!Statuses
  <2>2. CASE BroughtTo(i, seen[r])
    BY <2>1, <2>2, BroughtToStays
  <2>3. CASE status[i] # seen[r] /\ status'[i] = status[i]
    BY <2>1, <2>3
  <2>4. ASSUME NEW q \in Requests, CompareAndSetStatus(q), status'[i] # status[i]
        PROVE  status'[i] # seen[r] \/ BroughtTo(i, seen[r])'
    <3>1. call[q].item = i /\ status'[i] = call[q].status /\ call'[q] = call[q]
          /\ wrote'[q] = <<seen[q], call[q].status>>
      BY <2>1, <2>4 DEF CompareAndSetStatus, HistoryInv, MoveInv, WroteType
    <3>2. wrote'[q] # Nothing /\ wrote'[q][2] = status'[i]
      BY <3>1, ChangesAreNotNothing
    <3>3. QED
      BY <2>1, <3>1, <3>2 DEF BroughtTo
  <2>5. CASE \A q \in Requests : ~ CompareAndSetStatus(q)
    BY <1>1, <2>1, <2>2, <2>3, <2>5, OtherStatusChanges DEF LeftBehind
  <2>6. QED
    BY <1>1, <2>1, <2>2, <2>3, <2>4, <2>5 DEF LeftBehind
<1>2. CASE wrote[r] = Nothing
  <2>1. PICK q \in Requests : CompareAndSetStatus(q)
    BY <1>2, OnlyCompareAndSetWrites
  <2>2. r = q /\ status'[call[r].item] = call[r].status
        /\ call' = call /\ seen' = seen
        /\ call[r].status \in SM!Transitions(seen[r]) /\ seen[r] \in StatusStates
    BY <1>2, <2>1, OnItemFacts
       DEF CompareAndSetStatus, HistoryInv, MoveInv, CarriesLegalMove, StatusStates
  <2>3. QED
    BY <2>2, TransitionsIrreflexive
<1>3. QED
  BY <1>1, <1>2

LEMMA NoLostUpdateNext ==
  ASSUME HistoryInv, LeftBehind, NoLostUpdate, [Next]_vars
  PROVE  NoLostUpdate'
<1> SUFFICES ASSUME NEW r \in Requests, NEW q \in Requests, r # q,
                    (wrote[r] # Nothing /\ wrote[q] # Nothing)',
                    (call[r].item = call[q].item /\ seen[r] = seen[q])'
             PROVE  \E p \in Requests \ {r, q} :
                      (wrote[p] # Nothing /\ call[p].item = call[r].item
                         /\ wrote[p][2] = seen[r])'
  BY DEF NoLostUpdate
\* Who writes now has found the status that the other one had left behind.
<1>1. ASSUME NEW a \in Requests, NEW b \in Requests, a # b, CompareAndSetStatus(a),
             wrote[a] = Nothing, wrote'[a] # Nothing, wrote[b] # Nothing,
             (call[a].item = call[b].item /\ seen[a] = seen[b])'
      PROVE  \E p \in Requests \ {a, b} :
               (wrote[p] # Nothing /\ call[p].item = call[b].item
                  /\ wrote[p][2] = seen[b])'
  <2>1. call' = call /\ seen' = seen /\ status[call[b].item] = seen[b]
    BY <1>1 DEF CompareAndSetStatus
  <2>2. PICK p \in Requests :
          wrote[p] # Nothing /\ call[p].item = call[b].item /\ wrote[p][2] = seen[b]
    BY <1>1, <2>1 DEF LeftBehind, BroughtTo
  <2>3. p # a
    BY <1>1, <2>2
  <2>4. p # b
    <3>1. wrote[b][2] \in SM!Transitions(seen[b]) /\ seen[b] \in StatusStates
      BY <1>1, ChangesAreNotNothing DEF HistoryInv, History, MoveInv, StatusStates
    <3>2. QED
      BY <2>2, <3>1, TransitionsIrreflexive
  <2>5. wrote'[p] = wrote[p]
    BY <2>2, WritersAreSettled
  <2>6. QED
    BY <2>1, <2>2, <2>3, <2>4, <2>5
<1>2. CASE wrote[r] # Nothing /\ wrote[q] # Nothing
  <2>1. /\ call'[r] = call[r] /\ seen'[r] = seen[r]
        /\ call'[q] = call[q] /\ seen'[q] = seen[q]
    BY <1>2, WritersAreSettled
  <2>2. call[r].item = call[q].item /\ seen[r] = seen[q]
    BY <2>1
  <2>3. PICK p \in Requests \ {r, q} :
          wrote[p] # Nothing /\ call[p].item = call[r].item /\ wrote[p][2] = seen[r]
    BY <1>2, <2>2 DEF NoLostUpdate
  <2>4. wrote'[p] = wrote[p] /\ call'[p] = call[p]
    BY <2>3, WritersAreSettled
  <2>5. QED
    BY <2>1, <2>3, <2>4
<1>3. ASSUME NEW a \in Requests, wrote[a] = Nothing, wrote'[a] # Nothing
      PROVE  CompareAndSetStatus(a)
  <2>1. PICK p \in Requests : CompareAndSetStatus(p)
    BY <1>3, OnlyCompareAndSetWrites
  <2>2. p = a
    BY <1>3, <2>1 DEF CompareAndSetStatus, HistoryInv
  <2>3. QED
    BY <2>1, <2>2
<1>4. CASE wrote[r] = Nothing /\ wrote[q] # Nothing
  BY <1>1, <1>3, <1>4
<1>5. CASE wrote[q] = Nothing /\ wrote[r] # Nothing
  BY <1>1, <1>3, <1>5
<1>6. CASE wrote[r] = Nothing /\ wrote[q] = Nothing
  <2>1. CompareAndSetStatus(r) /\ CompareAndSetStatus(q)
    BY <1>3, <1>6
  <2>2. QED
    BY <1>6, <2>1 DEF CompareAndSetStatus, HistoryInv
<1>7. QED
  BY <1>2, <1>4, <1>5, <1>6

\* Two requests that read the same status of an item do not both change it
\* unless a third one brought that status back in between (NoLostUpdate).
THEOREM NoLostUpdateAlways == Spec => []NoLostUpdate
<1>1. Init => UpdateInv
  BY HistoryInvInit DEF Init, UpdateInv, LeftBehind, NoLostUpdate
<1>2. UpdateInv /\ [Next]_vars => UpdateInv'
  BY HistoryInvNext, LeftBehindNext, NoLostUpdateNext DEF UpdateInv
<1>3. UpdateInv => NoLostUpdate
  BY DEF UpdateInv
<1>4. QED
  BY <1>1, <1>2, <1>3, PTL DEF Spec
-----------------------------------------------------------------------------

(***************************************************************************)
(* The audit log is written after the write it tells of, and both the      *)
(* history of a change and the deletion of an item are for ever.           *)
(***************************************************************************)

AuditInv == HistoryInv /\ audit \subseteq Actions \X ItemIds /\ AuditTruthful

\* An entry that this step adds, and the writes it could be about.
LEMMA AuditTruthfulNext ==
  ASSUME AuditInv, [Next]_vars
  PROVE  AuditInv'
<1> USE DEF AuditInv, HistoryInv, MoveInv, Log
<1>1. HistoryInv'
  BY HistoryInvNext
<1>2. \A i \in ItemIds : status[i] = "deleted" => status'[i] = "deleted"
  <2> SUFFICES ASSUME NEW i \in ItemIds, status[i] = "deleted" PROVE status'[i] = "deleted"
    OBVIOUS
  <2>1. ASSUME NEW r \in Requests, CompareAndSetStatus(r) PROVE status'[i] = "deleted"
    BY <2>1 DEF CompareAndSetStatus, Statuses, SM!Statuses
  <2>2. ASSUME NEW r \in Requests, InsertItem(r) PROVE status'[i] = "deleted"
    BY <2>2 DEF InsertItem
  <2>3. ASSUME NEW r \in Requests, DeleteItem(r) PROVE status'[i] = "deleted"
    BY <2>3 DEF DeleteItem
  <2>4. QED
    BY <2>1, <2>2, <2>3 DEF Next, BeginCreate, BeginOnItem, SetFields, DeleteLinks,
                            Present, DatabaseError, Crash, vars
<1>3. \A r \in Requests : wrote[r] # Nothing => wrote'[r] # Nothing /\ call'[r] = call[r]
  BY WritersAreSettled
<1>4. CASE audit' = audit
  BY <1>1, <1>2, <1>3, <1>4 DEF AuditTruthful
<1>5. ASSUME NEW r \in Requests, InsertItem(r) PROVE AuditInv'
  <2>1. PICK i \in ItemIds : audit' \in {audit, audit \cup {<<"WORK_ITEM_CREATED", i>>}}
    BY <1>5 DEF InsertItem
  <2>2. QED
    BY <1>1, <1>2, <1>3, <2>1 DEF AuditTruthful, Actions
<1>6. ASSUME NEW r \in Requests, SetFields(r) PROVE AuditInv'
  <2>1. audit' \in {audit, audit \cup {<<"WORK_ITEM_UPDATED", call[r].item>>}}
        /\ call[r].item \in ItemIds
    BY <1>6, OnItemFacts DEF SetFields, CarriesLegalMove
  <2>2. QED
    BY <1>1, <1>2, <1>3, <2>1 DEF AuditTruthful, Actions
<1>7. ASSUME NEW r \in Requests, CompareAndSetStatus(r) PROVE AuditInv'
  <2>1. /\ audit' \in {audit, audit \cup {<<"WORK_ITEM_STATUS_CHANGED", call[r].item>>}}
        /\ call[r].item \in ItemIds /\ call' = call
    BY <1>7, OnItemFacts DEF CompareAndSetStatus, CarriesLegalMove
  <2>2. audit' # audit => wrote'[r] # Nothing
    BY <1>7, ChangesAreNotNothing DEF CompareAndSetStatus
  <2>3. QED
    BY <1>1, <1>2, <1>3, <1>4, <2>1, <2>2 DEF AuditTruthful, Actions
<1>8. ASSUME NEW r \in Requests, DeleteItem(r) PROVE AuditInv'
  <2>1. /\ audit' \in {audit, audit \cup {<<"WORK_ITEM_DELETED", call[r].item>>}}
        /\ call[r].item \in ItemIds /\ status[call[r].item] # "unborn"
    BY <1>8, OnItemFacts DEF DeleteItem, CarriesLegalMove, Born, PastRead
  <2>2. status'[call[r].item] = "deleted"
    BY <1>8, <2>1 DEF DeleteItem, Stored, StatusStates
  <2>3. QED
    BY <1>1, <1>2, <1>3, <2>1, <2>2 DEF AuditTruthful, Actions
<1>9. QED
  BY <1>4, <1>5, <1>6, <1>7, <1>8 DEF Next, BeginCreate, BeginOnItem, DeleteLinks,
                                      Present, DatabaseError, Crash, vars

LEMMA AuditInvAlways == Spec => []AuditInv
<1>1. Init => AuditInv
  BY HistoryInvInit DEF Init, AuditInv, AuditTruthful
<1>2. AuditInv /\ [Next]_vars => AuditInv'
  BY AuditTruthfulNext
<1>3. QED
  BY <1>1, <1>2, PTL DEF Spec

\* The audit log tells of a status change or a deletion only after it happened
\* (AuditTruthful).
THEOREM AuditTruthfulAlways == Spec => []AuditTruthful
<1>1. AuditInv => AuditTruthful
  BY DEF AuditInv
<1>2. QED
  BY <1>1, AuditInvAlways, PTL

-----------------------------------------------------------------------------

LEMMA PrioritiesNext ==
  ASSUME HistoryInv, [Next]_vars, priority \in [ItemIds -> Priorities]
  PROVE  priority' \in [ItemIds -> Priorities]
<1>1. ASSUME NEW r \in Requests, InsertItem(r) PROVE priority' \in [ItemIds -> Priorities]
  <2>1. call[r].op = "create" /\ call[r] \in Creates \cup OnItem \cup {NoCall}
    BY <1>1 DEF InsertItem, HistoryInv, MoveInv, History, OpOf
  <2>2. call[r].priority \in Priorities
    BY <2>1, OnItemFacts DEF Creates, NoCall
  <2>3. QED
    BY <1>1, <2>2 DEF InsertItem
<1>2. ASSUME NEW r \in Requests, SetFields(r) PROVE priority' \in [ItemIds -> Priorities]
  <2>1. call[r].op = "update" /\ call[r] \in OnItem
    BY <1>2 DEF SetFields, HistoryInv, MoveInv, CarriesLegalMove, History, OpOf
  <2>2. call[r].priority \in Priorities \cup {"none"}
    BY <2>1 DEF OnItem, StatusChanges, Updates, Deletes
  <2>3. QED
    BY <1>2, <2>2 DEF SetFields
<1>3. QED
  BY <1>1, <1>2 DEF Next, BeginCreate, BeginOnItem, CompareAndSetStatus, DeleteLinks,
                    DeleteItem, Present, DatabaseError, Crash, vars

TypeInv == AuditInv /\ priority \in [ItemIds -> Priorities]

LEMMA TypeInvAlways == Spec => []TypeInv
<1>1. Init => TypeInv
  BY HistoryInvInit DEF Init, AuditInv, AuditTruthful, Priorities, TypeInv
<1>2. TypeInv /\ [Next]_vars => TypeInv'
  BY AuditTruthfulNext, PrioritiesNext DEF AuditInv, TypeInv
<1>3. QED
  BY <1>1, <1>2, PTL DEF Spec

\* A status outside the enum is never stored, whatever string a request asks for,
\* and every variable keeps its shape (TypeOK).
THEOREM TypeCorrect == Spec => []TypeOK
<1>1. TypeInv => TypeOK
  BY DEF TypeInv, AuditInv, HistoryInv, MoveInv, TypeOK, StatusStates, Outcomes,
         WroteType, Actions
<1>2. QED
  BY <1>1, TypeInvAlways, PTL

\* An item whose stored priority is unknown cannot be repaired or deleted through
\* the API once the requests that had read it before are through
\* (UnreadableStaysSo).
THEOREM UnreadableStaysSoAlways == Spec => UnreadableStaysSo
<1>1. ASSUME MoveInv, priority \in [ItemIds -> Priorities], [Next]_vars,
             NEW i \in ItemIds, Stuck(i)
      PROVE  Stuck(i)'
  <2> USE DEF MoveInv, Stuck, PastItsRead, Readable, Stored, Goto, Answer
  <2>1. ASSUME NEW r \in Requests, NEW c \in Creates, BeginCreate(r, c) PROVE Stuck(i)'
    BY <1>1, <2>1 DEF BeginCreate
  <2>2. ASSUME NEW r \in Requests, NEW c \in OnItem, BeginOnItem(r, c) PROVE Stuck(i)'
    <3>1. CASE c.item = i
      <4>1. ~ Readable(i) /\ pc' = [pc EXCEPT ![r] = "done"]
        BY <1>1, <2>2, <3>1 DEF BeginOnItem
      <4>2. QED
        BY <1>1, <2>2, <4>1 DEF BeginOnItem
    <3>2. CASE c.item # i
      BY <1>1, <2>2, <3>2 DEF BeginOnItem
    <3>3. QED
      BY <3>1, <3>2
  <2>3. ASSUME NEW r \in Requests, InsertItem(r) PROVE Stuck(i)'
    BY <1>1, <2>3 DEF InsertItem, Statuses, SM!Statuses
  <2>4. ASSUME NEW r \in Requests, CompareAndSetStatus(r) PROVE Stuck(i)'
    BY <1>1, <2>4, LegalTargets DEF CompareAndSetStatus, CarriesLegalMove, StatusStates
  <2>5. ASSUME NEW r \in Requests, SetFields(r) PROVE Stuck(i)'
    <3>1. call[r].item # i
      BY <1>1, <2>5 DEF SetFields
    <3>2. priority'[i] = priority[i] /\ status' = status /\ call' = call
      BY <1>1, <2>5, <3>1 DEF SetFields
    <3>3. \A q \in Requests : pc'[q] = pc[q] \/ pc'[q] \in {"present", "done"}
      BY <1>1, <2>5 DEF SetFields
    <3>4. QED
      BY <1>1, <3>2, <3>3
  <2>6. ASSUME NEW r \in Requests, DeleteLinks(r) PROVE Stuck(i)'
    BY <1>1, <2>6 DEF DeleteLinks
  <2>7. ASSUME NEW r \in Requests, DeleteItem(r) PROVE Stuck(i)'
    BY <1>1, <2>7 DEF DeleteItem
  <2>8. ASSUME NEW r \in Requests, Present(r) \/ DatabaseError(r) PROVE Stuck(i)'
    BY <1>1, <2>8 DEF Present, DatabaseError
  <2>9. CASE Crash
    BY <1>1, <2>9 DEF Crash
  <2>10. CASE UNCHANGED vars
    BY <1>1, <2>10 DEF vars
  <2>11. QED
    BY <1>1, <2>1, <2>2, <2>3, <2>4, <2>5, <2>6, <2>7, <2>8, <2>9, <2>10 DEF Next
<1>2. TypeInv /\ [Next]_vars => [\A i \in ItemIds : Stuck(i) => Stuck(i)']_vars
  BY <1>1 DEF TypeInv, AuditInv, HistoryInv
<1>3. QED
  BY <1>2, TypeInvAlways, PTL DEF Spec, UnreadableStaysSo
=============================================================================
