--------------------------- MODULE OverviewProofs ---------------------------
(***************************************************************************)
(* Proofs about Overview for any documents, clients and lengths of time.   *)
(***************************************************************************)
EXTENDS Overview, FiniteSetTheorems, TLAPS

\* No request takes longer than its database calls may; one that has been answered
\* leaves no time behind, and one that is calm has not let any pass.
InTime ==
  /\ \A c \in Clients : age[c] <= MaxFill /\ (pc[c] = "idle" => age[c] = 0)
  /\ \A c \in calm : age[c] = 0

\* What has been counted since anything changed is what would be counted now.
CalmCounts ==
  \A c \in calm : \A q \in Queries \ pending[c] : result[c][q] = Answer(q, 0)

IInv == TypeOK /\ InTime /\ CalmCounts /\ StalenessBounded

-----------------------------------------------------------------------------
(* Whole days, rounded up, and the window of the query.                    *)

LEMMA CeilingOfDays ==
  ASSUME NEW x \in Nat, NEW d \in Nat \ {0}, NEW n \in Nat
  PROVE  (x + d - 1) \div d <= n <=> x <= n * d
  <1> DEFINE k == (x + d - 1) \div d
  <1>1. k \in Int /\ d * k <= x + d - 1 /\ x + d - 1 < d * k + d
    OBVIOUS
  <1>2. CASE k <= n
    <2>1. d * k <= d * n
      BY <1>1, <1>2
    <2> QED BY <1>1, <1>2, <2>1
  <1>3. CASE k >= n + 1
    <2>1. d * k >= d * (n + 1)
      BY <1>1, <1>3
    <2>2. d * (n + 1) = d * n + d
      OBVIOUS
    <2> QED BY <1>1, <1>3, <2>1, <2>2
  <1> QED BY <1>1, <1>2, <1>3
LEMMA AnswerParts ==
  /\ Answer("total", 0) = stored
  /\ Answer("expiring", 0) = Expiring(0) /\ Answer("expired", 0) = Expired(0)
  BY DEF Answer

LEMMA PastIsPast == Past \in Int /\ Past <= -1
  BY Ticks DEF Past

LEMMA WindowIsInt == TypeOK => Window(0) \in Int /\ Threshold * Day \in Nat
  BY Ticks DEF Window, TypeOK

\* The two definitions of an expiring document differ at the jump only.
LEMMA StatusParts ==
  ASSUME TypeOK
  PROVE  /\ WithStatus("EXPIRED") = Expired(0)
         /\ WithStatus("EXPIRING") = {d \in stored \cap dated : 0 <= left[d] /\ left[d] <= Threshold * Day}
         /\ WithStatus("VALID") = stored \ (WithStatus("EXPIRED") \cup WithStatus("EXPIRING"))
  <1>1. \A d \in stored : left[d] \in Int
    BY DEF TypeOK
  <1>2. \A d \in stored : StatusOf(d) \in {"EXPIRED", "EXPIRING", "VALID"}
    BY DEF StatusOf
  <1>3. ASSUME NEW d \in stored
        PROVE  StatusOf(d) = "EXPIRING" <=> d \in dated /\ 0 <= left[d] /\ left[d] <= Threshold * Day
    <2>1. CASE d \in dated /\ left[d] >= 0
      <3>1. (left[d] + Day - 1) \div Day <= Threshold <=> left[d] <= Threshold * Day
        <4>1. left[d] \in Nat /\ Day \in Nat \ {0} /\ Threshold \in Nat
          BY <1>1, <2>1, Ticks
        <4> QED BY <4>1, CeilingOfDays
      <3> QED BY <1>1, <2>1, <3>1 DEF StatusOf
    <2>2. CASE ~ (d \in dated /\ left[d] >= 0)
      BY <1>1, <2>2 DEF StatusOf
    <2> QED BY <2>1, <2>2
  <1>4. \A d \in stored : StatusOf(d) = "EXPIRED" <=> d \in dated /\ left[d] < 0
    BY <1>1 DEF StatusOf
  <1>5. Expired(0) = {d \in stored \cap dated : left[d] < 0}
    BY <1>1 DEF Expired
  <1> QED BY <1>2, <1>3, <1>4, <1>5 DEF WithStatus

LEMMA ExpiringParts ==
  ASSUME TypeOK
  PROVE  /\ Expiring(0) \ AtTheJump = WithStatus("EXPIRING") \ AtTheJump
         /\ AtTheJump = {} => Expiring(0) = WithStatus("EXPIRING")
  <1>1. \A d \in stored : left[d] \in Int
    BY DEF TypeOK
  <1>2. ASSUME NEW d \in stored \cap dated, d \notin AtTheJump
        PROVE  left[d] <= Window(0) <=> left[d] <= Threshold * Day
    BY <1>1, <1>2, WindowIsInt DEF AtTheJump
  <1>3. Expiring(0) = {d \in stored \cap dated : 0 <= left[d] /\ left[d] <= Window(0)}
    BY <1>1 DEF Expiring
  <1> QED BY <1>2, <1>3, StatusParts

LEMMA ValidIsTheRest ==
  ASSUME TypeOK, NEW c, c["total"] = stored,
         c["expiring"] = WithStatus("EXPIRING"), c["expired"] = WithStatus("EXPIRED")
  PROVE  Valid(c) = Cardinality(WithStatus("VALID"))
  <1> DEFINE E == WithStatus("EXPIRING")
             X == WithStatus("EXPIRED")
             V == WithStatus("VALID")
  <1>1. IsFiniteSet(stored)
    BY FiniteDocIds, FS_Subset DEF TypeOK
  <1>2. E \subseteq stored /\ X \subseteq stored /\ V \subseteq stored
    BY DEF WithStatus
  <1>3. IsFiniteSet(E) /\ IsFiniteSet(X) /\ IsFiniteSet(V)
    BY <1>1, <1>2, FS_Subset
  <1>4. E \cap X = {} /\ V \cap (E \cup X) = {} /\ stored = V \cup (E \cup X)
    BY <1>2, StatusParts DEF WithStatus
  <1>0. Cardinality({}) = 0
    BY FS_EmptySet
  <1>5. Cardinality(E \cup X) = Cardinality(E) + Cardinality(X) /\ IsFiniteSet(E \cup X)
    <2>1. /\ Cardinality(E \cup X) = Cardinality(E) + Cardinality(X) - Cardinality({})
          /\ IsFiniteSet(E \cup X)
      BY <1>3, <1>4, FS_Union
    <2>2. Cardinality(E) \in Int /\ Cardinality(X) \in Int
      BY <1>3, FS_CardinalityType
    <2> QED BY <1>0, <2>1, <2>2
  <1>6. Cardinality(stored) = Cardinality(V) + Cardinality(E \cup X)
    <2>1. Cardinality(stored) = Cardinality(V) + Cardinality(E \cup X) - Cardinality({})
      BY <1>3, <1>4, <1>5, FS_Union
    <2>2. Cardinality(V) \in Int /\ Cardinality(E \cup X) \in Int
      BY <1>3, <1>5, FS_CardinalityType
    <2> QED BY <1>0, <2>1, <2>2
  <1>7. Cardinality(E) \in Nat /\ Cardinality(X) \in Nat /\ Cardinality(V) \in Nat
    BY <1>3, FS_CardinalityType
  <1> QED BY <1>5, <1>6, <1>7 DEF Valid

-----------------------------------------------------------------------------
(* The invariant.                                                          *)

LEMMA InitIInv == Init => IInv
  <1> SUFFICES ASSUME Init PROVE IInv
    OBVIOUS
  <1>1. TypeOK
    <2>0. \A e \in Instants : e \in Int /\ e >= Past
      BY DatesAreTicks, PastIsPast DEF Instants
    <2>1. \A d \in DocIds : left[d] \in Int /\ left[d] >= Past
      BY <2>0 DEF Init
    <2>2. left \in [DocIds -> Int]
      BY <2>1 DEF Init
    <2> QED BY <2>1, <2>2, Ticks DEF Init, TypeOK, NoCounts
  <1>2. InTime /\ CalmCounts /\ StalenessBounded
    BY Ticks DEF Init, InTime, CalmCounts, StalenessBounded
  <1> QED BY <1>1, <1>2 DEF IInv

LEMMA DocumentStepKeepsIInv ==
  ASSUME IInv, NEW d \in DocIds, DocumentStep(d)
  PROVE  IInv'
  <1>0. Change
    BY DEF DocumentStep, UploadDocument, UpdateDocument, DeleteDocument
  <1>1. stored' \subseteq DocIds /\ dated' \subseteq stored' /\ left' \in [DocIds -> Int]
        /\ \A e \in DocIds : left'[e] >= Past
    <2>1. Past \in Instants /\ \A e \in Instants : e \in Int /\ e >= Past
      BY DatesAreTicks, PastIsPast DEF Instants
    <2>2. UNCHANGED left \/ \E e \in Int : e >= Past /\ left' = [left EXCEPT ![d] = e]
      BY <2>1 DEF DocumentStep, UploadDocument, UpdateDocument, DeleteDocument
    <2>3. stored' \subseteq DocIds /\ dated' \subseteq stored'
      BY DEF IInv, TypeOK, DocumentStep, UploadDocument, UpdateDocument, DeleteDocument
    <2> QED BY <2>2, <2>3 DEF IInv, TypeOK
  <1>2. TypeOK'
    BY <1>0, <1>1 DEF IInv, TypeOK, Change, cache
  <1>3. InTime' /\ CalmCounts' /\ StalenessBounded'
    BY <1>0 DEF IInv, InTime, CalmCounts, StalenessBounded, Change, cache
  <1> QED BY <1>2, <1>3 DEF IInv

\* A step of a request leaves documents and clocks alone.
LEMMA AnswersStay ==
  ASSUME UNCHANGED <<docs, jumpIn>>, NEW q
  PROVE  Answer(q, 0)' = Answer(q, 0)
  BY DEF docs, Answer, Expired, Expiring, Window

LEMMA MissKeepsIInv ==
  ASSUME IInv, NEW c \in Clients, Miss(c)
  PROVE  IInv'
  <1> USE DEF Miss, IInv, docs, cache
  <1>1. TypeOK'
    BY DEF TypeOK, Queries
  <1>2. InTime'
    BY DEF TypeOK, InTime
  <1>3. CalmCounts'
    <2>1. ASSUME NEW b \in calm', NEW q \in Queries \ pending'[b]
          PROVE  result'[b][q] = Answer(q, 0)'
      <3>1. b # c
        BY <2>1 DEF TypeOK
      <3> QED BY <2>1, <3>1, AnswersStay DEF TypeOK, CalmCounts
    <2> QED BY <2>1 DEF CalmCounts
  <1>4. StalenessBounded'
    BY DEF StalenessBounded
  <1> QED BY <1>1, <1>2, <1>3, <1>4

LEMMA CountKeepsIInv ==
  ASSUME IInv, NEW c \in Clients, NEW p \in Queries, Count(c, p)
  PROVE  IInv'
  <1> USE DEF Count, IInv, docs, cache
  <1>0. Answer(p, age[c]) \subseteq DocIds
    BY DEF Answer, Queries, Expiring, Expired, TypeOK
  <1>1. TypeOK'
    <2>1. result' \in [Clients -> [Queries -> SUBSET DocIds]]
      BY <1>0 DEF TypeOK
    <2>2. pending' \in [Clients -> SUBSET Queries]
          /\ pc' \in [Clients -> {"idle", "count", "getFields"}]
          /\ \A b \in Clients : pc'[b] = "count" <=> pending'[b] # {}
      BY DEF TypeOK
    <2>3. calm' \subseteq {b \in Clients : pc'[b] # "idle"}
      BY DEF TypeOK
    <2> QED BY <2>1, <2>2, <2>3 DEF TypeOK
  <1>2. InTime'
    BY DEF TypeOK, InTime
  <1>3. CalmCounts'
    <2>1. ASSUME NEW b \in calm', NEW q \in Queries \ pending'[b]
          PROVE  result'[b][q] = Answer(q, 0)'
      <3>1. CASE b = c /\ q = p
        BY <2>1, <3>1, AnswersStay DEF TypeOK, InTime
      <3>2. CASE ~ (b = c /\ q = p)
        <4>1. result'[b][q] = result[b][q] /\ q \notin pending[b]
          BY <2>1, <3>2 DEF TypeOK
        <4> QED BY <2>1, <4>1, AnswersStay DEF CalmCounts
      <3> QED BY <3>1, <3>2
    <2> QED BY <2>1 DEF CalmCounts
  <1>4. StalenessBounded'
    BY DEF StalenessBounded
  <1> QED BY <1>1, <1>2, <1>3, <1>4

LEMMA ForgetKeepsTheRest ==
  ASSUME IInv, NEW c \in Clients, Forget(c), UNCHANGED <<docs, jumpIn, changes>>,
         ttl' \in Nat \cup {-1}, cached' \in [Queries -> SUBSET DocIds], cachedAge' \in Nat
  PROVE  TypeOK' /\ InTime' /\ CalmCounts'
  <1> USE DEF Forget, IInv, docs
  <1>1. TypeOK'
    <2>1. NoCounts \in [Queries -> SUBSET DocIds]
      BY DEF NoCounts
    <2> QED BY <2>1 DEF TypeOK
  <1>2. InTime'
    BY Ticks DEF TypeOK, InTime
  <1>3. CalmCounts'
    <2>1. ASSUME NEW b \in calm', NEW q \in Queries \ pending'[b]
          PROVE  result'[b][q] = Answer(q, 0)'
      <3>1. b # c /\ b \in calm /\ result'[b] = result[b] /\ pending'[b] = pending[b]
        BY <2>1 DEF TypeOK
      <3> QED BY <2>1, <3>1, AnswersStay DEF CalmCounts
    <2> QED BY <2>1 DEF CalmCounts
  <1> QED BY <1>1, <1>2, <1>3

LEMMA StoreKeepsIInv ==
  ASSUME IInv, NEW c \in Clients, Store(c)
  PROVE  IInv'
  <1>1. ttl' \in Nat \cup {-1} /\ cached' \in [Queries -> SUBSET DocIds] /\ cachedAge' \in Nat
    BY Ticks DEF Store, IInv, TypeOK
  <1>2. TypeOK' /\ InTime' /\ CalmCounts'
    BY <1>1, ForgetKeepsTheRest DEF Store
  <1>3. StalenessBounded'
    BY Ticks DEF Store, IInv, TypeOK, InTime, StalenessBounded
  <1> QED BY <1>2, <1>3 DEF IInv

LEMMA QueryFailsKeepsIInv ==
  ASSUME IInv, NEW c \in Clients, QueryFails(c)
  PROVE  IInv'
  <1>1. ttl' \in Nat \cup {-1} /\ cached' \in [Queries -> SUBSET DocIds] /\ cachedAge' \in Nat
    BY DEF QueryFails, IInv, TypeOK, cache
  <1>2. TypeOK' /\ InTime' /\ CalmCounts'
    BY <1>1, ForgetKeepsTheRest DEF QueryFails
  <1>3. StalenessBounded'
    BY DEF QueryFails, IInv, StalenessBounded, cache
  <1> QED BY <1>2, <1>3 DEF IInv

LEMMA TickKeepsIInv ==
  ASSUME IInv, Tick
  PROVE  IInv'
  <1> USE Ticks DEF Tick, IInv
  <1>1. \A n, past \in Int : n >= past => Nearer(n, past) \in Int /\ Nearer(n, past) >= past
    BY DEF Nearer
  <1>2. TypeOK'
    <2>1. left' \in [DocIds -> Int] /\ \A d \in DocIds : left'[d] >= Past
      BY <1>1, PastIsPast DEF TypeOK
    <2>2. ttl' \in Nat \cup {-1} /\ age' \in [Clients -> Nat] /\ cachedAge' \in Nat
      BY DEF TypeOK, Nearer
    <2>3. jumpIn' \in Int /\ jumpIn' >= - MaxFill
      BY <1>1 DEF TypeOK
    <2>4. cached' \in [Queries -> SUBSET DocIds]
      BY DEF TypeOK, NoCounts
    <2> QED BY <2>1, <2>2, <2>3, <2>4 DEF TypeOK
  <1>3. InTime'
    BY DEF TypeOK, InTime
  <1>4. CalmCounts'
    BY DEF CalmCounts
  <1>5. StalenessBounded'
    BY DEF TypeOK, StalenessBounded, Nearer
  <1> QED BY <1>2, <1>3, <1>4, <1>5

LEMMA CrashKeepsIInv ==
  ASSUME IInv, Crash
  PROVE  IInv'
  <1> USE Ticks DEF Crash, IInv, docs
  <1>1. TypeOK'
    BY DEF TypeOK, NoCounts
  <1> QED BY <1>1 DEF InTime, CalmCounts, StalenessBounded

LEMMA NextKeepsIInv == IInv /\ [Next]_vars => IInv'
  <1> SUFFICES ASSUME IInv, [Next]_vars PROVE IInv'
    OBVIOUS
  <1>1. CASE \E d \in DocIds : DocumentStep(d)
    BY <1>1, DocumentStepKeepsIInv
  <1>2. CASE \E c \in Clients : Miss(c)
    BY <1>2, MissKeepsIInv
  <1>3. CASE \E c \in Clients : Settle(c)
    BY <1>3, CountKeepsIInv, StoreKeepsIInv, QueryFailsKeepsIInv DEF Settle
  <1>4. CASE Tick \/ Crash
    BY <1>4, TickKeepsIInv, CrashKeepsIInv
  <1>5. CASE UNCHANGED vars
    <2>1. TypeOK' /\ InTime' /\ StalenessBounded'
      BY <1>5 DEF vars, docs, cache, IInv, TypeOK, InTime, StalenessBounded
    <2>2. \A q \in Queries : Answer(q, 0)' = Answer(q, 0)
      BY <1>5, AnswersStay DEF vars
    <2>3. CalmCounts'
      BY <1>5, <2>2 DEF vars, IInv, CalmCounts
    <2> QED BY <2>1, <2>3 DEF IInv
  <1>6. CASE \E c \in Clients : Hit(c)
    BY <1>5, <1>6 DEF Hit
  <1> QED BY <1>1, <1>2, <1>3, <1>4, <1>5, <1>6 DEF Next

LEMMA IInvAlways == Spec => []IInv
  BY InitIInv, NextKeepsIInv, PTL DEF Spec

-----------------------------------------------------------------------------

\* Every variable has the shape the code gives it, for any documents, clients,
\* thresholds and times.
THEOREM TypeCorrect == Spec => []TypeOK
  BY IInvAlways, PTL DEF IInv

\* An overview from the cache is never older than the life of an entry and one
\* request: a slow request may store over a fresher entry, but nothing that old.
THEOREM StalenessIsBounded == Spec => []StalenessBounded
  BY IInvAlways, PTL DEF IInv

\* The three queries of a request count what calculateExpiryStatus says, for any
\* threshold and length of day, when nothing changed and no time passed meanwhile
\* and no change of the clocks is in the window.
THEOREM CountsMatch == Spec => []CountsMatchStatuses
  <1>1. ASSUME IInv PROVE CountsMatchStatuses
    <2>1. SUFFICES ASSUME NEW c \in calm, pc[c] = "getFields"
                   PROVE  /\ result[c]["expired"] = WithStatus("EXPIRED")
                          /\ result[c]["expiring"] \ AtTheJump = WithStatus("EXPIRING") \ AtTheJump
                          /\ AtTheJump = {} => Valid(result[c]) = Cardinality(WithStatus("VALID"))
      BY DEF CountsMatchStatuses
    <2>2. pending[c] = {} /\ TypeOK
      BY <1>1, <2>1 DEF IInv, TypeOK
    <2>3. /\ result[c]["total"] = stored /\ result[c]["expiring"] = Expiring(0)
          /\ result[c]["expired"] = Expired(0)
      BY <1>1, <2>2, AnswerParts DEF IInv, CalmCounts, Queries
    <2>4. AtTheJump = {} => Valid(result[c]) = Cardinality(WithStatus("VALID"))
      BY <1>1, <2>2, <2>3, StatusParts, ExpiringParts, ValidIsTheRest
    <2> QED BY <2>2, <2>3, <2>4, StatusParts, ExpiringParts
  <1> QED BY <1>1, IInvAlways, PTL
=============================================================================
