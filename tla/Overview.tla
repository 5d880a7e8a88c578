------------------------------- MODULE Overview -------------------------------
(***************************************************************************)
(* The overview of a workspace, the cache in front of it, and the expiry   *)
(* status of documents that it counts.                                     *)
(*                                                                         *)
(* GetWorkspaceOverview answers from an in-process cache whose entries     *)
(* live for TTL.  On a miss it sends its queries in parallel, with the     *)
(* time at which they are sent in them, then reads the fields of the       *)
(* document types, and only then stores the result: nothing keeps two      *)
(* fills apart, and no change of a document touches the cache.             *)
(*                                                                         *)
(* Time passes in ticks.  An instant is kept as the ticks that are left    *)
(* until it, so that time never runs out: Past is longer ago than the      *)
(* oldest query that has not settled.  At the time a query was sent, all   *)
(* instants were as many ticks further away as it is old.  The counts      *)
(* of entities, work items and types are queries like the three on         *)
(* documents, without a clock, and are left out.  A count is kept as the   *)
(* set of documents counted.                                               *)
(***************************************************************************)
EXTENDS Integers, FiniteSets

CONSTANTS
  DocIds,      \* documents that can be stored at a time (bound of the model)
  Clients,     \* who polls the overview, one request at a time
  Day,         \* ticks in a day
  Threshold,   \* EXPIRY_THRESHOLD_DAYS
  TTL,         \* stdTTL of the cache, in ticks
  Dates,       \* expiry dates that are asked for, in ticks from then, next to
               \* dates in the past
  Jump,        \* ticks by which the local time of the server is put forward
  JumpIn,      \*   at the next change of its UTC offset, and when
  MaxFill,     \* ticks a request takes at most: its database calls settle
  MaxChanges   \* changes of documents (bound of the model)

ASSUME Ticks == /\ Day \in Nat \ {0} /\ Threshold \in Nat /\ TTL \in Nat
                /\ MaxFill \in Nat /\ Jump \in Int /\ JumpIn \in Nat
ASSUME DatesAreTicks == Dates \subseteq Nat
ASSUME FiniteDocIds == IsFiniteSet(DocIds)

VARIABLES
  stored,      \* the documents collection
  dated,       \*   those with an expiryDate,
  left,        \*   and the ticks left until it
  jumpIn,      \* ticks left until the local time jumps, 0 or less afterwards
  changes,     \* changes made (bound of the model)
  pc,          \* "idle", or the await an overview request is suspended at
  pending,     \* its queries that have not settled
  result,      \* the counts it has
  age,         \* ticks since it was received, and sent its queries
  calm,        \* history: requests since whose start nothing changed, no tick passed
  ttl,         \* the cache: ticks its entry has left, -1 if there is none,
  cached,      \*   the counts in it,
  cachedAge    \*   and the ticks since the request that stored it was received

docs == <<stored, dated, left>>
cache == <<ttl, cached, cachedAge>>
vars == <<docs, jumpIn, changes, pc, pending, result, age, calm, cache>>

Past == -1 - MaxFill
Instants == Dates \cup {Past}
Queries == {"total", "expiring", "expired"}
NoCounts == [q \in Queries |-> {}]

-----------------------------------------------------------------------------
(* Expiry.                                                                 *)

\* (mutant) the first and the last instant are swapped.
StatusOfStrictly(d) ==
  IF d \notin dated THEN "VALID"
  ELSE IF left[d] <= 0 THEN "EXPIRED"
  ELSE IF (left[d] + Day - 1) \div Day < Threshold THEN "EXPIRING"
  ELSE "VALID"

\* Document.calculateExpiryStatus: whole days, rounded up.
StatusOf(d) ==
  IF d \notin dated THEN "VALID"
  ELSE IF left[d] < 0 THEN "EXPIRED"
  ELSE IF (left[d] + Day - 1) \div Day <= Threshold THEN "EXPIRING"
  ELSE "VALID"

WithStatus(s) == {d \in stored : StatusOf(d) = s}

\* setDate(getDate() + Threshold), a ticks ago: as many days later on the local
\* clock.
Window(a) ==
  IF 0 < jumpIn + a /\ jumpIn + a <= Threshold * Day
    THEN Threshold * Day - Jump ELSE Threshold * Day

\* The documents as they are stored now, by the clock of a query that was sent a
\* ticks ago.
Expired(a) == {d \in stored \cap dated : left[d] + a < 0}
Expiring(a) == {d \in stored \cap dated : 0 <= left[d] + a /\ left[d] + a <= Window(a)}

Answer(q, a) ==
  CASE q = "total" -> stored
    [] q = "expiring" -> Expiring(a)
    [] q = "expired" -> Expired(a)

\* What is counted by a query that is answered at once.
Counts == [q \in Queries |-> Answer(q, 0)]

\* Math.max(0, total - expiring - expired)
Valid(c) ==
  LET n == Cardinality(c["total"]) - Cardinality(c["expiring"]) - Cardinality(c["expired"])
  IN IF n < 0 THEN 0 ELSE n

-----------------------------------------------------------------------------

Init ==
  /\ stored \in SUBSET DocIds
  /\ dated \in SUBSET stored
  /\ left \in [DocIds -> Instants]
  /\ \A d \in DocIds \ dated : left[d] = Past
  /\ jumpIn = JumpIn
  /\ changes = 0
  /\ pc = [c \in Clients |-> "idle"]
  /\ pending = [c \in Clients |-> {}]
  /\ result = [c \in Clients |-> NoCounts]
  /\ age = [c \in Clients |-> 0]
  /\ calm = {}
  /\ ttl = -1 /\ cached = NoCounts /\ cachedAge = 0

(* Documents.                                                              *)

Change ==
  /\ changes < MaxChanges
  /\ changes' = changes + 1
  /\ calm' = {}
  /\ UNCHANGED <<jumpIn, pc, pending, result, age, cache>>

\* UploadDocument and UpdateDocument set an expiry date, past or future, that
\* nobody checks against the type; an update cannot take it away.
UploadDocument(d) ==
  /\ d \notin stored
  /\ stored' = stored \cup {d}
  /\ \/ UNCHANGED <<dated, left>>
     \/ dated' = dated \cup {d} /\ \E e \in Instants : left' = [left EXCEPT ![d] = e]
  /\ Change

UpdateDocument(d, e) ==
  /\ d \in stored
  /\ dated' = dated \cup {d}
  /\ left' = [left EXCEPT ![d] = e]
  /\ UNCHANGED stored
  /\ Change

DeleteDocument(d) ==
  /\ d \in stored
  /\ stored' = stored \ {d}
  /\ dated' = dated \ {d}
  /\ left' = [left EXCEPT ![d] = Past]
  /\ Change

-----------------------------------------------------------------------------
(* GetWorkspaceOverview.                                                   *)

Forget(c) ==
  /\ pc' = [pc EXCEPT ![c] = "idle"]
  /\ pending' = [pending EXCEPT ![c] = {}]
  /\ result' = [result EXCEPT ![c] = NoCounts]
  /\ age' = [age EXCEPT ![c] = 0]
  /\ calm' = calm \ {c}

\* (mutant) a hit renews the entry.
HitRenewing(c) ==
  /\ pc[c] = "idle"
  /\ ttl >= 0
  /\ ttl' = TTL
  /\ UNCHANGED <<docs, jumpIn, changes, pc, pending, result, age, calm, cached, cachedAge>>

\* The entry is answered; a client may ask for that as often as it likes.
Hit(c) ==
  /\ pc[c] = "idle"
  /\ ttl >= 0
  /\ UNCHANGED vars

Miss(c) ==
  /\ pc[c] = "idle"
  /\ ttl < 0
  /\ pc' = [pc EXCEPT ![c] = "count"]
  /\ pending' = [pending EXCEPT ![c] = Queries]
  /\ calm' = calm \cup {c}
  /\ UNCHANGED <<docs, jumpIn, changes, result, age, cache>>

\* One of the parallel queries is answered, with the documents of now and the clock
\* of then.
Count(c, q) ==
  /\ pc[c] = "count"
  /\ q \in pending[c]
  /\ result' = [result EXCEPT ![c][q] = Answer(q, age[c])]
  /\ pending' = [pending EXCEPT ![c] = @ \ {q}]
  /\ pc' = IF pending[c] = {q} THEN [pc EXCEPT ![c] = "getFields"] ELSE pc
  /\ UNCHANGED <<docs, jumpIn, changes, age, calm, cache>>

\* The fields of every type are there: the result is stored and answered.
Store(c) ==
  /\ pc[c] = "getFields"
  /\ ttl' = TTL
  /\ cached' = result[c]
  /\ cachedAge' = age[c]
  /\ Forget(c)
  /\ UNCHANGED <<docs, jumpIn, changes>>

\* A query rejects, or a field of a type is malformed: nothing is stored.
QueryFails(c) ==
  /\ pc[c] # "idle"
  /\ Forget(c)
  /\ UNCHANGED <<docs, jumpIn, changes, cache>>

-----------------------------------------------------------------------------

\* An instant comes closer; how long it has been past does not matter from some
\* point on.
Nearer(n, past) == IF n <= past THEN past ELSE n - 1

\* (mutant) an entry never runs out.
TickForgotten ==
  /\ \A c \in Clients : pc[c] # "idle" => age[c] < MaxFill
  /\ left' = [d \in DocIds |-> Nearer(left[d], Past)]
  /\ jumpIn' = Nearer(jumpIn, - MaxFill)
  /\ age' = [c \in Clients |-> IF pc[c] = "idle" THEN 0 ELSE age[c] + 1]
  /\ calm' = {}
  /\ UNCHANGED <<stored, dated, changes, pc, pending, result, cache>>

\* Time passes.  NodeCache gives an entry away up to and including the last
\* instant of its life.
Tick ==
  /\ \A c \in Clients : pc[c] # "idle" => age[c] < MaxFill
  /\ left' = [d \in DocIds |-> Nearer(left[d], Past)]
  /\ jumpIn' = Nearer(jumpIn, - MaxFill)
  /\ age' = [c \in Clients |-> IF pc[c] = "idle" THEN 0 ELSE age[c] + 1]
  /\ ttl' = Nearer(ttl, -1)
  /\ cached' = IF ttl <= 0 THEN NoCounts ELSE cached
  /\ cachedAge' = IF ttl <= 0 THEN 0 ELSE cachedAge + 1
  /\ calm' = {}
  /\ UNCHANGED <<stored, dated, changes, pc, pending, result>>

\* A restart: the cache lives in the process, and so do the requests.
Crash ==
  /\ pc' = [c \in Clients |-> "idle"]
  /\ pending' = [c \in Clients |-> {}]
  /\ result' = [c \in Clients |-> NoCounts]
  /\ age' = [c \in Clients |-> 0]
  /\ calm' = {}
  /\ ttl' = -1 /\ cached' = NoCounts /\ cachedAge' = 0
  /\ UNCHANGED <<docs, jumpIn, changes>>

DocumentStep(d) == UploadDocument(d) \/ (\E e \in Instants : UpdateDocument(d, e)) \/ DeleteDocument(d)

\* What a database call that settles lets a request do.
Settle(c) == (\E q \in Queries : Count(c, q)) \/ Store(c) \/ QueryFails(c)

Next ==
  \/ \E d \in DocIds : DocumentStep(d)
  \/ \E c \in Clients : Hit(c) \/ Miss(c) \/ Settle(c)
  \/ Tick \/ Crash

Spec == Init /\ [][Next]_vars

\* Time goes on and database calls settle; clients need not ask.
FairSpec == Spec /\ WF_vars(Tick) /\ \A c \in Clients : WF_vars(Settle(c))

-----------------------------------------------------------------------------
(* Properties.                                                             *)

\* Every variable has the shape the code gives it; a request that has a query
\* pending is suspended at it.
TypeOK ==
  /\ stored \subseteq DocIds /\ dated \subseteq stored
  /\ left \in [DocIds -> Int] /\ \A d \in DocIds : left[d] >= Past
  /\ jumpIn \in Int /\ jumpIn >= - MaxFill /\ changes \in Nat
  /\ pc \in [Clients -> {"idle", "count", "getFields"}]
  /\ pending \in [Clients -> SUBSET Queries]
  /\ \A c \in Clients : pc[c] = "count" <=> pending[c] # {}
  /\ result \in [Clients -> [Queries -> SUBSET DocIds]]
  /\ age \in [Clients -> Nat]
  /\ calm \subseteq {c \in Clients : pc[c] # "idle"}
  /\ ttl \in Nat \cup {-1}
  /\ cached \in [Queries -> SUBSET DocIds]
  /\ cachedAge \in Nat

\* Documents that expire within the time by which the local clock is to jump of
\* the end of the window.
AtTheJump ==
  IF Window(0) = Threshold * Day THEN {}
  ELSE {d \in dated : \/ Window(0) < left[d] /\ left[d] <= Threshold * Day
                      \/ Threshold * Day < left[d] /\ left[d] <= Window(0)}

\* Three queries and a subtraction say what calculateExpiryStatus says of each
\* document, when nothing changed and no time passed while they ran, but for the
\* documents a change of the clocks makes them disagree about.
CountsMatchStatuses ==
  \A c \in calm :
    pc[c] = "getFields" =>
      /\ result[c]["expired"] = WithStatus("EXPIRED")
      /\ result[c]["expiring"] \ AtTheJump = WithStatus("EXPIRING") \ AtTheJump
      /\ AtTheJump = {} => Valid(result[c]) = Cardinality(WithStatus("VALID"))

\* An overview that is answered from the cache was counted at most TTL and the
\* time of one request ago, whatever other requests stored in between.
StalenessBounded == ttl >= 0 => cachedAge + ttl <= TTL + MaxFill

\* When documents stop changing, the overview comes to show them as they are,
\* even to clients that never stop asking: no hit keeps an entry alive, and no
\* slow request stores what it counted before for good.
OverviewCatchesUp == <>[](ttl >= 0 => cached = Counts)
=============================================================================
