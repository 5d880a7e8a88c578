----------------------------- MODULE Idempotency -----------------------------
(***************************************************************************)
(* The idempotency middleware in front of the POST routes that invite a    *)
(* member, create a work item and link a document.                         *)
(*                                                                         *)
(* The middleware looks a fingerprint of the request up and, if there is   *)
(* a record, answers from it.  Otherwise the handler runs, and when it     *)
(* answers 2xx a record is created without being awaited; the unique key   *)
(* keeps the first one, an error is silent.  Records expire after a day.   *)
(* A lookup that fails lets the request through.                           *)
(*                                                                         *)
(* What the handler does is one effect (a membership, a work item, a link) *)
(* that somebody may undo later; the other modules have its steps.  An     *)
(* effect is named after the request that had it.                          *)
(***************************************************************************)
CONSTANTS
  Users,
  Paths,     \* the routes with their parameters
  Indexed,   \* those whose effect a unique index keeps single (invite, link)
  Bodies,    \* request bodies, apart from the order of their keys
  Requests   \* HTTP requests; a retry is a request of its own

ASSUME IndexedPaths == Indexed \subseteq Paths
ASSUME NoneIsNoRequest == "none" \notin Requests

VARIABLES
  record,    \* the idempotencyrecords collection: fingerprint -> the request
             \* whose response it holds, or "none"
  effect,    \* effect[r]: "none", "live" or "undone"
  pc,        \* the await each request is suspended at
  sent,      \* the request itself
  answer,    \* the request whose response it was answered with: itself, or
             \* the one replayed; "none" without a 2xx answer
  caching,   \* requests whose IdempotencyModel.create has not settled
  standing,  \* history: requests whose record was created and has not expired
  blind,     \* history: requests whose lookup failed
  known      \* history: the standing records of its fingerprint when a
             \* request looked it up

vars == <<record, effect, pc, sent, answer, caching, standing, blind, known>>

Messages == [user : Users, path : Paths, body : Bodies]
NoMessage == [user |-> "none"]
Fingerprints == Users \X Paths \X Bodies

\* (mutant) the user is left out.
FingerprintOfBody(m) == <<CHOOSE u \in Users : TRUE, m.path, m.body>>

\* sha256 of user, method, path and the body with its keys sorted: the order
\* they come in makes no difference.
Fingerprint(m) == <<m.user, m.path, m.body>>

SameRequest(m, n) == m = n

\* Effects that the unique index does not let stand together; the user who asks
\* is no part of it.
Clash(r, q) == sent[r].path = sent[q].path /\ sent[r].body = sent[q].body

InFlight == {r \in Requests : pc[r] \notin {"new", "done"}}

Init ==
  /\ record = [k \in Fingerprints |-> "none"]
  /\ effect = [r \in Requests |-> "none"]
  /\ pc = [r \in Requests |-> "new"]
  /\ sent = [r \in Requests |-> NoMessage]
  /\ answer = [r \in Requests |-> "none"]
  /\ caching = {} /\ standing = {} /\ blind = {}
  /\ known = [r \in Requests |-> {}]

-----------------------------------------------------------------------------

Goto(r, label) == pc' = [pc EXCEPT ![r] = label]

Send(r, m) ==
  /\ pc[r] = "new"
  /\ sent' = [sent EXCEPT ![r] = m]
  /\ Goto(r, "lookup")
  /\ UNCHANGED <<record, effect, answer, caching, standing, blind, known>>

Note(r) ==
  known' = [known EXCEPT ![r] = {q \in standing : SameRequest(sent[q], sent[r])}]

\* (mutant) a record answers one retry and is gone.
ReplayConsuming(r) ==
  /\ pc[r] = "lookup"
  /\ record[Fingerprint(sent[r])] # "none"
  /\ answer' = [answer EXCEPT ![r] = record[Fingerprint(sent[r])]]
  /\ record' = [record EXCEPT ![Fingerprint(sent[r])] = "none"]
  /\ Goto(r, "done")
  /\ Note(r)
  /\ UNCHANGED <<effect, sent, caching, standing, blind>>

\* The recorded response is the answer; the handler does not run.
Replay(r) ==
  /\ pc[r] = "lookup"
  /\ record[Fingerprint(sent[r])] # "none"
  /\ answer' = [answer EXCEPT ![r] = record[Fingerprint(sent[r])]]
  /\ Goto(r, "done")
  /\ Note(r)
  /\ UNCHANGED <<record, effect, sent, caching, standing, blind>>

LookupMisses(r) ==
  /\ pc[r] = "lookup"
  /\ record[Fingerprint(sent[r])] = "none"
  /\ Goto(r, "execute")
  /\ Note(r)
  /\ UNCHANGED <<record, effect, sent, answer, caching, standing, blind>>

\* (mutant) the error of the lookup is not caught.
LookupErrorUncaught(r) ==
  /\ pc[r] = "lookup"
  /\ Goto(r, "dropped")
  /\ blind' = blind \cup {r}
  /\ Note(r)
  /\ UNCHANGED <<record, effect, sent, answer, caching, standing>>

\* Fail open: the handler runs, and its answer is not recorded.
LookupFails(r) ==
  /\ pc[r] = "lookup"
  /\ Goto(r, "execute")
  /\ blind' = blind \cup {r}
  /\ Note(r)
  /\ UNCHANGED <<record, effect, sent, answer, caching, standing>>

\* The handler takes effect, unless the unique index forbids it.
Execute(r) ==
  /\ pc[r] = "execute"
  /\ IF sent[r].path \in Indexed /\ \E q \in Requests : effect[q] = "live" /\ Clash(q, r)
       THEN Goto(r, "done") /\ UNCHANGED effect
       ELSE effect' = [effect EXCEPT ![r] = "live"] /\ Goto(r, "respond")
  /\ UNCHANGED <<record, sent, answer, caching, standing, blind, known>>

\* The handler refuses or fails before its effect: nothing is recorded.
ExecuteFails(r) ==
  /\ pc[r] = "execute"
  /\ Goto(r, "done")
  /\ UNCHANGED <<record, effect, sent, answer, caching, standing, blind, known>>

\* res.json: the record is on its way, and so is the answer.
Respond(r) ==
  /\ pc[r] = "respond"
  /\ answer' = [answer EXCEPT ![r] = r]
  /\ caching' = IF r \in blind THEN caching ELSE caching \cup {r}
  /\ Goto(r, "done")
  /\ UNCHANGED <<record, effect, sent, standing, blind, known>>

\* The create settles: the record is there, or another one was, or it failed.
Settle(r) ==
  /\ r \in caching
  /\ caching' = caching \ {r}
  /\ \/ /\ record[Fingerprint(sent[r])] = "none"
        /\ record' = [record EXCEPT ![Fingerprint(sent[r])] = r]
        /\ standing' = standing \cup {r}
     \/ UNCHANGED <<record, standing>>
  /\ UNCHANGED <<effect, pc, sent, answer, blind, known>>

\* The TTL index removes a record.
Expire(k) ==
  /\ record[k] # "none"
  /\ standing' = standing \ {record[k]}
  /\ record' = [record EXCEPT ![k] = "none"]
  /\ UNCHANGED <<effect, pc, sent, answer, caching, blind, known>>

\* A member is removed, a work item deleted, a document unlinked.
Undo(r) ==
  /\ effect[r] = "live"
  /\ effect' = [effect EXCEPT ![r] = "undone"]
  /\ UNCHANGED <<record, pc, sent, answer, caching, standing, blind, known>>

\* The process dies: requests in flight and records on their way are lost.
Crash ==
  /\ pc' = [r \in Requests |-> IF r \in InFlight THEN "done" ELSE pc[r]]
  /\ caching' = {}
  /\ UNCHANGED <<record, effect, sent, answer, standing, blind, known>>

\* What a request does once a call it awaits has settled.
Proceed(r) ==
  \/ Replay(r) \/ LookupMisses(r) \/ LookupFails(r)
  \/ Execute(r) \/ ExecuteFails(r) \/ Respond(r)

Next ==
  \/ \E r \in Requests :
       (\E m \in Messages : Send(r, m)) \/ Proceed(r) \/ Settle(r) \/ Undo(r)
  \/ \E k \in Fingerprints : Expire(k)
  \/ Crash

Spec == Init /\ [][Next]_vars

\* Database calls settle, and the event loop runs what waits for them.
FairSpec == Spec /\ \A r \in Requests : WF_vars(Proceed(r))

-----------------------------------------------------------------------------
(* Properties.                                                             *)

\* Every variable has the shape the code gives it; a record holds the response
\* of a request that was answered after its effect.
TypeOK ==
  /\ record \in [Fingerprints -> Requests \cup {"none"}]
  /\ effect \in [Requests -> {"none", "live", "undone"}]
  /\ pc \in [Requests -> {"new", "lookup", "execute", "respond", "done"}]
  /\ sent \in [Requests -> Messages \cup {NoMessage}]
  /\ \A r \in Requests : pc[r] = "new" <=> sent[r] = NoMessage
  /\ answer \in [Requests -> Requests \cup {"none"}]
  /\ caching \subseteq {r \in Requests : answer[r] = r}
  /\ standing \subseteq {r \in Requests : answer[r] = r}
  /\ blind \subseteq Requests
  /\ known \in [Requests -> SUBSET Requests]

\* "If the same fingerprint arrives again within 24h, no use case is executed a
\* second time": a retry has an effect of its own only if no record stood when
\* it was looked up (the first request was still at work, its record was on its
\* way, was lost, or had expired), or the lookup failed.
NoEffectOnceRecorded ==
  \A r \in Requests : effect[r] # "none" => known[r] = {} \/ r \in blind

\* What is answered 2xx has happened, at the request of the same user, on the
\* same route, with the same body (it may have been undone since).
AnswersAreOwn ==
  \A r \in Requests :
    answer[r] # "none" => effect[answer[r]] # "none" /\ SameRequest(sent[answer[r]], sent[r])

\* Neither a lookup nor a record that fails keeps a request from its answer.
EveryRequestAnswered == \A r \in Requests : r \in InFlight ~> pc[r] = "done"
=============================================================================
