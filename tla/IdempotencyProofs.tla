-------------------------- MODULE IdempotencyProofs --------------------------
(***************************************************************************)
(* Proofs about Idempotency for any users, routes, bodies and requests.    *)
(*                                                                         *)
(* That a replay speaks of the right request, and that no effect follows a *)
(* record, both rest on the record and the history agreeing: a standing    *)
(* request is the one its fingerprint finds, and a record holds the        *)
(* response of a request with that very fingerprint.                       *)
(***************************************************************************)
EXTENDS Idempotency, TLAPS

\* A request has an effect only once its handler has run.
EffectsAreLate ==
  /\ \A r \in Requests : pc[r] \in {"new", "lookup", "execute"} => effect[r] = "none"
  /\ \A r \in Requests : pc[r] = "respond" => effect[r] # "none"

\* A response is sent, and recorded, after the effect.
AnsweredAfterEffect ==
  /\ \A r \in Requests : answer[r] = r => effect[r] # "none"
  /\ \A r \in Requests : pc[r] # "done" => answer[r] = "none"

\* The collection and the history of it agree.
RecordsStand ==
  \A k \in Fingerprints :
    record[k] # "none" => record[k] \in standing /\ Fingerprint(sent[record[k]]) = k

StandingIsRecorded == \A q \in standing : record[Fingerprint(sent[q])] = q

\* A handler runs on a miss that found nothing because nothing stood.
RunsUnrecorded ==
  \A r \in Requests : pc[r] \in {"execute", "respond"} => known[r] = {} \/ r \in blind

IInv ==
  /\ TypeOK
  /\ EffectsAreLate
  /\ AnsweredAfterEffect
  /\ RecordsStand
  /\ StandingIsRecorded
  /\ RunsUnrecorded
  /\ NoEffectOnceRecorded
  /\ AnswersAreOwn

-----------------------------------------------------------------------------
(* Messages and their fingerprints.                                        *)

LEMMA NoMessageIsNone == NoMessage \notin Messages
  <1>1. \A m \in Messages : DOMAIN m = {"user", "path", "body"}
    BY DEF Messages
  <1>2. DOMAIN NoMessage = {"user"}
    BY DEF NoMessage
  <1> QED BY <1>1, <1>2

\* The fingerprint tells requests apart.
LEMMA FingerprintsDiffer ==
  ASSUME NEW m \in Messages, NEW n \in Messages
  PROVE  /\ Fingerprint(m) \in Fingerprints
         /\ Fingerprint(m) = Fingerprint(n) => m = n
  BY DEF Fingerprint, Fingerprints, Messages

-----------------------------------------------------------------------------

LEMMA InitIInv == Init => IInv
  <1> SUFFICES ASSUME Init PROVE IInv
    OBVIOUS
  <1>1. TypeOK
    BY NoneIsNoRequest DEF Init, TypeOK
  <1>2. RecordsStand /\ StandingIsRecorded
    BY DEF Init, RecordsStand, StandingIsRecorded
  <1>3. EffectsAreLate /\ AnsweredAfterEffect /\ RunsUnrecorded
    BY NoneIsNoRequest DEF Init, EffectsAreLate, AnsweredAfterEffect, RunsUnrecorded
  <1>4. NoEffectOnceRecorded /\ AnswersAreOwn
    BY DEF Init, NoEffectOnceRecorded, AnswersAreOwn
  <1> QED BY <1>1, <1>2, <1>3, <1>4 DEF IInv

\* What a request looks up is a fingerprint.
LEMMA InFlightHasMessage ==
  ASSUME TypeOK, NEW r \in Requests, pc[r] # "new"
  PROVE  sent[r] \in Messages /\ Fingerprint(sent[r]) \in Fingerprints
  BY FingerprintsDiffer DEF TypeOK

LEMMA SendKeepsIInv ==
  ASSUME IInv, NEW r \in Requests, NEW m \in Messages, Send(r, m)
  PROVE  IInv'
  <1> USE DEF IInv, Send, Goto
  <1>1. TypeOK'
    BY NoMessageIsNone DEF TypeOK
  <1>2. \A q \in standing \cup caching : q # r
    BY NoneIsNoRequest DEF TypeOK, EffectsAreLate, AnsweredAfterEffect
  <1>3. \A q \in Requests : answer[q] # r
    BY NoneIsNoRequest DEF TypeOK, AnswersAreOwn, EffectsAreLate
  <1>4. RecordsStand' /\ StandingIsRecorded'
    BY <1>2 DEF RecordsStand, StandingIsRecorded, TypeOK, Fingerprint
  <1>5. answer[r] = "none"
    BY DEF AnsweredAfterEffect
  <1>6. EffectsAreLate' /\ AnsweredAfterEffect' /\ RunsUnrecorded'
    BY DEF EffectsAreLate, AnsweredAfterEffect, RunsUnrecorded, TypeOK
  <1>7. NoEffectOnceRecorded' /\ AnswersAreOwn'
    BY <1>3, <1>5 DEF NoEffectOnceRecorded, AnswersAreOwn, SameRequest, TypeOK
  <1> QED BY <1>1, <1>4, <1>6, <1>7

LEMMA ReplayKeepsIInv ==
  ASSUME IInv, NEW r \in Requests, Replay(r)
  PROVE  IInv'
  <1> USE DEF IInv, Replay, Goto, Note
  <1> DEFINE q == record[Fingerprint(sent[r])]
  <1>1. sent[r] \in Messages /\ Fingerprint(sent[r]) \in Fingerprints
    BY InFlightHasMessage
  <1>2. q \in Requests /\ q \in standing /\ answer[q] = q /\ effect[q] # "none"
    BY <1>1 DEF TypeOK, RecordsStand, AnsweredAfterEffect
  <1>3. sent[q] = sent[r] /\ q # r
    <2>1. pc[q] = "done"
      BY <1>2, NoneIsNoRequest DEF AnsweredAfterEffect
    <2> QED BY <1>1, <1>2, <2>1, InFlightHasMessage, FingerprintsDiffer DEF RecordsStand
  <1>4. TypeOK'
    BY <1>2, <1>3, NoneIsNoRequest DEF TypeOK, AnsweredAfterEffect
  <1>5. RecordsStand' /\ StandingIsRecorded'
    BY DEF RecordsStand, StandingIsRecorded
  <1>6. EffectsAreLate' /\ AnsweredAfterEffect' /\ RunsUnrecorded'
    BY <1>2, <1>3 DEF EffectsAreLate, AnsweredAfterEffect, RunsUnrecorded, TypeOK
  <1>7. NoEffectOnceRecorded'
    BY DEF NoEffectOnceRecorded, EffectsAreLate, TypeOK
  <1>8. AnswersAreOwn'
    BY <1>2, <1>3 DEF AnswersAreOwn, SameRequest, TypeOK
  <1> QED BY <1>4, <1>5, <1>6, <1>7, <1>8

\* Nothing stands for the request: what it notes is empty, or it is blind.
LEMMA LookupKeepsIInv ==
  ASSUME IInv, NEW r \in Requests, LookupMisses(r) \/ LookupFails(r)
  PROVE  IInv'
  <1> USE DEF IInv, LookupMisses, LookupFails, Goto, Note
  <1>1. TypeOK'
    BY DEF TypeOK
  <1>2. RecordsStand' /\ StandingIsRecorded' /\ AnswersAreOwn'
    BY DEF RecordsStand, StandingIsRecorded, AnswersAreOwn
  <1>3. EffectsAreLate' /\ AnsweredAfterEffect'
    BY DEF EffectsAreLate, AnsweredAfterEffect, TypeOK
  <1>4. known'[r] = {} \/ r \in blind'
    <2>1. CASE LookupMisses(r)
      <3>1. \A q \in standing : ~ SameRequest(sent[q], sent[r])
        BY <2>1, NoneIsNoRequest DEF StandingIsRecorded, SameRequest, TypeOK
      <3> QED BY <2>1, <3>1 DEF TypeOK
    <2>2. CASE LookupFails(r)
      BY <2>2
    <2> QED BY <2>1, <2>2
  <1>5. RunsUnrecorded' /\ NoEffectOnceRecorded'
    BY <1>4 DEF RunsUnrecorded, NoEffectOnceRecorded, TypeOK
  <1> QED BY <1>1, <1>2, <1>3, <1>5

LEMMA ExecuteKeepsIInv ==
  ASSUME IInv, NEW r \in Requests, Execute(r) \/ ExecuteFails(r)
  PROVE  IInv'
  <1> USE DEF IInv, Execute, ExecuteFails, Goto
  <1>1. TypeOK'
    BY DEF TypeOK
  <1>2. RecordsStand' /\ StandingIsRecorded'
    BY DEF RecordsStand, StandingIsRecorded
  <1>3. EffectsAreLate' /\ AnsweredAfterEffect' /\ RunsUnrecorded'
    BY DEF EffectsAreLate, AnsweredAfterEffect, RunsUnrecorded, TypeOK
  <1>4. NoEffectOnceRecorded' /\ AnswersAreOwn'
    BY DEF NoEffectOnceRecorded, AnswersAreOwn, RunsUnrecorded, TypeOK
  <1> QED BY <1>1, <1>2, <1>3, <1>4

LEMMA RespondKeepsIInv ==
  ASSUME IInv, NEW r \in Requests, Respond(r)
  PROVE  IInv'
  <1> USE DEF IInv, Respond, Goto
  <1>1. TypeOK'
    BY DEF TypeOK
  <1>2. RecordsStand' /\ StandingIsRecorded'
    BY DEF RecordsStand, StandingIsRecorded
  <1>3. EffectsAreLate' /\ AnsweredAfterEffect' /\ RunsUnrecorded'
    BY DEF EffectsAreLate, AnsweredAfterEffect, RunsUnrecorded, TypeOK
  <1>4. NoEffectOnceRecorded' /\ AnswersAreOwn'
    BY DEF NoEffectOnceRecorded, AnswersAreOwn, EffectsAreLate, SameRequest, TypeOK
  <1> QED BY <1>1, <1>2, <1>3, <1>4

LEMMA SettleKeepsIInv ==
  ASSUME IInv, NEW r \in Requests, Settle(r)
  PROVE  IInv'
  <1> USE DEF IInv, Settle
  <1>1. answer[r] = r /\ pc[r] = "done"
    BY NoneIsNoRequest DEF TypeOK, AnsweredAfterEffect
  <1>2. Fingerprint(sent[r]) \in Fingerprints
    BY <1>1, InFlightHasMessage
  <1>3. TypeOK'
    BY <1>1, <1>2 DEF TypeOK
  <1>4. RecordsStand' /\ StandingIsRecorded'
    <2>1. \A q \in standing : Fingerprint(sent[q]) \in Fingerprints
      BY InFlightHasMessage, NoneIsNoRequest DEF TypeOK, AnsweredAfterEffect
    <2> QED BY <1>1, <1>2, <2>1, NoneIsNoRequest
              DEF RecordsStand, StandingIsRecorded, TypeOK, Fingerprint
  <1>5. EffectsAreLate' /\ AnsweredAfterEffect' /\ RunsUnrecorded'
    BY DEF EffectsAreLate, AnsweredAfterEffect, RunsUnrecorded
  <1>6. NoEffectOnceRecorded' /\ AnswersAreOwn'
    BY DEF NoEffectOnceRecorded, AnswersAreOwn
  <1> QED BY <1>3, <1>4, <1>5, <1>6

LEMMA ExpireKeepsIInv ==
  ASSUME IInv, NEW k \in Fingerprints, Expire(k)
  PROVE  IInv'
  <1> USE DEF IInv, Expire
  <1>1. TypeOK'
    BY DEF TypeOK
  <1>2. RecordsStand' /\ StandingIsRecorded'
    <2>1. \A q \in standing : Fingerprint(sent[q]) \in Fingerprints
      BY InFlightHasMessage, NoneIsNoRequest DEF TypeOK, AnsweredAfterEffect
    <2> QED BY <2>1 DEF RecordsStand, StandingIsRecorded, TypeOK, Fingerprint
  <1>3. EffectsAreLate' /\ AnsweredAfterEffect' /\ RunsUnrecorded'
    BY DEF EffectsAreLate, AnsweredAfterEffect, RunsUnrecorded
  <1>4. NoEffectOnceRecorded' /\ AnswersAreOwn'
    BY DEF NoEffectOnceRecorded, AnswersAreOwn
  <1> QED BY <1>1, <1>2, <1>3, <1>4

LEMMA UndoOrCrashKeepsIInv ==
  ASSUME IInv, Crash \/ \E r \in Requests : Undo(r)
  PROVE  IInv'
  <1> USE DEF IInv, Crash, Undo, InFlight
  <1>1. TypeOK'
    BY DEF TypeOK
  <1>2. RecordsStand' /\ StandingIsRecorded'
    BY DEF RecordsStand, StandingIsRecorded
  <1>3. EffectsAreLate' /\ AnsweredAfterEffect' /\ RunsUnrecorded'
    BY DEF EffectsAreLate, AnsweredAfterEffect, RunsUnrecorded, TypeOK
  <1>4. NoEffectOnceRecorded' /\ AnswersAreOwn'
    BY NoneIsNoRequest DEF NoEffectOnceRecorded, AnswersAreOwn, TypeOK
  <1> QED BY <1>1, <1>2, <1>3, <1>4

LEMMA NextKeepsIInv == IInv /\ [Next]_vars => IInv'
  <1> SUFFICES ASSUME IInv, [Next]_vars PROVE IInv'
    OBVIOUS
  <1>1. CASE \E r \in Requests : \E m \in Messages : Send(r, m)
    BY <1>1, SendKeepsIInv
  <1>2. CASE \E r \in Requests : Proceed(r)
    BY <1>2, ReplayKeepsIInv, LookupKeepsIInv, ExecuteKeepsIInv, RespondKeepsIInv DEF Proceed
  <1>3. CASE \E r \in Requests : Settle(r)
    BY <1>3, SettleKeepsIInv
  <1>4. CASE \E k \in Fingerprints : Expire(k)
    BY <1>4, ExpireKeepsIInv
  <1>5. CASE Crash \/ \E r \in Requests : Undo(r)
    BY <1>5, UndoOrCrashKeepsIInv
  <1>6. CASE UNCHANGED vars
    BY <1>6 DEF vars, IInv, TypeOK, EffectsAreLate, AnsweredAfterEffect, RecordsStand,
                StandingIsRecorded, RunsUnrecorded, NoEffectOnceRecorded, AnswersAreOwn
  <1> QED BY <1>1, <1>2, <1>3, <1>4, <1>5, <1>6 DEF Next

LEMMA IInvAlways == Spec => []IInv
  BY InitIInv, NextKeepsIInv, PTL DEF Spec

-----------------------------------------------------------------------------

\* Every variable has the shape the code gives it, for any users, routes, bodies
\* and requests; a record on its way, or stored, belongs to an answered request.
THEOREM TypeCorrect == Spec => []TypeOK
  BY IInvAlways, PTL DEF IInv

\* No handler runs a second time for a request whose record stood when it was
\* looked up, unless that lookup failed.
THEOREM NoSecondEffect == Spec => []NoEffectOnceRecorded
  BY IInvAlways, PTL DEF IInv

\* A replayed response answers a request of the same user, on the same route, with
\* the same body, that has had its effect.
THEOREM ReplaysAreOwn == Spec => []AnswersAreOwn
  BY IInvAlways, PTL DEF IInv
=============================================================================
