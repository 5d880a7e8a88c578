------------------------------ MODULE Documents ------------------------------
(***************************************************************************)
(* Documents, their files and their links to work items, in one workspace. *)
(*                                                                         *)
(* An upload writes the file to the object store before it inserts the     *)
(* document; a deletion removes the document before the file.  A document  *)
(* can be linked to work items; the links are a collection of their own,   *)
(* which DeleteWorkItem cleans up and DeleteDocument does not.             *)
(*                                                                         *)
(* No two of these writes share a transaction: an action is the code from  *)
(* one await to the next, and any other request may run in between.  The   *)
(* audit log is awaited too; it writes a collection nothing here reads, so *)
(* only the await is modelled.  Left to other modules: the status of work  *)
(* items, the idempotency lookup in front of LinkDocument, and fields of a *)
(* document other than its existence (UpdateDocument).                     *)
(***************************************************************************)
CONSTANTS
  DocIds,     \* uploads: names both the document and its file, whose key is
              \* drawn afresh by every upload (bound of the model)
  ItemIds,    \* work items that exist when the model starts
  Requests    \* HTTP requests; each is made at most once

\* No upload draws the placeholder for "no target yet".
ASSUME NoneIsNoDocument == "none" \notin DocIds

VARIABLES
  doc,      \* the documents collection: "unborn", "stored" or "deleted"
  file,     \* the object store, likewise
  item,     \* the workitems collection: "stored" or "deleted"
  links,    \* the workitemdocuments collection: pairs of item and document
  pc,       \* the await each request is suspended at
  call,     \* the request itself
  target,   \* the file and document an upload works on
  linked,   \* GetLinkedDocuments: the links it has read,
  checked,  \*   those whose document it has looked up,
  found,    \*   and those that were there
  outcome,  \* how each request ended
  since,    \* history: documents linked to the item since a DeleteWorkItem
            \* deleted its links
  kept      \* history: files whose deletion failed and was only logged

store == <<doc, file, item, links>>
listing == <<linked, checked, found>>
vars == <<store, pc, call, target, listing, outcome, since, kept>>

States == {"unborn", "stored", "deleted"}

Uploads == [op : {"upload"}]
DocDeletes == [op : {"deleteDocument"}, doc : DocIds]
LinkCalls == [op : {"link", "unlink"}, item : ItemIds, doc : DocIds]
ItemCalls == [op : {"deleteItem", "list"}, item : ItemIds]
Calls == Uploads \cup DocDeletes \cup LinkCalls \cup ItemCalls
NoCall == [op |-> "none"]

Pair(r) == <<call[r].item, call[r].doc>>
LinksOf(i) == {d \in DocIds : <<i, d>> \in links}
InFlight == {r \in Requests : pc[r] \notin {"new", "done"}}

Init ==
  /\ doc \in [DocIds -> {"unborn", "stored"}]
  /\ file = doc
  /\ item = [i \in ItemIds |-> "stored"]
  /\ links \in SUBSET (ItemIds \X {d \in DocIds : doc[d] = "stored"})
  /\ pc = [r \in Requests |-> "new"]
  /\ call = [r \in Requests |-> NoCall]
  /\ target = [r \in Requests |-> "none"]
  /\ linked = [r \in Requests |-> {}]
  /\ checked = linked /\ found = linked /\ since = linked
  /\ outcome = [r \in Requests |-> "none"]
  /\ kept = {}

-----------------------------------------------------------------------------

Goto(r, label) == pc' = [pc EXCEPT ![r] = label] /\ UNCHANGED outcome

Answer(r, how) ==
  /\ pc' = [pc EXCEPT ![r] = "done"]
  /\ outcome' = [outcome EXCEPT ![r] = how]

\* A request the middleware has let through, and the first read of its handler:
\* 404 unless the document or work item it names is there.
FirstAwait(c) ==
  CASE c.op = "upload" -> "save"
    [] c.op = "deleteDocument" -> "erase"
    [] c.op = "link" -> "findDocument"
    [] c.op = "unlink" -> "unlink"
    [] c.op = "deleteItem" -> "deleteLinks"
    [] c.op = "list" -> "readLinks"

Exists(c) ==
  /\ c \in DocDeletes => doc[c.doc] = "stored"
  /\ c \in LinkCalls \cup ItemCalls => item[c.item] = "stored"

Begin(r, c) ==
  /\ pc[r] = "new"
  /\ c \in DocDeletes \cup LinkCalls => doc[c.doc] # "unborn"
  /\ call' = [call EXCEPT ![r] = c]
  /\ IF Exists(c) THEN Goto(r, FirstAwait(c)) ELSE Answer(r, "notFound")
  /\ UNCHANGED <<store, target, listing, since, kept>>

-----------------------------------------------------------------------------
(* Upload.                                                                 *)

\* (mutant) saveFile is not awaited.
SaveFileNotAwaited(r) ==
  /\ pc[r] = "save"
  /\ \E d \in DocIds :
       /\ file[d] = "unborn" /\ \A q \in Requests : target[q] # d
       /\ target' = [target EXCEPT ![r] = d]
       /\ file' = [file EXCEPT ![d] = "stored"] \/ UNCHANGED file
  /\ Goto(r, "validate")
  /\ UNCHANGED <<doc, item, links, call, listing, since, kept>>

\* PutObject under a fresh key.  It may be reported as failed (500), with or
\* without having stored the file.
SaveFile(r) ==
  /\ pc[r] = "save"
  /\ \E d \in DocIds :
       /\ file[d] = "unborn" /\ \A q \in Requests : target[q] # d
       /\ target' = [target EXCEPT ![r] = d]
       /\ \/ file' = [file EXCEPT ![d] = "stored"] /\ Goto(r, "validate")
          \/ /\ file' = [file EXCEPT ![d] = "stored"] \/ UNCHANGED file
             /\ Answer(r, "failed")
  /\ UNCHANGED <<doc, item, links, call, listing, since, kept>>

\* The use case looks up the document type and the entity and validates the
\* rest; any of that may refuse the request, whose file is stored by then.
ValidateUpload(r) ==
  /\ pc[r] = "validate"
  /\ Goto(r, "insert") \/ Answer(r, "refused")
  /\ UNCHANGED <<store, call, target, listing, since, kept>>

InsertDocument(r) ==
  /\ pc[r] = "insert"
  /\ doc' = [doc EXCEPT ![target[r]] = "stored"]
  /\ Goto(r, "audit")
  /\ UNCHANGED <<file, item, links, call, target, listing, since, kept>>

-----------------------------------------------------------------------------
(* Deletion of a document.                                                 *)

\* (mutant) the number of deleted documents is not looked at.
EraseDocumentUnchecked(r) ==
  /\ pc[r] = "erase"
  /\ doc' = [doc EXCEPT ![call[r].doc] = "deleted"]
  /\ Goto(r, "audit")
  /\ UNCHANGED <<file, item, links, call, target, listing, since, kept>>

\* deleteOne; 404 when somebody else has deleted the document by now.
EraseDocument(r) ==
  /\ pc[r] = "erase"
  /\ \/ /\ doc[call[r].doc] = "stored"
        /\ doc' = [doc EXCEPT ![call[r].doc] = "deleted"]
        /\ Goto(r, "audit")
     \/ /\ doc[call[r].doc] # "stored"
        /\ Answer(r, "notFound")
        /\ UNCHANGED doc
  /\ UNCHANGED <<file, item, links, call, target, listing, since, kept>>

\* (mutant) the file is left where it is.
DeleteFileForgotten(r) ==
  /\ pc[r] = "deleteFile"
  /\ Answer(r, "ok")
  /\ UNCHANGED <<store, call, target, listing, since, kept>>

\* DeleteObject; an error is logged and the answer is 204 all the same.
DeleteFile(r) ==
  /\ pc[r] = "deleteFile"
  /\ \/ file' = [file EXCEPT ![call[r].doc] = "deleted"] /\ UNCHANGED kept
     \/ kept' = kept \cup {call[r].doc} /\ UNCHANGED file
  /\ Answer(r, "ok")
  /\ UNCHANGED <<doc, item, links, call, target, listing, since>>

-----------------------------------------------------------------------------
(* Links.                                                                  *)

\* LinkDocument's second check.
FindDocument(r) ==
  /\ pc[r] = "findDocument"
  /\ IF doc[call[r].doc] = "stored" THEN Goto(r, "link") ELSE Answer(r, "notFound")
  /\ UNCHANGED <<store, call, target, listing, since, kept>>

\* Every DeleteWorkItem between its two writes is told of a new link.
NoteLink(i, d) ==
  since' = [q \in Requests |->
              IF pc[q] = "deleteItem" /\ call[q].item = i THEN since[q] \cup {d}
                                                          ELSE since[q]]

\* (mutant) no unique index.
InsertLinkNoIndex(r) ==
  /\ pc[r] = "link"
  /\ links' = links \cup {Pair(r)}
  /\ NoteLink(call[r].item, call[r].doc)
  /\ Goto(r, "audit")
  /\ UNCHANGED <<doc, file, item, call, target, listing, kept>>

\* The insert, under the unique index on (workItemId, documentId): 400 for a
\* duplicate.  Nothing looks at the work item or the document again.
InsertLink(r) ==
  /\ pc[r] = "link"
  /\ \/ /\ Pair(r) \notin links
        /\ links' = links \cup {Pair(r)}
        /\ NoteLink(call[r].item, call[r].doc)
        /\ Goto(r, "audit")
     \/ /\ Pair(r) \in links
        /\ Answer(r, "refused")
        /\ UNCHANGED <<links, since>>
  /\ UNCHANGED <<doc, file, item, call, target, listing, kept>>

Unlink(r) ==
  /\ pc[r] = "unlink"
  /\ \/ Pair(r) \in links /\ links' = links \ {Pair(r)} /\ Goto(r, "audit")
     \/ Pair(r) \notin links /\ Answer(r, "notFound") /\ UNCHANGED links
  /\ UNCHANGED <<doc, file, item, call, target, listing, since, kept>>

\* (mutant) the links are left to somebody else.
DeleteLinksForgotten(r) ==
  /\ pc[r] = "deleteLinks"
  /\ Goto(r, "deleteItem")
  /\ UNCHANGED <<store, call, target, listing, since, kept>>

\* DeleteWorkItem: deleteMany of the links, then deleteOne of the item, whose
\* result nobody looks at.
DeleteLinks(r) ==
  /\ pc[r] = "deleteLinks"
  /\ links' = {l \in links : l[1] # call[r].item}
  /\ Goto(r, "deleteItem")
  /\ UNCHANGED <<doc, file, item, call, target, listing, since, kept>>

DeleteItem(r) ==
  /\ pc[r] = "deleteItem"
  /\ item' = [item EXCEPT ![call[r].item] = "deleted"]
  /\ Goto(r, "audit")
  /\ UNCHANGED <<doc, file, links, call, target, listing, since, kept>>

-----------------------------------------------------------------------------
(* GetLinkedDocuments: the links, then each document by a query of its own *)
(* (Promise.all, so in any order).                                         *)

ReadLinks(r) ==
  /\ pc[r] = "readLinks"
  /\ linked' = [linked EXCEPT ![r] = LinksOf(call[r].item)]
  /\ Goto(r, "findDocuments")
  /\ UNCHANGED <<store, call, target, checked, found, since, kept>>

\* (mutant) every document of the workspace is looked up.
FindAnyDocument(r, d) ==
  /\ pc[r] = "findDocuments"
  /\ d \in DocIds \ checked[r] /\ doc[d] # "unborn"
  /\ checked' = [checked EXCEPT ![r] = @ \cup {d}]
  /\ found' = IF doc[d] = "stored" THEN [found EXCEPT ![r] = @ \cup {d}] ELSE found
  /\ UNCHANGED <<store, pc, call, target, linked, outcome, since, kept>>

FindLinkedDocument(r, d) ==
  /\ pc[r] = "findDocuments"
  /\ d \in linked[r] \ checked[r]
  /\ checked' = [checked EXCEPT ![r] = @ \cup {d}]
  /\ found' = IF doc[d] = "stored" THEN [found EXCEPT ![r] = @ \cup {d}] ELSE found
  /\ UNCHANGED <<store, pc, call, target, linked, outcome, since, kept>>

\* (mutant) Promise.race: the first query to settle is the answer.
PresentLinkedEarly(r) ==
  /\ pc[r] = "findDocuments"
  /\ checked[r] # {} \/ linked[r] = {}
  /\ Answer(r, "ok")
  /\ UNCHANGED <<store, call, target, listing, since, kept>>

PresentLinked(r) ==
  /\ pc[r] = "findDocuments"
  /\ checked[r] = linked[r]
  /\ Answer(r, "ok")
  /\ UNCHANGED <<store, call, target, listing, since, kept>>

-----------------------------------------------------------------------------

\* The audit log never fails; DeleteDocument goes on to the file.
LogAndRespond(r) ==
  /\ pc[r] = "audit"
  /\ IF call[r].op = "deleteDocument" THEN Goto(r, "deleteFile") ELSE Answer(r, "ok")
  /\ UNCHANGED <<store, call, target, listing, since, kept>>

\* A database call rejects: 500, and what has been written stays.
DatabaseError(r) ==
  /\ r \in InFlight
  /\ pc[r] \notin {"save", "audit", "deleteFile"}
  /\ Answer(r, "failed")
  /\ UNCHANGED <<store, call, target, listing, since, kept>>

\* The process dies: requests in flight are lost, both stores stay.
Crash ==
  /\ pc' = [r \in Requests |-> IF r \in InFlight THEN "done" ELSE pc[r]]
  /\ outcome' = [r \in Requests |-> IF r \in InFlight THEN "lost" ELSE outcome[r]]
  /\ UNCHANGED <<store, call, target, listing, since, kept>>

Step(r) ==
  \/ \E c \in Calls : Begin(r, c)
  \/ SaveFile(r) \/ ValidateUpload(r) \/ InsertDocument(r)
  \/ EraseDocument(r) \/ DeleteFile(r)
  \/ FindDocument(r) \/ InsertLink(r) \/ Unlink(r)
  \/ DeleteLinks(r) \/ DeleteItem(r)
  \/ ReadLinks(r) \/ (\E d \in DocIds : FindLinkedDocument(r, d)) \/ PresentLinked(r)
  \/ LogAndRespond(r) \/ DatabaseError(r)

Next == (\E r \in Requests : Step(r)) \/ Crash

Spec == Init /\ [][Next]_vars

-----------------------------------------------------------------------------
(* Properties.                                                             *)

Awaits == {"new", "save", "validate", "insert", "erase", "deleteFile", "findDocument",
           "link", "unlink", "deleteLinks", "deleteItem", "readLinks",
           "findDocuments", "audit", "done"}

\* Every variable has the shape the code gives it; a link names a document that
\* was uploaded.
TypeOK ==
  /\ doc \in [DocIds -> States] /\ file \in [DocIds -> States]
  /\ item \in [ItemIds -> {"stored", "deleted"}]
  /\ links \subseteq ItemIds \X {d \in DocIds : doc[d] # "unborn"}
  /\ pc \in [Requests -> Awaits]
  /\ call \in [Requests -> Calls \cup {NoCall}]
  /\ target \in [Requests -> DocIds \cup {"none"}]
  /\ linked \in [Requests -> SUBSET DocIds]
  /\ \A r \in Requests : found[r] \subseteq checked[r] /\ checked[r] \subseteq linked[r]
  /\ outcome \in [Requests -> {"none", "ok", "refused", "notFound", "failed", "lost"}]
  /\ since \in [Requests -> SUBSET DocIds]
  /\ kept \subseteq DocIds

\* A document that can be found can be downloaded: its file is there.  Uploads
\* store the file first, deletions remove it last, and a request that fails in
\* between errs on the side of the file.
StoredDocumentHasItsFile == \A d \in DocIds : doc[d] = "stored" => file[d] = "stored"

WorksOn(r, d) == target[r] = d \/ (call[r].op = "deleteDocument" /\ call[r].doc = d)

\* A file without a document is the doing of an upload or deletion that is in
\* flight, was refused, failed or was lost, or of a failed DeleteObject: requests
\* that all succeed never leak a file, whatever their order.
OrphanFilesExplained ==
  \A d \in DocIds :
    file[d] = "stored" /\ doc[d] # "stored" =>
      \/ d \in kept
      \/ \E r \in Requests :
           /\ WorksOn(r, d)
           /\ r \in InFlight \/ outcome[r] \in {"refused", "failed", "lost"}

\* Of several concurrent deletions of a document one is answered 204 and the
\* others 404, although all of them have found it.
DocumentDeletedOnce ==
  \A r, q \in Requests :
    /\ r # q
    /\ call[r].op = "deleteDocument" /\ call[q] = call[r]
    /\ outcome[r] = "ok"
    => outcome[q] # "ok"

MayHaveRemoved(p, l) ==
  /\ call[p].op \in {"unlink", "deleteItem"} /\ call[p].item = l[1]
  /\ call[p].op = "unlink" => call[p].doc = l[2]
  /\ pc[p] \notin {"unlink", "deleteLinks"} /\ outcome[p] # "notFound"

\* Two requests to link the same pair are not both answered 200, unless a third
\* one removed the link in between.  (A replay by the idempotency middleware in front
\* never reaches the handler: module Idempotency.)
LinkedOnce ==
  \A r, q \in Requests :
    /\ r # q
    /\ call[r].op = "link" /\ call[q] = call[r]
    /\ outcome[r] = "ok" /\ outcome[q] = "ok"
    => \E p \in Requests : MayHaveRemoved(p, Pair(r))

\* The answer of GetLinkedDocuments omits a linked document only if it has been
\* deleted (the deletion of the document leaves its links behind).
LinkedListIsComplete ==
  \A r \in Requests :
    call[r].op = "list" /\ outcome[r] = "ok" =>
      {d \in linked[r] : doc[d] = "stored"} \subseteq found[r]

\* A work item is deleted without its links: what is left was linked after the
\* request that deletes the item had deleted its links.
DeletedItemLosesItsLinks ==
  [][\A i \in ItemIds :
       item[i] = "stored" /\ item'[i] = "deleted" =>
         \E r \in Requests : /\ pc[r] = "deleteItem" /\ call[r].item = i
                             /\ LinksOf(i) \subseteq since[r]]_vars

\* DeleteWorkItem.ts: "Deletes a work item and cleans up associated document
\* links": no link is left to a work item whose deletion has been answered.
NoLinksOfDeletedItems ==
  \A r \in Requests :
    call[r].op = "deleteItem" /\ outcome[r] = "ok" => LinksOf(call[r].item) = {}
=============================================================================
