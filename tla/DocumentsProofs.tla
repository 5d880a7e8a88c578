--------------------------- MODULE DocumentsProofs ---------------------------
(***************************************************************************)
(* What holds of Documents for every set of documents, work items and      *)
(* requests.  Files: a stored document has its file, and a file without a  *)
(* document is explained by a request that did not succeed.  Deletions:    *)
(* one of several deletions of a document succeeds, and a work item is     *)
(* deleted without the links that were there when its deletion began.      *)
(* Links: a pair is linked once, and a list of linked documents is whole.  *)
(***************************************************************************)
EXTENDS Documents, TLAPS

-----------------------------------------------------------------------------
(* Files.  An upload owns its file from PutObject to the insert: nobody    *)
(* else works on it, and its document does not exist.  A deletion touches  *)
(* the file of a document that is gone, and documents do not come back.    *)

NotDeleting == {"save", "validate", "insert", "findDocument", "link", "unlink",
                 "deleteLinks", "deleteItem", "readLinks", "findDocuments"}

Holds(r) ==
  /\ pc[r] \in NotDeleting => call[r].op # "deleteDocument"
  /\ pc[r] \in {"erase", "deleteFile"} => call[r] \in DocDeletes
  /\ pc[r] \in {"audit", "deleteFile"} /\ call[r].op = "deleteDocument" =>
       doc[call[r].doc] = "deleted"
  /\ pc[r] \in {"validate", "insert"} =>
       /\ target[r] \in DocIds
       /\ file[target[r]] = "stored" /\ doc[target[r]] = "unborn"

FileInv ==
  /\ doc \in [DocIds -> States] /\ file \in [DocIds -> States]
  /\ pc \in [Requests -> Awaits]
  /\ call \in [Requests -> Calls \cup {NoCall}]
  /\ target \in [Requests -> DocIds \cup {"none"}]
  /\ \A d \in DocIds : file[d] = "unborn" => doc[d] = "unborn"
  /\ \A r \in Requests : Holds(r)
  /\ \A r, q \in Requests : r # q /\ target[r] = target[q] => target[r] = "none"
  /\ StoredDocumentHasItsFile

LEMMA FileInvInit == Init => FileInv
BY DEF Init, FileInv, Holds, States, Awaits, NotDeleting, NoCall,
       StoredDocumentHasItsFile

LEMMA DeletionsNameDocuments ==
  \A c \in Calls \cup {NoCall} : c.op = "deleteDocument" => c.doc \in DocIds
BY DEF Calls, Uploads, DocDeletes, LinkCalls, ItemCalls, NoCall

LEMMA FileInvNext == FileInv /\ [Next]_vars => FileInv'
<1> SUFFICES ASSUME FileInv, [Next]_vars PROVE FileInv'
  OBVIOUS
<1> USE DEF FileInv, Holds, StoredDocumentHasItsFile, NotDeleting, States, Awaits,
            Goto, Answer, store, listing
<1>1. ASSUME NEW r \in Requests, NEW c \in Calls, Begin(r, c) PROVE FileInv'
  BY <1>1 DEF Begin, FirstAwait, Exists, Calls, Uploads, DocDeletes, LinkCalls, ItemCalls
<1>2. ASSUME NEW r \in Requests, SaveFile(r) PROVE FileInv'
  BY <1>2, NoneIsNoDocument DEF SaveFile
<1>3. ASSUME NEW r \in Requests, ValidateUpload(r) PROVE FileInv'
  BY <1>3 DEF ValidateUpload
<1>4. ASSUME NEW r \in Requests, InsertDocument(r) PROVE FileInv'
  BY <1>4, NoneIsNoDocument DEF InsertDocument
<1>5. ASSUME NEW r \in Requests, EraseDocument(r) PROVE FileInv'
  <2>1. call[r] \in DocDeletes /\ call[r].doc \in DocIds /\ call[r].op = "deleteDocument"
    BY <1>5 DEF EraseDocument, DocDeletes
  <2>2. CASE doc[call[r].doc] = "stored"
    BY <1>5, <2>1, <2>2, DeletionsNameDocuments DEF EraseDocument
  <2>3. CASE doc[call[r].doc] # "stored"
    BY <1>5, <2>1, <2>3 DEF EraseDocument
  <2>4. QED
    BY <2>2, <2>3
<1>6. ASSUME NEW r \in Requests, DeleteFile(r) PROVE FileInv'
  BY <1>6 DEF DeleteFile, DocDeletes
<1>7. ASSUME NEW r \in Requests, FindDocument(r) \/ InsertLink(r) \/ Unlink(r)
      PROVE FileInv'
  BY <1>7 DEF FindDocument, InsertLink, Unlink
<1>8. ASSUME NEW r \in Requests, DeleteLinks(r) \/ DeleteItem(r) PROVE FileInv'
  BY <1>8 DEF DeleteLinks, DeleteItem
<1>9. ASSUME NEW r \in Requests,
             \/ ReadLinks(r)
             \/ \E d \in DocIds : FindLinkedDocument(r, d)
             \/ PresentLinked(r)
      PROVE FileInv'
  BY <1>9 DEF ReadLinks, FindLinkedDocument, PresentLinked
<1>10. ASSUME NEW r \in Requests, LogAndRespond(r) \/ DatabaseError(r) PROVE FileInv'
  BY <1>10 DEF LogAndRespond, DatabaseError, Calls, Uploads, DocDeletes, LinkCalls,
              ItemCalls, NoCall
<1>11. CASE Crash
  BY <1>11 DEF Crash, InFlight
<1>12. CASE UNCHANGED vars
  BY <1>12 DEF vars
<1>13. CASE \E r \in Requests : Step(r)
  <2>1. PICK r \in Requests : Step(r)
    BY <1>13
  <2>2. QED
    BY <1>1, <1>2, <1>3, <1>4, <1>5, <1>6, <1>7, <1>8, <1>9, <1>10, <2>1 DEF Step
<1>14. QED
  BY <1>11, <1>12, <1>13 DEF Next

\* A stored document has its file, whatever uploads, deletions, failures and
\* crashes do (UploadDocument and DeleteDocument order their two writes so).
THEOREM FilesOutliveDocuments == Spec => []StoredDocumentHasItsFile
<1>1. FileInv => StoredDocumentHasItsFile
  BY DEF FileInv
<1>2. QED
  BY <1>1, FileInvInit, FileInvNext, PTL DEF Spec
-----------------------------------------------------------------------------
(* Deletions.  A deletion that has got past deleteOne found the document   *)
(* stored there and left it deleted, so it is the only one.                *)

PastErase(r) ==
  /\ call[r].op = "deleteDocument"
  /\ pc[r] \in {"audit", "deleteFile"} \/ outcome[r] = "ok"

EraseInv ==
  /\ outcome \in [Requests -> {"none", "ok", "refused", "notFound", "failed", "lost"}]
  /\ \A r \in Requests : pc[r] # "done" => outcome[r] = "none"
  /\ \A r \in Requests : PastErase(r) => doc[call[r].doc] = "deleted"
  /\ \A r, q \in Requests :
       r # q /\ call[r] = call[q] /\ PastErase(r) => ~ PastErase(q)

LEMMA EraseInvInit == Init => EraseInv
BY DEF Init, EraseInv, PastErase, NoCall

LEMMA EraseInvNext == FileInv /\ EraseInv /\ [Next]_vars => EraseInv'
<1> SUFFICES ASSUME FileInv, EraseInv, [Next]_vars PROVE EraseInv'
  OBVIOUS
<1> USE DEF EraseInv, PastErase, Goto, Answer, store, listing
<1>0. /\ doc \in [DocIds -> States]
      /\ pc \in [Requests -> Awaits]
      /\ call \in [Requests -> Calls \cup {NoCall}]
      /\ target \in [Requests -> DocIds \cup {"none"}]
      /\ \A r \in Requests : Holds(r)
  BY DEF FileInv
<1>1. ASSUME NEW r \in Requests, NEW c \in Calls, Begin(r, c) PROVE EraseInv'
  BY <1>0, <1>1 DEF Begin, FirstAwait, Calls, Uploads, DocDeletes, LinkCalls, ItemCalls
<1>2. ASSUME NEW r \in Requests, SaveFile(r) PROVE EraseInv'
  BY <1>0, <1>2 DEF SaveFile, Holds, NotDeleting
<1>3. ASSUME NEW r \in Requests, ValidateUpload(r) PROVE EraseInv'
  BY <1>0, <1>3 DEF ValidateUpload, Holds, NotDeleting
<1>4. ASSUME NEW r \in Requests, InsertDocument(r) PROVE EraseInv'
  BY <1>0, <1>4, DeletionsNameDocuments DEF InsertDocument, Holds, NotDeleting
<1>5. ASSUME NEW r \in Requests, EraseDocument(r) PROVE EraseInv'
  BY <1>0, <1>5, DeletionsNameDocuments DEF EraseDocument, Holds, DocDeletes
<1>6. ASSUME NEW r \in Requests, DeleteFile(r) PROVE EraseInv'
  BY <1>0, <1>6 DEF DeleteFile, Holds
<1>7. ASSUME NEW r \in Requests, FindDocument(r) \/ InsertLink(r) \/ Unlink(r)
      PROVE EraseInv'
  BY <1>0, <1>7 DEF FindDocument, InsertLink, Unlink, Holds, NotDeleting
<1>8. ASSUME NEW r \in Requests, DeleteLinks(r) \/ DeleteItem(r) PROVE EraseInv'
  BY <1>0, <1>8 DEF DeleteLinks, DeleteItem, Holds, NotDeleting
<1>9. ASSUME NEW r \in Requests,
             \/ ReadLinks(r)
             \/ \E d \in DocIds : FindLinkedDocument(r, d)
             \/ PresentLinked(r)
      PROVE EraseInv'
  BY <1>0, <1>9 DEF ReadLinks, FindLinkedDocument, PresentLinked, Holds, NotDeleting
<1>10. ASSUME NEW r \in Requests, LogAndRespond(r) \/ DatabaseError(r) PROVE EraseInv'
  BY <1>0, <1>10 DEF LogAndRespond, DatabaseError, Holds, InFlight
<1>11. CASE Crash
  BY <1>0, <1>11 DEF Crash, InFlight
<1>12. CASE UNCHANGED vars
  BY <1>12 DEF vars
<1>13. CASE \E r \in Requests : Step(r)
  <2>1. PICK r \in Requests : Step(r)
    BY <1>13
  <2>2. QED
    BY <1>1, <1>2, <1>3, <1>4, <1>5, <1>6, <1>7, <1>8, <1>9, <1>10, <2>1 DEF Step
<1>14. QED
  BY <1>11, <1>12, <1>13 DEF Next

\* Of the deletions of a document that have all found it, one is answered 204
\* (the deletedCount that DocumentRepositoryImpl.delete returns decides).
THEOREM OneDeletionSucceeds == Spec => []DocumentDeletedOnce
<1>1. EraseInv => DocumentDeletedOnce
  BY DEF EraseInv, PastErase, DocumentDeletedOnce
<1>2. FileInv /\ FileInv' /\ EraseInv /\ [Next]_vars => EraseInv'
  BY EraseInvNext
<1>3. QED
  BY <1>1, <1>2, FileInvInit, FileInvNext, EraseInvInit, PTL DEF Spec
-----------------------------------------------------------------------------
(* Links.  Between the two writes of DeleteWorkItem the only links of the  *)
(* item are those that NoteLink has told it of.                            *)

LinksInv ==
  /\ links \subseteq ItemIds \X DocIds
  /\ call \in [Requests -> Calls \cup {NoCall}]
  /\ pc \in [Requests -> Awaits]
  /\ since \in [Requests -> SUBSET DocIds]
  /\ \A r \in Requests : pc[r] = "link" => call[r] \in LinkCalls
  /\ \A r \in Requests : pc[r] = "findDocument" => call[r] \in LinkCalls
  /\ \A r \in Requests : pc[r] = "deleteItem" => LinksOf(call[r].item) \subseteq since[r]

LEMMA LinksInvInit == Init => LinksInv
BY DEF Init, LinksInv, NoCall, Awaits

LEMMA LinksInvNext == LinksInv /\ [Next]_vars => LinksInv'
<1> SUFFICES ASSUME LinksInv, [Next]_vars PROVE LinksInv'
  OBVIOUS
<1> USE DEF LinksInv, LinksOf, Awaits, Goto, Answer, store, listing
<1>1. ASSUME NEW r \in Requests, NEW c \in Calls, Begin(r, c) PROVE LinksInv'
  BY <1>1 DEF Begin, FirstAwait, Calls, Uploads, DocDeletes, LinkCalls, ItemCalls
<1>2. ASSUME NEW r \in Requests,
             SaveFile(r) \/ ValidateUpload(r) \/ InsertDocument(r) \/ EraseDocument(r)
      PROVE LinksInv'
  BY <1>2 DEF SaveFile, ValidateUpload, InsertDocument, EraseDocument
<1>3. ASSUME NEW r \in Requests,
             DeleteFile(r) \/ FindDocument(r) \/ LogAndRespond(r) \/ DatabaseError(r)
      PROVE LinksInv'
  BY <1>3 DEF DeleteFile, FindDocument, LogAndRespond, DatabaseError
<1>4. ASSUME NEW r \in Requests, InsertLink(r) PROVE LinksInv'
  <2>1. call[r].item \in ItemIds /\ call[r].doc \in DocIds
    BY <1>4 DEF InsertLink, LinkCalls
  <2>2. CASE Pair(r) \in links
    BY <1>4, <2>2 DEF InsertLink
  <2>3. CASE Pair(r) \notin links
    <3>1. /\ links' = links \cup {<<call[r].item, call[r].doc>>}
          /\ NoteLink(call[r].item, call[r].doc)
          /\ pc' = [pc EXCEPT ![r] = "audit"]
          /\ UNCHANGED call
      BY <1>4, <2>3 DEF InsertLink, Pair
    <3>2. ASSUME NEW q \in Requests, pc'[q] = "deleteItem"
          PROVE  LinksOf(call[q].item)' \subseteq since'[q]
      BY <2>1, <3>1, <3>2 DEF NoteLink
    <3>3. since' \in [Requests -> SUBSET DocIds]
      BY <2>1, <3>1 DEF NoteLink
    <3>4. links' \subseteq ItemIds \X DocIds
      BY <2>1, <3>1
    <3>5. /\ call' \in [Requests -> Calls \cup {NoCall}]
          /\ pc' \in [Requests -> Awaits]
          /\ \A q \in Requests : pc'[q] \in {"link", "findDocument"} => call'[q] \in LinkCalls
      BY <3>1
    <3>6. QED
      BY <3>2, <3>3, <3>4, <3>5
  <2>4. QED
    BY <2>2, <2>3
<1>5. ASSUME NEW r \in Requests, Unlink(r) PROVE LinksInv'
  BY <1>5 DEF Unlink
<1>6. ASSUME NEW r \in Requests, DeleteLinks(r) PROVE LinksInv'
  BY <1>6 DEF DeleteLinks
<1>7. ASSUME NEW r \in Requests, DeleteItem(r) PROVE LinksInv'
  BY <1>7 DEF DeleteItem
<1>8. ASSUME NEW r \in Requests,
             \/ ReadLinks(r)
             \/ \E d \in DocIds : FindLinkedDocument(r, d)
             \/ PresentLinked(r)
      PROVE LinksInv'
  BY <1>8 DEF ReadLinks, FindLinkedDocument, PresentLinked
<1>9. CASE Crash
  BY <1>9 DEF Crash, InFlight
<1>10. CASE UNCHANGED vars
  BY <1>10 DEF vars
<1>11. CASE \E r \in Requests : Step(r)
  <2>1. PICK r \in Requests : Step(r)
    BY <1>11
  <2>2. QED
    BY <1>1, <1>2, <1>3, <1>4, <1>5, <1>6, <1>7, <1>8, <2>1 DEF Step
<1>12. QED
  BY <1>9, <1>10, <1>11 DEF Next

\* A work item is deleted without the links it had when DeleteWorkItem deleted
\* them: what is left was linked by an overlapping LinkDocument.
THEOREM DeletionLeavesOnlyLaterLinks == Spec => DeletedItemLosesItsLinks
<1> DEFINE Lost ==
      \A i \in ItemIds :
        item[i] = "stored" /\ item'[i] = "deleted" =>
          \E r \in Requests : /\ pc[r] = "deleteItem" /\ call[r].item = i
                              /\ LinksOf(i) \subseteq since[r]
<1>1. LinksInv /\ [Next]_vars => [Lost]_vars
  <2> SUFFICES ASSUME LinksInv, Next PROVE Lost
    OBVIOUS
  <2>1. ASSUME NEW r \in Requests, DeleteItem(r) PROVE Lost
    BY <2>1 DEF DeleteItem, LinksInv
  <2>2. CASE UNCHANGED item
    BY <2>2
  <2>3. CASE \E r \in Requests : Step(r)
    <3>1. PICK r \in Requests : Step(r)
      BY <2>3
    <3>2. DeleteItem(r) \/ UNCHANGED item
      BY <3>1 DEF Step, store, Begin, SaveFile, ValidateUpload, InsertDocument,
             EraseDocument, DeleteFile, FindDocument, InsertLink, Unlink, DeleteLinks,
             ReadLinks, FindLinkedDocument, PresentLinked, LogAndRespond, DatabaseError
    <3>3. QED
      BY <2>1, <2>2, <3>2
  <2>4. CASE Crash
    BY <2>2, <2>4 DEF Crash, store
  <2>5. QED
    BY <2>3, <2>4 DEF Next
<1>2. QED
  BY <1>1, LinksInvInit, LinksInvNext, PTL DEF Spec, DeletedItemLosesItsLinks
-----------------------------------------------------------------------------
(* Which operations are suspended at which await.                          *)

OpFits(r) ==
  /\ pc[r] = "new" => call[r] = NoCall
  /\ pc[r] \in {"save", "validate", "insert"} => call[r].op = "upload"
  /\ pc[r] \in {"erase", "deleteFile"} => call[r].op = "deleteDocument"
  /\ pc[r] \in {"findDocument", "link"} => call[r].op = "link"
  /\ pc[r] = "unlink" => call[r].op = "unlink"
  /\ pc[r] \in {"deleteLinks", "deleteItem"} => call[r].op = "deleteItem"
  /\ pc[r] \in {"readLinks", "findDocuments"} => call[r].op = "list"
  /\ pc[r] = "audit" => call[r].op # "list"

OpsFit == \A r \in Requests : OpFits(r)

BaseInv == FileInv /\ EraseInv /\ LinksInv /\ OpsFit

LEMMA OpsOfCalls ==
  /\ \A c \in Uploads : c.op = "upload"
  /\ \A c \in DocDeletes : c.op = "deleteDocument" /\ c.doc \in DocIds
  /\ \A c \in LinkCalls : c.op \in {"link", "unlink"} /\ c.item \in ItemIds /\ c.doc \in DocIds
  /\ \A c \in ItemCalls : c.op \in {"deleteItem", "list"} /\ c.item \in ItemIds
  /\ \A c \in Calls \cup {NoCall} :
       /\ c.op \in {"link", "unlink"} => c \in LinkCalls
       /\ c.op \in {"deleteItem", "list"} => c \in ItemCalls
       /\ c.op = "deleteDocument" => c \in DocDeletes
BY DEF Calls, Uploads, DocDeletes, LinkCalls, ItemCalls, NoCall

LEMMA OpsFitNext == FileInv /\ OpsFit /\ [Next]_vars => OpsFit'
<1> SUFFICES ASSUME FileInv, OpsFit, [Next]_vars PROVE OpsFit'
  OBVIOUS
<1> USE DEF OpsFit, OpFits, Goto, Answer, store, listing
<1>0. /\ pc \in [Requests -> Awaits] /\ call \in [Requests -> Calls \cup {NoCall}]
  BY DEF FileInv
<1>1. ASSUME NEW r \in Requests, NEW c \in Calls, Begin(r, c) PROVE OpsFit'
  <2>1. /\ call' = [call EXCEPT ![r] = c]
        /\ \/ pc' = [pc EXCEPT ![r] = FirstAwait(c)]
           \/ pc' = [pc EXCEPT ![r] = "done"]
    BY <1>1 DEF Begin
  <2>2. c.op \in {"upload", "deleteDocument", "link", "unlink", "deleteItem", "list"}
    BY OpsOfCalls DEF Calls
  <2>3. QED
    BY <1>0, <2>1, <2>2 DEF FirstAwait
<1>2. ASSUME NEW r \in Requests,
             SaveFile(r) \/ ValidateUpload(r) \/ InsertDocument(r) \/ EraseDocument(r)
      PROVE OpsFit'
  BY <1>0, <1>2 DEF SaveFile, ValidateUpload, InsertDocument, EraseDocument
<1>3. ASSUME NEW r \in Requests,
             DeleteFile(r) \/ FindDocument(r) \/ InsertLink(r) \/ Unlink(r)
      PROVE OpsFit'
  BY <1>0, <1>3 DEF DeleteFile, FindDocument, InsertLink, Unlink
<1>4. ASSUME NEW r \in Requests,
             \/ DeleteLinks(r) \/ DeleteItem(r) \/ ReadLinks(r)
             \/ \E d \in DocIds : FindLinkedDocument(r, d)
             \/ PresentLinked(r)
      PROVE OpsFit'
  BY <1>0, <1>4 DEF DeleteLinks, DeleteItem, ReadLinks, FindLinkedDocument, PresentLinked
<1>5. ASSUME NEW r \in Requests, LogAndRespond(r) \/ DatabaseError(r) PROVE OpsFit'
  BY <1>0, <1>5 DEF LogAndRespond, DatabaseError
<1>6. CASE Crash
  BY <1>0, <1>6 DEF Crash, InFlight
<1>7. CASE UNCHANGED vars
  BY <1>7 DEF vars
<1>8. CASE \E r \in Requests : Step(r)
  <2>1. PICK r \in Requests : Step(r)
    BY <1>8
  <2>2. QED
    BY <1>1, <1>2, <1>3, <1>4, <1>5, <2>1 DEF Step
<1>9. QED
  BY <1>6, <1>7, <1>8 DEF Next

LEMMA BaseAlways == Spec => []BaseInv
<1>1. Init => BaseInv
  BY FileInvInit, EraseInvInit, LinksInvInit DEF BaseInv, Init, OpsFit, OpFits
<1>2. BaseInv /\ [Next]_vars => BaseInv'
  BY FileInvNext, EraseInvNext, LinksInvNext, OpsFitNext DEF BaseInv
<1>3. QED
  BY <1>1, <1>2, PTL DEF Spec

\* Documents are born once and deleted for good.
LEMMA DocumentsOnlyAdvance ==
  ASSUME BaseInv, [Next]_vars, NEW d \in DocIds
  PROVE  /\ doc[d] # "unborn" => doc'[d] # "unborn"
         /\ doc[d] = "deleted" => doc'[d] = "deleted"
<1> USE DEF BaseInv, FileInv, Holds, store
<1>1. ASSUME NEW r \in Requests, InsertDocument(r)
      PROVE  doc'[d] = doc[d] \/ doc[d] = "unborn"
  BY <1>1 DEF InsertDocument
<1>2. ASSUME NEW r \in Requests, EraseDocument(r)
      PROVE  doc'[d] = doc[d] \/ (doc[d] = "stored" /\ doc'[d] = "deleted")
  BY <1>2 DEF EraseDocument
<1>3. CASE UNCHANGED doc
  BY <1>3
<1>4. CASE \E r \in Requests : Step(r)
  <2>1. PICK r \in Requests : Step(r)
    BY <1>4
  <2>2. InsertDocument(r) \/ EraseDocument(r) \/ UNCHANGED doc
    BY <2>1 DEF Step, Begin, SaveFile, ValidateUpload, DeleteFile, FindDocument, InsertLink,
                Unlink, DeleteLinks, DeleteItem, ReadLinks, FindLinkedDocument, PresentLinked,
                LogAndRespond, DatabaseError
  <2>3. QED
    BY <1>1, <1>2, <1>3, <2>2
<1>5. QED
  BY <1>3, <1>4 DEF Next, Crash, vars

-----------------------------------------------------------------------------
(* Files without a document.  The request that stored the file, or deleted *)
(* the document, still has it in hand, or ended without a success.         *)

Spoilt(r) == pc[r] = "done" /\ outcome[r] \in {"refused", "failed", "lost"}

LeftByUpload(r, d) ==
  target[r] = d /\ (pc[r] \in {"validate", "insert"} \/ Spoilt(r))

LeftByDeletion(r, d) ==
  /\ call[r].op = "deleteDocument" /\ call[r].doc = d
  /\ pc[r] \in {"audit", "deleteFile"} \/ Spoilt(r)

Explained(d) ==
  file[d] = "stored" =>
    /\ doc[d] = "unborn" => \E r \in Requests : LeftByUpload(r, d)
    /\ doc[d] = "deleted" => d \in kept \/ \E r \in Requests : LeftByDeletion(r, d)

OrphanInv == kept \subseteq DocIds /\ \A d \in DocIds : Explained(d)

LEMMA OrphanInvNext == BaseInv /\ OrphanInv /\ [Next]_vars => OrphanInv'
<1> SUFFICES ASSUME BaseInv, OrphanInv, [Next]_vars PROVE OrphanInv'
  OBVIOUS
<1> USE DEF OrphanInv, Explained, LeftByUpload, LeftByDeletion, Spoilt, Goto, Answer,
            store, listing
<1>0. /\ doc \in [DocIds -> States] /\ file \in [DocIds -> States]
      /\ pc \in [Requests -> Awaits] /\ call \in [Requests -> Calls \cup {NoCall}]
      /\ target \in [Requests -> DocIds \cup {"none"}]
      /\ outcome \in [Requests -> {"none", "ok", "refused", "notFound", "failed", "lost"}]
      /\ \A r \in Requests : OpFits(r) /\ Holds(r)
      /\ \A r \in Requests : pc[r] # "done" => outcome[r] = "none"
  BY DEF BaseInv, FileInv, EraseInv, OpsFit
<1>1. ASSUME NEW r \in Requests, NEW c \in Calls, Begin(r, c) PROVE OrphanInv'
  <2>1. pc[r] = "new" /\ pc' = [pc EXCEPT ![r] = pc'[r]]
        /\ call' = [call EXCEPT ![r] = c] /\ UNCHANGED <<store, target, kept>>
        /\ \A q \in Requests \ {r} : outcome'[q] = outcome[q]
    BY <1>0, <1>1 DEF Begin
  <2>2. ASSUME NEW q \in Requests, NEW d \in DocIds
        PROVE  /\ LeftByUpload(q, d) => LeftByUpload(q, d)'
               /\ LeftByDeletion(q, d) => LeftByDeletion(q, d)'
    BY <1>0, <2>1
  <2>3. QED
    BY <2>1, <2>2
<1>2. ASSUME NEW r \in Requests, SaveFile(r) PROVE OrphanInv'
  <2>1. PICK d \in DocIds :
          /\ file[d] = "unborn" /\ target' = [target EXCEPT ![r] = d]
          /\ file' = [file EXCEPT ![d] = "stored"] \/ UNCHANGED file
          /\ \/ pc' = [pc EXCEPT ![r] = "validate"] /\ UNCHANGED outcome
             \/ pc' = [pc EXCEPT ![r] = "done"] /\ outcome' = [outcome EXCEPT ![r] = "failed"]
          /\ \A q \in Requests : target[q] # d
    BY <1>2 DEF SaveFile
  <2>2. doc' = doc /\ kept' = kept /\ call' = call /\ pc[r] = "save" /\ target'[r] = d
    BY <1>0, <1>2, <2>1 DEF SaveFile
  <2>3. doc[d] = "unborn"
    BY <2>1 DEF BaseInv, FileInv
  <2>4. LeftByUpload(r, d)'
    BY <1>0, <2>1, <2>2
  <2>5. ASSUME NEW q \in Requests, NEW e \in DocIds, e # d
        PROVE  /\ LeftByUpload(q, e) => LeftByUpload(q, e)'
               /\ LeftByDeletion(q, e) => LeftByDeletion(q, e)'
    BY <1>0, <2>1, <2>2, <2>5
  <2>6. ASSUME NEW e \in DocIds, e # d PROVE file'[e] = file[e]
    BY <1>0, <2>1, <2>6
  <2>7. QED
    BY <2>2, <2>3, <2>4, <2>5, <2>6
<1>3. ASSUME NEW r \in Requests, ValidateUpload(r) PROVE OrphanInv'
  BY <1>0, <1>3 DEF ValidateUpload, OpFits
<1>4. ASSUME NEW r \in Requests, InsertDocument(r) PROVE OrphanInv'
  BY <1>0, <1>4 DEF InsertDocument, OpFits, Holds
<1>5. ASSUME NEW r \in Requests, EraseDocument(r) PROVE OrphanInv'
  BY <1>0, <1>5, OpsOfCalls DEF EraseDocument, OpFits
<1>6. ASSUME NEW r \in Requests, DeleteFile(r) PROVE OrphanInv'
  BY <1>0, <1>6, OpsOfCalls DEF DeleteFile, OpFits
<1>7. ASSUME NEW r \in Requests, FindDocument(r) \/ InsertLink(r) \/ Unlink(r)
      PROVE OrphanInv'
  BY <1>0, <1>7 DEF FindDocument, InsertLink, Unlink, OpFits
<1>8. ASSUME NEW r \in Requests, DeleteLinks(r) \/ DeleteItem(r) PROVE OrphanInv'
  BY <1>0, <1>8 DEF DeleteLinks, DeleteItem, OpFits
<1>9. ASSUME NEW r \in Requests,
             \/ ReadLinks(r)
             \/ \E d \in DocIds : FindLinkedDocument(r, d)
             \/ PresentLinked(r)
      PROVE OrphanInv'
  BY <1>0, <1>9 DEF ReadLinks, FindLinkedDocument, PresentLinked, OpFits
<1>10. ASSUME NEW r \in Requests, LogAndRespond(r) \/ DatabaseError(r) PROVE OrphanInv'
  BY <1>0, <1>10 DEF LogAndRespond, DatabaseError, InFlight
<1>11. CASE Crash
  BY <1>0, <1>11 DEF Crash, InFlight
<1>12. CASE UNCHANGED vars
  BY <1>12 DEF vars
<1>13. CASE \E r \in Requests : Step(r)
  <2>1. PICK r \in Requests : Step(r)
    BY <1>13
  <2>2. QED
    BY <1>1, <1>2, <1>3, <1>4, <1>5, <1>6, <1>7, <1>8, <1>9, <1>10, <2>1 DEF Step
<1>14. QED
  BY <1>11, <1>12, <1>13 DEF Next

LEMMA OrphanInvAlways == Spec => []OrphanInv
<1>1. Init => OrphanInv
  BY DEF Init, OrphanInv, Explained
<1>2. BaseInv /\ OrphanInv /\ [Next]_vars => OrphanInv'
  BY OrphanInvNext
<1>3. QED
  BY <1>1, <1>2, BaseAlways, PTL DEF Spec

\* A file without a document is the doing of an upload or deletion that is in
\* flight or did not succeed, or of a failed DeleteObject (OrphanFilesExplained).
THEOREM OrphansExplained == Spec => []OrphanFilesExplained
<1>1. BaseInv /\ OrphanInv => OrphanFilesExplained
  BY DEF BaseInv, FileInv, States, OrphanInv, Explained, LeftByUpload, LeftByDeletion,
         Spoilt, OrphanFilesExplained, WorksOn, InFlight
<1>2. QED
  BY <1>1, BaseAlways, OrphanInvAlways, PTL

-----------------------------------------------------------------------------
(* Links, again.  A request that has inserted a link either still finds it *)
(* there or has been followed by one that removes it: so of two that have  *)
(* inserted the same pair, the second came after such a removal.           *)

Removed(l) == \E p \in Requests : MayHaveRemoved(p, l)

HasLinked(r) == call[r].op = "link" /\ (pc[r] = "audit" \/ outcome[r] = "ok")

PairsInv ==
  /\ \A r \in Requests : HasLinked(r) => Pair(r) \in links \/ Removed(Pair(r))
  /\ \A r, q \in Requests :
       r # q /\ HasLinked(r) /\ HasLinked(q) /\ call[q] = call[r] => Removed(Pair(r))

\* A request that has removed a link has done so for good.
LEMMA RemovedStays ==
  ASSUME BaseInv, [Next]_vars, NEW l, Removed(l)
  PROVE  Removed(l)'
<1>1. PICK p \in Requests : MayHaveRemoved(p, l)
  BY DEF Removed
<1> USE DEF MayHaveRemoved, OpFits, Goto, Answer, store, listing
<1>2. /\ pc \in [Requests -> Awaits] /\ call \in [Requests -> Calls \cup {NoCall}]
      /\ outcome \in [Requests -> {"none", "ok", "refused", "notFound", "failed", "lost"}]
      /\ OpFits(p) /\ pc[p] # "new"
  BY <1>1 DEF BaseInv, FileInv, EraseInv, OpsFit, NoCall
<1>3. ASSUME NEW r \in Requests, Step(r) PROVE MayHaveRemoved(p, l)'
  <2>1. ASSUME NEW c \in Calls, Begin(r, c) PROVE MayHaveRemoved(p, l)'
    BY <1>1, <1>2, <2>1 DEF Begin
  <2>2. CASE SaveFile(r) \/ ValidateUpload(r) \/ InsertDocument(r)
    BY <1>1, <1>2, <2>2 DEF SaveFile, ValidateUpload, InsertDocument
  <2>3. CASE EraseDocument(r) \/ DeleteFile(r)
    BY <1>1, <1>2, <2>3 DEF EraseDocument, DeleteFile
  <2>4. CASE FindDocument(r) \/ InsertLink(r) \/ Unlink(r)
    BY <1>1, <1>2, <2>4 DEF FindDocument, InsertLink, Unlink
  <2>5. CASE DeleteLinks(r) \/ DeleteItem(r)
    BY <1>1, <1>2, <2>5 DEF DeleteLinks, DeleteItem
  <2>6. CASE ReadLinks(r) \/ (\E d \in DocIds : FindLinkedDocument(r, d)) \/ PresentLinked(r)
    BY <1>1, <1>2, <2>6 DEF ReadLinks, FindLinkedDocument, PresentLinked
  <2>7. CASE LogAndRespond(r) \/ DatabaseError(r)
    BY <1>1, <1>2, <2>7 DEF LogAndRespond, DatabaseError
  <2>8. QED
    BY <1>3, <2>1, <2>2, <2>3, <2>4, <2>5, <2>6, <2>7 DEF Step
<1>4. ASSUME Crash PROVE MayHaveRemoved(p, l)'
  BY <1>1, <1>2, <1>4 DEF Crash
<1>5. ASSUME UNCHANGED vars PROVE MayHaveRemoved(p, l)'
  BY <1>1, <1>5 DEF vars
<1>6. MayHaveRemoved(p, l)'
  BY <1>3, <1>4, <1>5 DEF Next
<1>7. QED
  BY <1>6 DEF Removed

\* Whose link is there after a step: the one who inserts it now, or somebody who
\* had inserted it before.
LEMMA LinkedBefore ==
  ASSUME BaseInv, [Next]_vars, NEW r \in Requests, HasLinked(r)'
  PROVE  \/ HasLinked(r) /\ call'[r] = call[r]
         \/ /\ InsertLink(r) /\ Pair(r) \notin links
            /\ call' = call /\ Pair(r) \in links'
            /\ \A q \in Requests \ {r} : HasLinked(q)' => HasLinked(q)
<1> USE DEF HasLinked, OpFits, Goto, Answer, store, listing
<1>0. /\ pc \in [Requests -> Awaits] /\ call \in [Requests -> Calls \cup {NoCall}]
      /\ outcome \in [Requests -> {"none", "ok", "refused", "notFound", "failed", "lost"}]
      /\ \A q \in Requests : OpFits(q) /\ (pc[q] # "done" => outcome[q] = "none")
  BY DEF BaseInv, FileInv, EraseInv, OpsFit
<1>1. ASSUME NEW q \in Requests, InsertLink(q), q # r
      PROVE  HasLinked(r) /\ call'[r] = call[r]
  BY <1>0, <1>1 DEF InsertLink
<1>2. ASSUME InsertLink(r)
      PROVE  /\ Pair(r) \notin links /\ call' = call /\ Pair(r) \in links'
             /\ \A q \in Requests \ {r} : HasLinked(q)' => HasLinked(q)
  <2>1. Pair(r) \notin links
    BY <1>0, <1>2 DEF InsertLink
  <2>2. QED
    BY <1>0, <1>2, <2>1 DEF InsertLink
<1>3. ASSUME NEW q \in Requests, Step(q), ~ InsertLink(q)
      PROVE  HasLinked(r) /\ call'[r] = call[r]
  <2>1. ASSUME NEW c \in Calls, Begin(q, c) PROVE HasLinked(r) /\ call'[r] = call[r]
    BY <1>0, <2>1 DEF Begin, FirstAwait, Calls, Uploads, DocDeletes, LinkCalls, ItemCalls
  <2>2. CASE SaveFile(q) \/ ValidateUpload(q) \/ InsertDocument(q)
    BY <1>0, <2>2 DEF SaveFile, ValidateUpload, InsertDocument
  <2>3. CASE EraseDocument(q) \/ DeleteFile(q)
    BY <1>0, <2>3 DEF EraseDocument, DeleteFile
  <2>4. CASE FindDocument(q) \/ Unlink(q)
    BY <1>0, <2>4 DEF FindDocument, Unlink
  <2>5. CASE DeleteLinks(q) \/ DeleteItem(q)
    BY <1>0, <2>5 DEF DeleteLinks, DeleteItem
  <2>6. CASE ReadLinks(q) \/ (\E d \in DocIds : FindLinkedDocument(q, d)) \/ PresentLinked(q)
    BY <1>0, <2>6 DEF ReadLinks, FindLinkedDocument, PresentLinked
  <2>7. CASE LogAndRespond(q) \/ DatabaseError(q)
    BY <1>0, <2>7 DEF LogAndRespond, DatabaseError
  <2>8. QED
    BY <1>3, <2>1, <2>2, <2>3, <2>4, <2>5, <2>6, <2>7 DEF Step
<1>4. CASE Crash
  BY <1>0, <1>4 DEF Crash, InFlight
<1>5. CASE UNCHANGED vars
  BY <1>5 DEF vars
<1>6. QED
  BY <1>1, <1>2, <1>3, <1>4, <1>5 DEF Next

\* A link disappears only with a request that removes it.
LEMMA LinksAreRemoved ==
  ASSUME BaseInv, [Next]_vars, NEW i \in ItemIds, NEW d \in DocIds,
         <<i, d>> \in links, <<i, d>> \notin links'
  PROVE  Removed(<<i, d>>)'
<1> USE DEF Removed, MayHaveRemoved, OpFits, Pair, Goto, Answer, store, listing
<1>0. /\ pc \in [Requests -> Awaits] /\ call \in [Requests -> Calls \cup {NoCall}]
      /\ \A q \in Requests : OpFits(q) /\ (pc[q] # "done" => outcome[q] = "none")
  BY DEF BaseInv, FileInv, EraseInv, OpsFit
<1>1. PICK r \in Requests : Unlink(r) \/ DeleteLinks(r)
  <2>1. ~ UNCHANGED links
    OBVIOUS
  <2>2. PICK r \in Requests : Step(r)
    BY <2>1 DEF Next, Crash, vars
  <2>3. ~ InsertLink(r)
    BY DEF InsertLink
  <2>4. Unlink(r) \/ DeleteLinks(r)
    BY <2>1, <2>2, <2>3
       DEF Step, Begin, SaveFile, ValidateUpload, InsertDocument, EraseDocument, DeleteFile,
           FindDocument, DeleteItem, ReadLinks, FindLinkedDocument, PresentLinked,
           LogAndRespond, DatabaseError
  <2>5. QED
    BY <2>4
<1>2. CASE Unlink(r)
  <2>1. call[r].item = i /\ call[r].doc = d /\ call[r].op = "unlink"
    BY <1>0, <1>2 DEF Unlink
  <2>2. call' = call /\ pc'[r] = "audit" /\ outcome'[r] = "none"
    BY <1>0, <1>2, <2>1 DEF Unlink
  <2>3. MayHaveRemoved(r, <<i, d>>)'
    BY <2>1, <2>2
  <2>4. QED
    BY <2>3
<1>3. CASE DeleteLinks(r)
  <2>1. call[r].item = i /\ call[r].op = "deleteItem"
    BY <1>0, <1>3 DEF DeleteLinks
  <2>2. call' = call /\ pc'[r] = "deleteItem" /\ outcome'[r] = "none"
    BY <1>0, <1>3 DEF DeleteLinks
  <2>3. MayHaveRemoved(r, <<i, d>>)'
    BY <2>1, <2>2
  <2>4. QED
    BY <2>3
<1>4. QED
  BY <1>1, <1>2, <1>3

LEMMA PairsInvNext == BaseInv /\ PairsInv /\ [Next]_vars => PairsInv'
<1> SUFFICES ASSUME BaseInv, PairsInv, [Next]_vars PROVE PairsInv'
  OBVIOUS
<1>0. \A r \in Requests :
        HasLinked(r) => /\ call[r].item \in ItemIds /\ call[r].doc \in DocIds
                        /\ Pair(r) = <<call[r].item, call[r].doc>>
  BY OpsOfCalls DEF HasLinked, BaseInv, FileInv, Pair
<1>1. ASSUME NEW r \in Requests, HasLinked(r)'
      PROVE  (Pair(r) \in links \/ Removed(Pair(r)))'
  <2>1. CASE HasLinked(r) /\ call'[r] = call[r]
    <3>1. Pair(r)' = Pair(r)
      BY <2>1 DEF Pair
    <3>2. CASE Removed(Pair(r))
      BY <3>1, <3>2, RemovedStays
    <3>3. CASE Pair(r) \in links
      BY <1>0, <2>1, <3>1, <3>3, LinksAreRemoved
    <3>4. QED
      BY <2>1, <3>2, <3>3 DEF PairsInv
  <2>2. CASE call' = call /\ Pair(r) \in links'
    BY <2>2 DEF Pair
  <2>3. QED
    BY <1>1, <2>1, <2>2, LinkedBefore
<1>2. ASSUME NEW r \in Requests, NEW q \in Requests, r # q,
             HasLinked(r)', HasLinked(q)', (call[q] = call[r])'
      PROVE  Removed(Pair(r))'
\* Both had inserted the pair, or one of them found the other's link gone.
  <2>1. CASE HasLinked(r) /\ HasLinked(q) /\ call'[r] = call[r] /\ call'[q] = call[q]
    <3>1. Removed(Pair(r)) /\ Pair(r)' = Pair(r)
      BY <1>2, <2>1 DEF PairsInv, Pair
    <3>2. QED
      BY <3>1, RemovedStays
  <2>2. ASSUME NEW a \in Requests, NEW b \in Requests, Pair(a) \notin links, call' = call,
               HasLinked(b), call[a] = call[b]
        PROVE  Removed(Pair(a))' /\ Removed(Pair(b))'
    <3>1. Pair(a) = Pair(b) /\ Pair(a)' = Pair(a) /\ Pair(b)' = Pair(b)
      BY <2>2 DEF Pair
    <3>2. Removed(Pair(b))
      BY <2>2, <3>1 DEF PairsInv
    <3>3. QED
      BY <3>1, <3>2, RemovedStays
  <2>3. QED
    BY <1>2, <2>1, <2>2, LinkedBefore
<1>3. QED
  BY <1>1, <1>2 DEF PairsInv

\* Two requests to link the same pair are not both answered 200, unless a third
\* one removed the link in between (LinkedOnce; the unique index decides).
THEOREM LinkedOnceAlways == Spec => []LinkedOnce
<1>1. Init => PairsInv
  BY DEF Init, PairsInv, HasLinked, NoCall
<1>2. BaseInv /\ PairsInv /\ [Next]_vars => PairsInv'
  BY PairsInvNext
<1>3. PairsInv => LinkedOnce
  BY DEF PairsInv, HasLinked, Removed, LinkedOnce
<1>4. QED
  BY <1>1, <1>2, <1>3, BaseAlways, PTL DEF Spec

-----------------------------------------------------------------------------
(* What requests and links name has been uploaded, and stays uploaded or   *)
(* deleted: so a document that GetLinkedDocuments did not find is gone.    *)

Named(c) == c \in DocDeletes \cup LinkCalls => doc[c.doc] # "unborn"

Lists(r) ==
  /\ pc[r] \in {"new", "readLinks"} => linked[r] = {}
  /\ found[r] \subseteq checked[r] /\ checked[r] \subseteq linked[r]
  /\ \A d \in linked[r] : doc[d] # "unborn"
  /\ \A d \in checked[r] : doc[d] = "stored" => d \in found[r]
  /\ call[r].op = "list" /\ outcome[r] = "ok" => checked[r] = linked[r]

ListInv ==
  /\ linked \in [Requests -> SUBSET DocIds]
  /\ checked \in [Requests -> SUBSET DocIds]
  /\ found \in [Requests -> SUBSET DocIds]
  /\ \A i \in ItemIds, d \in DocIds : <<i, d>> \in links => doc[d] # "unborn"
  /\ \A r \in Requests : Named(call[r]) /\ Lists(r)

LEMMA ListInvInit == Init => ListInv
BY DEF Init, ListInv, Named, Lists, NoCall, DocDeletes, LinkCalls

\* Steps that leave the lists alone: what they store and answer has to fit.
LEMMA ListsKept ==
  ASSUME BaseInv, ListInv, [Next]_vars, UNCHANGED listing,
         \A r \in Requests : call'[r] = call[r] \/ Named(call'[r]),
         \A i \in ItemIds, d \in DocIds :
           <<i, d>> \in links' => <<i, d>> \in links \/ doc[d] # "unborn",
         \A r \in Requests :
           /\ pc'[r] \in {"new", "readLinks"} => pc[r] \in {"new", "readLinks"}
           /\ call'[r].op = "list" /\ outcome'[r] = "ok" => checked[r] = linked[r]
  PROVE  ListInv'
<1>1. \A d \in DocIds :
        /\ doc[d] # "unborn" => doc'[d] # "unborn"
        /\ doc[d] # "unborn" /\ doc'[d] = "stored" => doc[d] = "stored"
  BY DocumentsOnlyAdvance DEF BaseInv, FileInv, States
<1>2. \A c : Named(c) => Named(c)'
  BY <1>1, OpsOfCalls DEF Named
<1>3. ASSUME NEW r \in Requests PROVE Lists(r)'
  <2>1. linked' = linked /\ checked' = checked /\ found' = found
    BY DEF listing
  <2>2. checked[r] \subseteq linked[r] /\ linked[r] \subseteq DocIds
    BY DEF ListInv, Lists
  <2>3. Lists(r)
    BY DEF ListInv
  <2>4. QED
    BY <1>1, <2>1, <2>2, <2>3 DEF Lists
<1>4. QED
  BY <1>1, <1>2, <1>3 DEF ListInv, listing

\* A request moves only its own list.
LEMMA OwnListMoves ==
  ASSUME BaseInv, ListInv, NEW r \in Requests,
         UNCHANGED <<store, call>>,
         \A q \in Requests \ {r} :
           /\ pc'[q] = pc[q] /\ outcome'[q] = outcome[q]
           /\ linked'[q] = linked[q] /\ checked'[q] = checked[q] /\ found'[q] = found[q],
         linked' \in [Requests -> SUBSET DocIds],
         checked' \in [Requests -> SUBSET DocIds],
         found' \in [Requests -> SUBSET DocIds],
         Lists(r)'
  PROVE  ListInv'
<1>1. doc' = doc /\ links' = links /\ call' = call
  BY DEF store
<1>2. ASSUME NEW q \in Requests PROVE Named(call[q])' /\ Lists(q)'
  <2>1. CASE q = r
    BY <1>1, <2>1 DEF ListInv, Named
  <2>2. CASE q # r
    <3>1. Lists(q) /\ Named(call[q])
      BY DEF ListInv
    <3>2. QED
      BY <1>1, <2>2, <3>1 DEF Lists, Named
  <2>3. QED
    BY <2>1, <2>2
<1>3. QED
  BY <1>1, <1>2 DEF ListInv

LEMMA ListInvNext == BaseInv /\ ListInv /\ [Next]_vars => ListInv'
<1> SUFFICES ASSUME BaseInv, ListInv, [Next]_vars PROVE ListInv'
  OBVIOUS
<1> USE DEF Goto, Answer, store, listing
<1>0. /\ pc \in [Requests -> Awaits] /\ call \in [Requests -> Calls \cup {NoCall}]
      /\ outcome \in [Requests -> {"none", "ok", "refused", "notFound", "failed", "lost"}]
      /\ \A q \in Requests : OpFits(q) /\ (pc[q] # "done" => outcome[q] = "none")
      /\ \A q \in Requests :
           call[q].op = "list" /\ outcome[q] = "ok" => checked[q] = linked[q]
      /\ linked \in [Requests -> SUBSET DocIds]
      /\ checked \in [Requests -> SUBSET DocIds]
      /\ found \in [Requests -> SUBSET DocIds]
  BY DEF BaseInv, FileInv, EraseInv, OpsFit, ListInv, Lists
<1>1. ASSUME NEW r \in Requests, NEW c \in Calls, Begin(r, c) PROVE ListInv'
  <2>1. Named(c) /\ c.op # "none"
    BY <1>1, OpsOfCalls DEF Begin, Named, Calls
  <2>2. /\ UNCHANGED <<links, listing>> /\ call' = [call EXCEPT ![r] = c]
        /\ pc[r] = "new" /\ \A q \in Requests : pc'[q] # pc[q] => q = r
        /\ \A q \in Requests : outcome'[q] = outcome[q] \/ outcome'[q] # "ok"
    BY <1>0, <1>1 DEF Begin
  <2>3. \A q \in Requests : call'[q] = call[q] \/ Named(call'[q])
    BY <1>0, <2>1, <2>2
  <2>4. QED
    BY <1>0, <2>2, <2>3, ListsKept
<1>2. ASSUME NEW r \in Requests,
             SaveFile(r) \/ ValidateUpload(r) \/ InsertDocument(r) \/ EraseDocument(r)
      PROVE  ListInv'
  <2>1. /\ call' = call /\ UNCHANGED <<links, listing>>
        /\ \A q \in Requests : pc'[q] = pc[q] \/ pc'[q] \notin {"new", "readLinks"}
        /\ \A q \in Requests : outcome'[q] = outcome[q] \/ outcome'[q] # "ok"
    BY <1>0, <1>2 DEF SaveFile, ValidateUpload, InsertDocument, EraseDocument
  <2>2. QED
    BY <1>0, <2>1, ListsKept
<1>3. ASSUME NEW r \in Requests,
             DeleteFile(r) \/ FindDocument(r) \/ LogAndRespond(r) \/ DatabaseError(r)
      PROVE  ListInv'
  <2>1. /\ call' = call /\ UNCHANGED <<links, listing>>
        /\ \A q \in Requests : pc'[q] = pc[q] \/ pc'[q] \notin {"new", "readLinks"}
        /\ \A q \in Requests :
             outcome'[q] = outcome[q] \/ outcome'[q] # "ok" \/ call[q].op # "list"
    BY <1>0, <1>3 DEF DeleteFile, FindDocument, LogAndRespond, DatabaseError, OpFits
  <2>2. QED
    BY <1>0, <2>1, ListsKept
<1>4. ASSUME NEW r \in Requests, InsertLink(r) PROVE ListInv'
  <2>1. call[r] \in LinkCalls /\ doc[call[r].doc] # "unborn"
    BY <1>4 DEF InsertLink, BaseInv, LinksInv, ListInv, Named
  <2>2. /\ call' = call /\ UNCHANGED listing
        /\ \A q \in Requests : pc'[q] = pc[q] \/ pc'[q] \notin {"new", "readLinks"}
        /\ \A q \in Requests : outcome'[q] = outcome[q] \/ outcome'[q] # "ok"
        /\ links' = links \/ links' = links \cup {<<call[r].item, call[r].doc>>}
    BY <1>0, <1>4 DEF InsertLink, Pair
  <2>3. \A i \in ItemIds, d \in DocIds :
          <<i, d>> \in links' => <<i, d>> \in links \/ doc[d] # "unborn"
    BY <2>1, <2>2
  <2>4. QED
    BY <1>0, <2>2, <2>3, ListsKept
<1>5. ASSUME NEW r \in Requests, Unlink(r) \/ DeleteLinks(r) \/ DeleteItem(r) PROVE ListInv'
  <2>1. /\ call' = call /\ UNCHANGED listing /\ links' \subseteq links
        /\ \A q \in Requests : pc'[q] = pc[q] \/ pc'[q] \notin {"new", "readLinks"}
        /\ \A q \in Requests : outcome'[q] = outcome[q] \/ outcome'[q] # "ok"
    BY <1>0, <1>5 DEF Unlink, DeleteLinks, DeleteItem
  <2>2. QED
    BY <1>0, <2>1, ListsKept
<1>6. ASSUME NEW r \in Requests, ReadLinks(r) PROVE ListInv'
  <2>1. checked[r] = {} /\ found[r] = {} /\ call[r] \in ItemCalls
    BY <1>0, <1>6, OpsOfCalls DEF ReadLinks, OpFits, ListInv, Lists
  <2>2. \A d \in LinksOf(call[r].item) : d \in DocIds /\ doc[d] # "unborn"
    BY <2>1, OpsOfCalls DEF LinksOf, ListInv
  <2>3. linked'[r] = LinksOf(call[r].item) /\ checked'[r] = {} /\ found'[r] = {}
        /\ pc'[r] = "findDocuments" /\ outcome'[r] = "none" /\ doc' = doc
    BY <1>0, <1>6, <2>1 DEF ReadLinks
  <2>4. Lists(r)'
    BY <2>2, <2>3 DEF Lists
  <2>5. QED
    BY <1>0, <1>6, <2>2, <2>4, OwnListMoves DEF ReadLinks
<1>7. ASSUME NEW r \in Requests, NEW d \in DocIds, FindLinkedDocument(r, d) PROVE ListInv'
  <2>1. /\ checked'[r] = checked[r] \cup {d} /\ d \in linked[r] /\ linked' = linked
        /\ found'[r] = IF doc[d] = "stored" THEN found[r] \cup {d} ELSE found[r]
        /\ pc' = pc /\ outcome'[r] = "none" /\ doc' = doc
        /\ pc[r] = "findDocuments"
    BY <1>0, <1>7 DEF FindLinkedDocument
  <2>2. Lists(r)
    BY DEF ListInv
  <2>3. Lists(r)'
    BY <2>1, <2>2 DEF Lists
  <2>4. QED
    BY <1>0, <1>7, <2>3, OwnListMoves DEF FindLinkedDocument
<1>8. ASSUME NEW r \in Requests, PresentLinked(r) PROVE ListInv'
  <2>1. /\ call' = call /\ UNCHANGED <<links, listing>>
        /\ \A q \in Requests : pc'[q] = pc[q] \/ pc'[q] \notin {"new", "readLinks"}
        /\ \A q \in Requests \ {r} : outcome'[q] = outcome[q]
        /\ checked[r] = linked[r]
    BY <1>0, <1>8 DEF PresentLinked
  <2>2. QED
    BY <1>0, <2>1, ListsKept
<1>9. CASE Crash
  <2>1. /\ call' = call /\ UNCHANGED <<links, listing>>
        /\ \A q \in Requests : pc'[q] = pc[q] \/ pc'[q] \notin {"new", "readLinks"}
        /\ \A q \in Requests : outcome'[q] = outcome[q] \/ outcome'[q] # "ok"
    BY <1>0, <1>9 DEF Crash
  <2>2. QED
    BY <1>0, <2>1, ListsKept
<1>10. CASE UNCHANGED vars
  BY <1>10 DEF vars, ListInv, Named, Lists
<1>11. CASE \E r \in Requests : Step(r)
  <2>1. PICK r \in Requests : Step(r)
    BY <1>11
  <2>2. QED
    BY <1>1, <1>2, <1>3, <1>4, <1>5, <1>6, <1>7, <1>8, <2>1 DEF Step
<1>12. QED
  BY <1>9, <1>10, <1>11 DEF Next

LEMMA ListInvAlways == Spec => []ListInv
BY ListInvInit, ListInvNext, BaseAlways, PTL DEF Spec

\* The answer of GetLinkedDocuments, put together from one query for the links
\* and one for each document, omits a document only if it has been deleted
\* (LinkedListIsComplete).
THEOREM LinkedListsAreComplete == Spec => []LinkedListIsComplete
<1>1. ListInv => LinkedListIsComplete
  BY DEF ListInv, Lists, LinkedListIsComplete
<1>2. QED
  BY <1>1, ListInvAlways, PTL

LEMMA ItemsNext ==
  ASSUME [Next]_vars, item \in [ItemIds -> {"stored", "deleted"}]
  PROVE  item' \in [ItemIds -> {"stored", "deleted"}]
<1>1. ASSUME NEW r \in Requests, Step(r) PROVE item' \in [ItemIds -> {"stored", "deleted"}]
  <2>1. CASE DeleteItem(r)
    BY <2>1 DEF DeleteItem
  <2>2. DeleteItem(r) \/ UNCHANGED item
    BY <1>1 DEF Step, store, Begin, SaveFile, ValidateUpload, InsertDocument,
           EraseDocument, DeleteFile, FindDocument, InsertLink, Unlink, DeleteLinks,
           ReadLinks, FindLinkedDocument, PresentLinked, LogAndRespond, DatabaseError
  <2>3. QED
    BY <2>1, <2>2
<1>2. QED
  BY <1>1 DEF Next, Crash, vars, store

\* Documents, files and links have the shape the code gives them; a link names a
\* document that was uploaded (TypeOK).
THEOREM TypeCorrect == Spec => []TypeOK
<1> DEFINE ItemType == item \in [ItemIds -> {"stored", "deleted"}]
<1>1. Init => ItemType
  BY DEF Init
<1>2. ItemType /\ [Next]_vars => ItemType'
  BY ItemsNext
<1>3. ItemType /\ BaseInv /\ OrphanInv /\ ListInv => TypeOK
  <2> SUFFICES ASSUME ItemType, BaseInv, OrphanInv, ListInv PROVE TypeOK
    OBVIOUS
  <2>1. links \subseteq ItemIds \X {d \in DocIds : doc[d] # "unborn"}
    BY DEF BaseInv, LinksInv, ListInv
  <2>2. \A r \in Requests : found[r] \subseteq checked[r] /\ checked[r] \subseteq linked[r]
    BY DEF ListInv, Lists
  <2>3. QED
    BY <2>1, <2>2 DEF BaseInv, FileInv, EraseInv, LinksInv, OrphanInv, ListInv, TypeOK
<1>4. QED
  BY <1>1, <1>2, <1>3, BaseAlways, OrphanInvAlways, ListInvAlways, PTL DEF Spec
\* When nobody is at work, no request has been refused, has failed or was lost on its
\* way and no DeleteObject failed, the database and the object store agree, although no
\* transaction spans them: what UploadDocument and DeleteDocument do in two writes
\* each has the effect of one, in whatever order requests came.
THEOREM StoresAgreeAtRest ==
  Spec =>
    [](/\ InFlight = {} /\ kept = {}
       /\ \A r \in Requests : outcome[r] \notin {"refused", "failed", "lost"}
       => \A d \in DocIds : doc[d] = "stored" <=> file[d] = "stored")
<1>1. ASSUME StoredDocumentHasItsFile, OrphanFilesExplained, InFlight = {}, kept = {},
             \A r \in Requests : outcome[r] \notin {"refused", "failed", "lost"}
      PROVE  \A d \in DocIds : doc[d] = "stored" <=> file[d] = "stored"
  BY <1>1 DEF StoredDocumentHasItsFile, OrphanFilesExplained
<1>2. QED
  BY <1>1, FilesOutliveDocuments, OrphansExplained, PTL
=============================================================================
