----------------------------- MODULE Publishing -----------------------------
(***************************************************************************)
(* A legal document of the cms: editors read it, replace its draft - under *)
(* an optimistic check of the updated_at they read, if they send one - and *)
(* publish the draft as the next version.                                  *)
(*                                                                         *)
(* A publish locks the document's row and reads everything after that, so  *)
(* it is one step, and so is a save.  updated_at is only ever compared for *)
(* equality; writes of one row do not share a microsecond.                 *)
(***************************************************************************)
EXTENDS Naturals, FiniteSets

CONSTANTS
    Drafts,         \* title and body
    LastVersion,    \* bound: versions ever published
    LastWrite,      \* bound: writes of the document's row
    Editors

ASSUME LastVersionAssumption == LastVersion \in Nat /\ LastWrite \in Nat

VARIABLES
    document,   \* cms.legal_document: draft, current version, updated_at
    version,    \* cms.legal_document_version: text and status
    writes,     \* history: how often the document's row was written
    editor      \* what each editor has read

publishingVars == <<document, version, writes, editor>>

-----------------------------------------------------------------------------
Numbers == 1..LastVersion

NoDraft == "none"
NoVersion == [text |-> NoDraft, status |-> "none"]
NotEditing == [at |-> "idle"]

PublishingInit ==
    /\ document = [draft |-> NoDraft, current |-> 0, updated |-> 0]
    /\ version = [n \in Numbers |-> NoVersion]
    /\ writes = 0
    /\ editor = [e \in Editors |-> NotEditing]

Existing == {n \in Numbers : version[n].status # "none"}
GetNextVersion == Cardinality(Existing) + 1

\* GetLatestPublishedVersion: its text, or nothing.
LatestPublished == {version[n].text : n \in {m \in Numbers :
    /\ version[m].status = "published"
    /\ \A k \in Numbers : version[k].status = "published" => k <= m}}

-----------------------------------------------------------------------------
GetLegalDocument(e) ==
    /\ editor[e] = NotEditing
    /\ editor' = [editor EXCEPT ![e] =
           [at |-> "edit", updated |-> document.updated, writes |-> writes]]
    /\ UNCHANGED <<document, version, writes>>

SetDraft(d) ==
    /\ writes < LastWrite
    /\ writes' = writes + 1
    /\ document' = [document EXCEPT !.draft = d, !.updated = writes + 1]
    /\ UNCHANGED version

\* A save with expected_updated_at: refused if the row was written since.
SaveDraft(e, d) ==
    /\ editor[e].at = "edit"
    /\ document.updated = editor[e].updated
    /\ SetDraft(d)
    /\ editor' = [editor EXCEPT ![e] = NotEditing]

SaveRefused(e) ==
    /\ editor[e].at = "edit"
    /\ document.updated # editor[e].updated
    /\ editor' = [editor EXCEPT ![e] = NotEditing]
    /\ UNCHANGED <<document, version, writes>>

\* A save without it replaces whatever draft there is.
ReplaceDraft(d) == SetDraft(d) /\ UNCHANGED editor

-----------------------------------------------------------------------------
\* Test variants: publishing does not touch updated_at; the versions published
\* before stay published.
PublishUntouched ==
    LET n == GetNextVersion IN
    /\ document.draft \notin {NoDraft} \cup LatestPublished
    /\ n \in Numbers
    /\ version' = [m \in Numbers |->
           IF m = n THEN [text |-> document.draft, status |-> "published"]
           ELSE IF version[m].status = "published"
                THEN [version[m] EXCEPT !.status = "superseded"] ELSE version[m]]
    /\ document' = [document EXCEPT !.draft = NoDraft, !.current = n]
    /\ writes' = writes + 1
    /\ UNCHANGED editor
PublishBeside ==
    LET n == GetNextVersion IN
    /\ document.draft \notin {NoDraft} \cup LatestPublished
    /\ n \in Numbers /\ writes < LastWrite
    /\ version' = [version EXCEPT ![n] = [text |-> document.draft, status |-> "published"]]
    /\ document' = [draft |-> NoDraft, current |-> n, updated |-> writes + 1]
    /\ writes' = writes + 1
    /\ UNCHANGED editor

\* PublishLegalDocumentDraft: no version is created without a draft, nor for
\* one that says what the published version says.
PublishLegalDocumentDraft ==
    LET n == GetNextVersion IN
    /\ document.draft \notin {NoDraft} \cup LatestPublished
    /\ n \in Numbers /\ writes < LastWrite
    /\ version' = [m \in Numbers |->
           IF m = n THEN [text |-> document.draft, status |-> "published"]
           ELSE IF version[m].status = "published"
                THEN [version[m] EXCEPT !.status = "superseded"] ELSE version[m]]
    /\ document' = [draft |-> NoDraft, current |-> n, updated |-> writes + 1]
    /\ writes' = writes + 1
    /\ UNCHANGED editor

PublishingNext ==
    \/ \E e \in Editors :
         GetLegalDocument(e) \/ SaveRefused(e) \/ \E d \in Drafts : SaveDraft(e, d)
    \/ \E d \in Drafts : ReplaceDraft(d)
    \/ PublishLegalDocumentDraft

PublishingSpec == PublishingInit /\ [][PublishingNext]_publishingVars

-----------------------------------------------------------------------------
(* Properties *)

PublishingTypeOK ==
    /\ document \in [draft : Drafts \cup {NoDraft}, current : Nat, updated : Nat]
    /\ version \in [Numbers -> [text : Drafts \cup {NoDraft},
                                status : {"none", "published", "superseded"}]]
    /\ writes \in Nat
    /\ editor \in [Editors -> {NotEditing} \cup [at : {"edit"}, updated : Nat, writes : Nat]]

\* A save that sends the updated_at it read never overwrites a draft, nor
\* follows a publish, that its editor has not seen (UpdateLegalDocumentDraft).
SavedAsRead == [][\A e \in Editors :
    writes' # writes /\ editor'[e] # editor[e] => editor[e].writes = writes]_publishingVars

VersionTexts == [n \in 1..Cardinality(Existing) |-> version[n].text]
VersionsInForce ==
    {n \in Numbers : version[n].status = "published"}
    \cup (IF document.current = 0 THEN {} ELSE {document.current})

DocumentLog == INSTANCE VersionLog
    WITH Texts <- Drafts, log <- VersionTexts, inForce <- VersionsInForce

\* Publishing only ever adds the next version; the newest one, and no other, is
\* published and what the document calls current (PublishLegalDocumentDraft).
VersionsAreALog == DocumentLog!LogSpec
=============================================================================
