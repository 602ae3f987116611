--------------------------- MODULE ReportHistory ---------------------------
(***************************************************************************)
(* What API.md promises of a report, with no requests, locks or files: a   *)
(* report is a log of published documents.  It is created with one; edits  *)
(* come one after the other, and each that succeeds appends one document   *)
(* and files away the data of the one before.  The soft-delete is final    *)
(* and no edit begins after it.  It does not recall the one that is under  *)
(* way: that edit may still append its document, or be given up.  Reports  *)
(* implements this as long as the edits of one report do not overlap       *)
(* (Reports!PublishesHistory).                                             *)
(***************************************************************************)
EXTENDS Sequences

CONSTANTS Report, Document, NoDocument

VARIABLES
    current,      \* the content of each report, NoDocument before it exists
    published,    \* the document shown by each PDF, version 1 first
    superseded,   \* the data of the documents that edits have replaced
    deleted,      \* whether the report has been soft-deleted
    editing       \* whether an edit is under way

vars == <<current, published, superseded, deleted, editing>>

Init ==
    /\ current = [r \in Report |-> NoDocument]
    /\ published = [r \in Report |-> <<>>]
    /\ superseded = [r \in Report |-> <<>>]
    /\ deleted = [r \in Report |-> FALSE]
    /\ editing = [r \in Report |-> FALSE]

Publish(r, d) ==
    /\ current' = [current EXCEPT ![r] = d]
    /\ published' = [published EXCEPT ![r] = Append(@, d)]

Create(r, d) ==
    /\ current[r] = NoDocument
    /\ Publish(r, d)
    /\ UNCHANGED <<superseded, deleted, editing>>

BeginEdit(r) ==
    /\ current[r] # NoDocument /\ ~deleted[r] /\ ~editing[r]
    /\ editing' = [editing EXCEPT ![r] = TRUE]
    /\ UNCHANGED <<current, published, superseded, deleted>>

Edit(r, d) ==
    /\ editing[r]
    /\ editing' = [editing EXCEPT ![r] = FALSE]
    /\ Publish(r, d)
    /\ superseded' = [superseded EXCEPT ![r] = Append(@, current[r].data)]
    /\ UNCHANGED deleted

GiveUp(r) ==
    /\ editing[r]
    /\ editing' = [editing EXCEPT ![r] = FALSE]
    /\ UNCHANGED <<current, published, superseded, deleted>>

Delete(r) ==
    /\ current[r] # NoDocument /\ ~deleted[r]
    /\ deleted' = [deleted EXCEPT ![r] = TRUE]
    /\ UNCHANGED <<current, published, superseded, editing>>

Next ==
    \E r \in Report :
        \/ \E d \in Document : Create(r, d) \/ Edit(r, d)
        \/ BeginEdit(r) \/ GiveUp(r)
        \/ Delete(r)

Spec == Init /\ [][Next]_vars
=============================================================================
