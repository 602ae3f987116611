------------------------------ MODULE Reports ------------------------------
(***************************************************************************)
(* The life of a report: create, edit, soft-delete and PDF download        *)
(* (app/services/report_service.py) over PostgreSQL rows                   *)
(* (app/repositories/report_repo.py) and PDF files on disk                 *)
(* (app/storage/filestore.py).                                             *)
(*                                                                         *)
(* A Request is one HTTP request in flight.  It owns one database          *)
(* transaction, opened by app/api/deps.py:get_session and run at READ      *)
(* COMMITTED: a SELECT sees committed rows only, an UPDATE takes the row's *)
(* lock and keeps it until the transaction ends, and what the transaction  *)
(* wrote becomes visible when it commits.  Files are not transactional:    *)
(* what a request wrote to disk stays when its transaction is rolled back. *)
(* get_session commits after the response has been sent, so Reply and the  *)
(* commit are two steps.                                                   *)
(***************************************************************************)
EXTENDS Integers, Sequences

CONSTANTS
    Report,       \* identifiers of reports (uuid4: never handed out twice)
    Request,      \* request slots of the server: how many run at once
    Actor,        \* authenticated accounts
    Admin,        \* accounts with role "admin"
    OrgOwner,     \* accounts with role "org_owner"
    OrgOf,        \* Actor -> organisation_id, or NoOrg
    NoOrg,
    CaseId,       \* values of reports.case_id
    Data,         \* values of the JSON column reports.data
    MaxVersion,   \* bound: no edit is started at or past this version
    MaxEdits,     \* bound: no edit is started once this many are recorded
    Clients,      \* how clients space their edits of one report: MayEdit
    NoRow,        \* the report has no committed row, so no document
    NoTx,         \* the request slot is free
    Absent,       \* there is no file at this path
    Partial,      \* the file is truncated, or only part of it is written
    Torn          \* bytes of two writers mixed in one file

VARIABLES
    row,          \* committed row of each report
    versions,     \* committed report_versions of each report, oldest first
    audit,        \* committed rows of audit_log about reports
    files,        \* what is on disk at each path
    pc,           \* next step of each request
    tx            \* what each request has read and computed

vars == <<row, versions, audit, files, pc, tx>>

Version == 1..MaxVersion
Path == Report \X Version
Doc == [case_id : CaseId, data : Data]

\* FileStore.report_relpath: "reports/<id>.v<version>.pdf", one per pair.
report_relpath(r, v) == <<r, v>>

\* PDFService.render_pdf, as far as the properties can tell PDFs apart.
render_pdf(v, d) == [version |-> v, doc |-> d]

Pdf == [version : Version, doc : Doc]
File == Pdf \cup {Absent, Partial, Torn}

Row == [user_id : Actor, organisation_id : {OrgOf[a] : a \in Actor},
        doc : Doc, pdf_path : Path, version : Version, deleted : BOOLEAN]

Snapshot == [version : Version, data : Data, pdf_path : Path,
             edited_by : Actor]

\* Only the entries of updates and downloads name a version in their details;
\* 0 stands for none.
AuditEntry == [action : {"report.create", "report.update", "report.delete",
                         "report.download"},
               actor_id : Actor, resource_id : Report,
               version : Version \cup {0}]

Tx == [op : {"create", "update", "delete", "download"}, actor : Actor,
       report : Report, old : Row \cup {NoRow}, new : Doc, got : Seq(File)]

Step == {"idle", "open", "write", "flush", "reply", "commit",
         "chunk1", "chunk2"}

(***************************************************************************)
(* ReportsAssumption: Clients names the assumption a run makes about       *)
(* the callers of the API, the other constants are parameters.             *)
(***************************************************************************)
ASSUME ReportsAssumption ==
    /\ MaxVersion \in Nat \ {0}
    /\ MaxEdits \in Nat
    /\ Clients \in {"concurrent", "await_reply", "await_commit"}
    /\ Admin \subseteq Actor
    /\ OrgOwner \subseteq Actor
    /\ NoRow \notin Row /\ NoRow \notin Doc
    /\ NoTx \notin Tx
    /\ {Absent, Partial, Torn} \cap Pdf = {}
    /\ Absent # Partial /\ Absent # Torn /\ Partial # Torn

-----------------------------------------------------------------------------
(***************************************************************************)
(* Authorisation (_authorize_read, _authorize_write, _authorize_delete)    *)
(***************************************************************************)
OwnsOrgOf(a, w) ==
    a \in OrgOwner /\ OrgOf[a] # NoOrg /\ w.organisation_id = OrgOf[a]

CanRead(a, w) == a \in Admin \/ OwnsOrgOf(a, w) \/ w.user_id = a
CanWrite(a, w) == a \in Admin \/ OwnsOrgOf(a, w) \/ w.user_id = a
CanDelete(a, w) == a \in Admin \/ OwnsOrgOf(a, w)

-----------------------------------------------------------------------------
Stored(r) == row[r] # NoRow

Live(r) == Stored(r) /\ ~row[r].deleted      \* what ReportRepository.get finds
InFlight(p, r) == pc[p] # "idle" /\ tx[p].report = r

\* The transaction has run its UPDATE of the row and has not ended yet.
HoldsLock(q, r) ==
    InFlight(q, r) /\ tx[q].op \in {"update", "delete"}
                   /\ pc[q] \in {"reply", "commit"}

\* Mutant of NewVersion: an edit publishes the version it loaded.
VersionKept(t) == IF t.op = "create" THEN 1 ELSE t.old.version

\* The version, the path and the bytes the request is about to publish.
\* A new row has version 1; an edit takes the version it loaded, plus one.
NewVersion(t) == IF t.op = "create" THEN 1 ELSE t.old.version + 1
NewPath(t) == report_relpath(t.report, NewVersion(t))

\* Mutant of NewPdf: an edit renders before it merges the body.
PdfOfOldDoc(t) ==
    render_pdf(NewVersion(t), IF t.op = "update" THEN t.old.doc ELSE t.new)

NewPdf(t) == render_pdf(NewVersion(t), t.new)

(***************************************************************************)
(* When a client may start to edit report r.  The code admits every        *)
(* request ("concurrent"); the other two are assumptions on the callers:   *)
(* edits of r are sent one at a time, each after the response of the one   *)
(* before ("await_reply") or after its commit ("await_commit").  Nothing   *)
(* is assumed of deletions and downloads.                                  *)
(***************************************************************************)
MayEdit(r) ==
    \A q \in Request :
        InFlight(q, r) /\ tx[q].op = "update" =>
            \/ Clients = "concurrent"
            \/ Clients = "await_reply" /\ pc[q] = "commit"

Begin(p, first, t) ==
    /\ pc[p] = "idle"
    /\ pc' = [pc EXCEPT ![p] = first]
    /\ tx' = [tx EXCEPT ![p] = t]
    /\ UNCHANGED <<row, versions, audit, files>>

Goto(p, next) == pc' = [pc EXCEPT ![p] = next]

End(p) ==
    /\ pc' = [pc EXCEPT ![p] = "idle"]
    /\ tx' = [tx EXCEPT ![p] = NoTx]

Log(p, action, v) ==
    audit' = audit \cup {[action |-> action, actor_id |-> tx[p].actor,
                          resource_id |-> tx[p].report, version |-> v]}

-----------------------------------------------------------------------------
(***************************************************************************)
(* First step of each handler: the SELECT, the checks, and what the        *)
(* handler computes before its next await.                                 *)
(***************************************************************************)

\* ReportService.create: the row is inserted, uncommitted, with an empty
\* pdf_path and version 1.  Nobody else sees it before the commit.
CreateReport(p, a, r, d) ==
    /\ ~Stored(r) /\ \A v \in Version : files[<<r, v>>] = Absent
    /\ \A q \in Request : ~InFlight(q, r)
    /\ Begin(p, "open", [op |-> "create", actor |-> a, report |-> r,
                         old |-> NoRow, new |-> d, got |-> <<>>])

\* Mutant of UpdateReport: the row is flushed without a file being written.
UpdateWithoutFile(p, a, r, d) ==
    /\ Live(r) /\ CanWrite(a, row[r]) /\ MayEdit(r)
    /\ row[r].version < MaxVersion /\ Len(versions[r]) < MaxEdits
    /\ Begin(p, "flush", [op |-> "update", actor |-> a, report |-> r,
                          old |-> row[r], new |-> d, got |-> <<>>])

\* ReportService.update: load, authorise, snapshot the loaded row into
\* report_versions (uncommitted) and merge the body into it.  A field left
\* out of the body keeps the loaded value, so d ranges over every document.
UpdateReport(p, a, r, d) ==
    /\ Live(r) /\ CanWrite(a, row[r]) /\ MayEdit(r)
    /\ row[r].version < MaxVersion /\ Len(versions[r]) < MaxEdits
    /\ Begin(p, "open", [op |-> "update", actor |-> a, report |-> r,
                         old |-> row[r], new |-> d, got |-> <<>>])

\* ReportService.soft_delete: load and authorise.
DeleteReport(p, a, r) ==
    /\ Live(r) /\ CanDelete(a, row[r])
    /\ Begin(p, "flush", [op |-> "delete", actor |-> a, report |-> r,
                          old |-> row[r], new |-> row[r].doc, got |-> <<>>])

\* ReportService.stream_pdf: load, authorise, FileStore.exists.  Nothing
\* removes a file, so the check is not a step of its own.
DownloadPdf(p, a, r) ==
    /\ Live(r) /\ CanRead(a, row[r]) /\ files[row[r].pdf_path] # Absent
    /\ Begin(p, "chunk1", [op |-> "download", actor |-> a, report |-> r,
                           old |-> row[r], new |-> row[r].doc, got |-> <<>>])

\* 404 for a report that is missing, deleted or without its file, 403 for one
\* the actor may not read: the transaction is rolled back, having changed
\* nothing.
Refuse(p, a, r) ==
    /\ pc[p] = "idle"
    /\ Live(r) /\ CanRead(a, row[r]) => files[row[r].pdf_path] = Absent
    /\ UNCHANGED vars

-----------------------------------------------------------------------------
(***************************************************************************)
(* FileStore.write_bytes: open(..., "wb") truncates, then the bytes go in. *)
(* If another writer put its bytes there since this one truncated, they    *)
(* are overwritten from the start and a longer tail of them stays.         *)
(***************************************************************************)
OpenFile(p) ==
    /\ pc[p] = "open"
    /\ files' = [files EXCEPT ![NewPath(tx[p])] = Partial]
    /\ Goto(p, "write")
    /\ UNCHANGED <<row, versions, audit, tx>>

WriteFile(p) ==
    /\ pc[p] = "write"
    /\ \E f \in {NewPdf(tx[p]), Torn} :
        /\ f = Torn => files[NewPath(tx[p])] # Partial
        /\ files' = [files EXCEPT ![NewPath(tx[p])] = f]
    /\ Goto(p, "flush")
    /\ UNCHANGED <<row, versions, audit, tx>>

\* The flush of set_pdf_path, replace_content or soft_delete.  The UPDATE of
\* a committed row waits for the row's lock; a created row is the request's
\* own.
Flush(p) ==
    /\ pc[p] = "flush"
    /\ tx[p].op \in {"update", "delete"} =>
           \A q \in Request : ~HoldsLock(q, tx[p].report)
    /\ Goto(p, "reply")
    /\ UNCHANGED <<row, versions, audit, files, tx>>

\* The response (201, 200, 204) leaves before get_session commits.
Reply(p) ==
    /\ pc[p] = "reply"
    /\ Goto(p, "commit")
    /\ UNCHANGED <<row, versions, audit, files, tx>>

\* FileStore.stream, driven by the response: the file is opened and read
\* lazily, chunk by chunk, after the handler has returned.
ReadChunk1(p) ==
    /\ pc[p] = "chunk1"
    /\ LET f == files[tx[p].old.pdf_path]
       IN  /\ tx' = [tx EXCEPT ![p].got = <<f>>]
           /\ Goto(p, IF f = Partial THEN "commit" ELSE "chunk2")
    /\ UNCHANGED <<row, versions, audit, files>>

\* Mutant of ReadChunk2: each chunk looks the path up again.
ReadCurrentChunk2(p) ==
    /\ pc[p] = "chunk2"
    /\ tx' = [tx EXCEPT ![p].got = Append(@, files[row[tx[p].report].pdf_path])]
    /\ Goto(p, "commit")
    /\ UNCHANGED <<row, versions, audit, files>>

ReadChunk2(p) ==
    /\ pc[p] = "chunk2"
    /\ tx' = [tx EXCEPT ![p].got = Append(@, files[tx[p].old.pdf_path])]
    /\ Goto(p, "commit")
    /\ UNCHANGED <<row, versions, audit, files>>

-----------------------------------------------------------------------------
(***************************************************************************)
(* The commit of get_session makes the row, the snapshot and the audit     *)
(* entry visible together.                                                 *)
(***************************************************************************)

\* Mutant of CreatedRow: the organisation is not copied from the creator.
CreatedUnstamped(t) ==
    [user_id |-> t.actor, organisation_id |-> NoOrg, doc |-> t.new,
     pdf_path |-> NewPath(t), version |-> NewVersion(t), deleted |-> FALSE]

\* The new row carries the creator's organisation.
CreatedRow(t) ==
    [user_id |-> t.actor, organisation_id |-> OrgOf[t.actor], doc |-> t.new,
     pdf_path |-> NewPath(t), version |-> NewVersion(t), deleted |-> FALSE]

\* The ORM's UPDATE names the columns whose value differs from the one that
\* was loaded; every other column keeps what is committed now.
Changed(new, old, now) == IF new # old THEN new ELSE now

\* Mutant of ReplacedRow: every column of the loaded row is written back.
WholeRow(t, now) ==
    [t.old EXCEPT !.doc = t.new, !.pdf_path = NewPath(t),
                  !.version = NewVersion(t)]

ReplacedRow(t, now) ==
    [now EXCEPT
        !.doc = [case_id |-> Changed(t.new.case_id, t.old.doc.case_id,
                                     now.doc.case_id),
                 data |-> Changed(t.new.data, t.old.doc.data, now.doc.data)],
        !.pdf_path = NewPath(t),
        !.version = NewVersion(t)]

\* Mutant of SnapshotOf: the editor is taken to be the report's creator.
SnapshotOfCreator(t) ==
    [version |-> t.old.version, data |-> t.old.doc.data,
     pdf_path |-> t.old.pdf_path, edited_by |-> t.old.user_id]

\* record_version: the row as it was loaded.  case_id is not kept.
SnapshotOf(t) ==
    [version |-> t.old.version, data |-> t.old.doc.data,
     pdf_path |-> t.old.pdf_path, edited_by |-> t.actor]

CommitCreate(p) ==
    /\ pc[p] = "commit" /\ tx[p].op = "create"
    /\ row' = [row EXCEPT ![tx[p].report] = CreatedRow(tx[p])]
    /\ Log(p, "report.create", 0)
    /\ End(p)
    /\ UNCHANGED <<versions, files>>

\* Mutant of CommitUpdate: record_version is not called.
CommitUnrecorded(p) ==
    /\ pc[p] = "commit" /\ tx[p].op = "update"
    /\ row' = [row EXCEPT ![tx[p].report] = ReplacedRow(tx[p], @)]
    /\ Log(p, "report.update", NewVersion(tx[p]))
    /\ End(p)
    /\ UNCHANGED <<versions, files>>

CommitUpdate(p) ==
    /\ pc[p] = "commit" /\ tx[p].op = "update"
    /\ row' = [row EXCEPT ![tx[p].report] = ReplacedRow(tx[p], @)]
    /\ versions' = [versions EXCEPT
                        ![tx[p].report] = Append(@, SnapshotOf(tx[p]))]
    /\ Log(p, "report.update", NewVersion(tx[p]))
    /\ End(p)
    /\ UNCHANGED files

CommitDelete(p) ==
    /\ pc[p] = "commit" /\ tx[p].op = "delete"
    /\ row' = [row EXCEPT ![tx[p].report].deleted = TRUE]
    /\ Log(p, "report.delete", 0)
    /\ End(p)
    /\ UNCHANGED <<versions, files>>

CommitDownload(p) ==
    /\ pc[p] = "commit" /\ tx[p].op = "download"
    /\ Log(p, "report.download", tx[p].old.version)
    /\ End(p)
    /\ UNCHANGED <<row, versions, files>>

\* An exception, a failed commit, a cancelled request or the death of the
\* worker: the transaction is rolled back and its lock released, the files
\* stay as they are.  It can come after the response, in place of the commit.
Abort(p) ==
    /\ pc[p] # "idle"
    /\ End(p)
    /\ UNCHANGED <<row, versions, audit, files>>

-----------------------------------------------------------------------------
Init ==
    /\ row = [r \in Report |-> NoRow]
    /\ versions = [r \in Report |-> <<>>]
    /\ audit = {}
    /\ files = [x \in Path |-> Absent]
    /\ pc = [p \in Request |-> "idle"]
    /\ tx = [p \in Request |-> NoTx]

Start(p) ==
    \E a \in Actor, r \in Report :
        \/ \E d \in Doc : CreateReport(p, a, r, d)
        \/ \E d \in Doc : UpdateReport(p, a, r, d)
        \/ DeleteReport(p, a, r)
        \/ DownloadPdf(p, a, r)
        \/ Refuse(p, a, r)

Commit(p) ==
    CommitCreate(p) \/ CommitUpdate(p) \/ CommitDelete(p) \/ CommitDownload(p)

Proceed(p) ==
    \/ OpenFile(p) \/ WriteFile(p) \/ Reply(p)
    \/ ReadChunk1(p) \/ ReadChunk2(p) \/ Commit(p)

Next == \E p \in Request : Start(p) \/ Proceed(p) \/ Flush(p) \/ Abort(p)

Spec == Init /\ [][Next]_vars

-----------------------------------------------------------------------------
(***************************************************************************)
(* What holds however requests interleave.                                 *)
(***************************************************************************)

\* Every variable keeps its type.
TypeOK ==
    /\ row \in [Report -> Row \cup {NoRow}]
    /\ versions \in [Report -> Seq(Snapshot)]
    /\ audit \subseteq AuditEntry
    /\ files \in [Path -> File]
    /\ pc \in [Request -> Step]
    /\ tx \in [Request -> Tx \cup {NoTx}]

\* A committed row points at the path of its own version, and the file it
\* points at, like the file of every snapshot, has been created: the row is
\* never ahead of the disk (report_service.create and update write the file
\* before they flush pdf_path).
PublishedPdfExists ==
    \A r \in Report : Stored(r) =>
        /\ row[r].pdf_path = report_relpath(r, row[r].version)
        /\ files[row[r].pdf_path] # Absent
        /\ \A i \in 1..Len(versions[r]) :
               files[versions[r][i].pdf_path] # Absent

\* The PDF of version 1 is whole and shows what was submitted, as long as the
\* report stays at version 1 and in every snapshot of version 1 afterwards,
\* whatever edits race: no edit ever writes to that path.
OriginalPdfKept ==
    \A r \in Report : Stored(r) =>
        /\ row[r].version = 1 =>
               files[report_relpath(r, 1)] = render_pdf(1, row[r].doc)
        /\ \A i \in 1..Len(versions[r]) : versions[r][i].version = 1 =>
               \E c \in CaseId : files[versions[r][i].pdf_path] =
                   render_pdf(1, [case_id |-> c, data |-> versions[r][i].data])

\* The audit log accounts for every committed change: each snapshot has the
\* update entry of its editor, naming the version that edit produced, a
\* deleted report has a delete entry, a stored one its creator's create entry.
AuditExplainsHistory ==
    \A r \in Report : Stored(r) =>
        /\ [action |-> "report.create", actor_id |-> row[r].user_id,
            resource_id |-> r, version |-> 0] \in audit
        /\ row[r].deleted =>
               \E e \in audit : e.action = "report.delete" /\ e.resource_id = r
        /\ \A i \in 1..Len(versions[r]) :
               [action |-> "report.update",
                actor_id |-> versions[r][i].edited_by,
                resource_id |-> r, version |-> versions[r][i].version + 1]
                   \in audit

\* Once committed, a report keeps its creator and its organisation for life
\* and a deleted one never comes back, even when an edit that loaded it
\* before the deletion commits after it.
IdentityIsStable ==
    [][\A r \in Report : Stored(r) =>
        /\ row'[r] # NoRow
        /\ row'[r].user_id = row[r].user_id
        /\ row'[r].organisation_id = row[r].organisation_id
        /\ row[r].deleted => row'[r].deleted]_vars

-----------------------------------------------------------------------------
(***************************************************************************)
(* What holds when the edits of a report are separated by their commits    *)
(* (Clients = "await_commit"), failures included, and breaks otherwise.    *)
(***************************************************************************)

\* The PDF a committed row points at is whole and shows the row's own content,
\* whatever deletions run beside the edit, and after an edit that a deletion
\* has overtaken.
PdfMatchesRow ==
    \A r \in Report : Stored(r) =>
        files[row[r].pdf_path] = render_pdf(row[r].version, row[r].doc)

\* "PDFs are [...] never overwritten" (filestore.py): a file that a committed
\* row or snapshot names never changes again.
Named(x) ==
    \E r \in Report :
        /\ Stored(r)
        /\ \/ row[r].pdf_path = x
           \/ \E i \in 1..Len(versions[r]) : versions[r][i].pdf_path = x

NeverOverwritten == [][\A x \in Path : Named(x) => files'[x] = files[x]]_vars

\* A download that runs to its end delivers, whole, the PDF of the row the
\* request was authorised against, whatever edits and deletions run meanwhile.
DownloadIsFaithful ==
    \A p \in Request :
        pc[p] = "commit" /\ tx[p].op = "download" =>
            LET pdf == render_pdf(tx[p].old.version, tx[p].old.doc)
            IN  tx[p].got = <<pdf, pdf>>

-----------------------------------------------------------------------------
(***************************************************************************)
(* The refinement: the PDFs on disk up to the committed version are the    *)
(* published documents, the row is the current one, report_versions holds  *)
(* the superseded data, and an edit is under way from the SELECT of its    *)
(* request to the end of its transaction.                                  *)
(***************************************************************************)
ShownAt(x) == IF files[x] \in Pdf THEN files[x].doc ELSE files[x]

History == INSTANCE ReportHistory WITH
    Report <- Report,
    Document <- Doc,
    NoDocument <- NoRow,
    current <- [r \in Report |-> IF Stored(r) THEN row[r].doc ELSE NoRow],
    published <- [r \in Report |->
        IF Stored(r)
        THEN [v \in 1..row[r].version |-> ShownAt(report_relpath(r, v))]
        ELSE <<>>],
    superseded <- [r \in Report |->
        [i \in 1..Len(versions[r]) |-> versions[r][i].data]],
    deleted <- [r \in Report |-> Stored(r) /\ row[r].deleted],
    editing <- [r \in Report |->
        \E p \in Request : InFlight(p, r) /\ tx[p].op = "update"]

\* Every behaviour of the requests, failures included, is a behaviour of the
\* versioned document of ReportHistory: edits begin on reports that are not
\* deleted and end by a commit, which publishes, or by an abort, which leaves
\* no trace; the other commits are its other steps, everything else is
\* invisible.  A deletion may commit at any point of an edit.
PublishesHistory == History!Spec
=============================================================================
