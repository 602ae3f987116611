--------------------------- MODULE ReportsProofs ---------------------------
(***************************************************************************)
(* Theorems about Reports that hold for every set of reports, requests,    *)
(* accounts and documents, every bound and every value of Clients: edits   *)
(* may race and fail at any step.                                          *)
(***************************************************************************)
EXTENDS Reports, SequenceTheorems, TLAPS

(***************************************************************************)
(* The inductive invariant.  TypeOK and the properties of committed state  *)
(* are not inductive: whether a commit keeps them depends on what the      *)
(* request has loaded and already put on disk.  TxOK says that.            *)
(***************************************************************************)

\* A row, committed or loaded, whose PDF is where it says.
SoundRow(r, w) ==
    /\ w \in Row
    /\ w.pdf_path = report_relpath(r, w.version)
    /\ files[w.pdf_path] # Absent
    /\ w.version = 1 => files[report_relpath(r, 1)] = render_pdf(1, w.doc)

\* A request that creates a report is alone with it.
CreateOK(p) ==
    /\ pc[p] \in {"open", "write", "flush", "reply", "commit"}
    /\ tx[p].old = NoRow
    /\ ~Stored(tx[p].report)
    /\ \A q \in Request : InFlight(q, tx[p].report) => q = p
    /\ pc[p] = "write" => files[report_relpath(tx[p].report, 1)] = Partial
    /\ pc[p] \in {"flush", "reply", "commit"} =>
           files[report_relpath(tx[p].report, 1)] = render_pdf(1, tx[p].new)

\* Any other request holds a sound copy of a row that is committed.
LoadedOK(p) ==
    /\ Stored(tx[p].report)
    /\ SoundRow(tx[p].report, tx[p].old)
    /\ pc[p] \in {"open", "write"} => tx[p].op = "update"
    /\ pc[p] \in {"chunk1", "chunk2"} => tx[p].op = "download"
    /\ tx[p].op = "update" =>
        /\ tx[p].old.version < MaxVersion
        /\ pc[p] \in {"flush", "reply", "commit"} =>
               files[NewPath(tx[p])] # Absent

TxOK(p) ==
    /\ pc[p] = "idle" => tx[p] = NoTx
    /\ pc[p] # "idle" =>
        /\ tx[p] \in Tx
        /\ tx[p].op = "create" => CreateOK(p)
        /\ tx[p].op # "create" => LoadedOK(p)

\* A snapshot of report r keeps a PDF, and the original one unchanged.
SoundSnapshot(r, s) ==
    /\ s.pdf_path = report_relpath(r, s.version)
    /\ files[s.pdf_path] # Absent
    /\ s.version = 1 =>
           \E c \in CaseId : files[s.pdf_path] =
               render_pdf(1, [case_id |-> c, data |-> s.data])

ReportOK(r) ==
    /\ Stored(r) => SoundRow(r, row[r])
    /\ ~Stored(r) => versions[r] = <<>>
    /\ \A i \in 1..Len(versions[r]) : SoundSnapshot(r, versions[r][i])

IInv ==
    /\ TypeOK
    /\ \A p \in Request : TxOK(p)
    /\ \A r \in Report : ReportOK(r)
-----------------------------------------------------------------------------
(***************************************************************************)
(* The operators of Reports, for proofs that need not expand them.         *)
(***************************************************************************)

\* Paths are well typed and one per (report, version).
LEMMA PathFacts ==
    ASSUME NEW r \in Report, NEW v \in Version
    PROVE  /\ report_relpath(r, v) \in Path
           /\ \A s, w : report_relpath(s, w) = report_relpath(r, v) =>
                            s = r /\ w = v
BY DEF report_relpath, Path

\* A rendered PDF is the content of a file and none of the three markers.
LEMMA PdfFacts ==
    ASSUME NEW v \in Version, NEW d \in Doc
    PROVE  /\ render_pdf(v, d) \in File
           /\ render_pdf(v, d) \notin {Absent, Partial, Torn}
BY ReportsAssumption DEF render_pdf, File, Pdf

\* The markers are no rows, no transactions and no PDFs.
LEMMA MarkerFacts ==
    /\ Absent \in File /\ Partial \in File /\ Torn \in File
    /\ Absent # Partial /\ Absent # Torn /\ Partial # Torn
    /\ NoRow \notin Row /\ NoRow \notin Doc /\ NoTx \notin Tx
    /\ MaxVersion \in Nat \ {0} /\ 1 \in Version
BY ReportsAssumption DEF File, Version

\* A stored row is a Row, and what is not stored is NoRow.
LEMMA StoredFacts ==
    ASSUME TypeOK, NEW r \in Report
    PROVE  Stored(r) <=> row[r] \in Row
BY MarkerFacts DEF TypeOK, Stored

\* The row that a create commits is well typed and names its own first file.
LEMMA CreatedRowFacts ==
    ASSUME NEW t \in Tx, t.op = "create"
    PROVE  /\ CreatedRow(t) \in Row
           /\ CreatedRow(t).pdf_path = report_relpath(t.report, 1)
           /\ CreatedRow(t).version = 1
           /\ CreatedRow(t).doc = t.new
           /\ CreatedRow(t).user_id = t.actor
           /\ CreatedRow(t).deleted = FALSE
<1>1. t.actor \in Actor /\ t.report \in Report /\ t.new \in Doc
    BY DEF Tx
<1>2. report_relpath(t.report, 1) \in Path
    BY <1>1, PathFacts, MarkerFacts
<1>3. QED
    BY <1>1, <1>2, MarkerFacts DEF CreatedRow, Row, NewPath, NewVersion

\* What an edit writes depends on the committed row only in the columns it
\* leaves alone.
LEMMA ReplacedRowFacts ==
    ASSUME NEW t \in Tx, t.op = "update", NEW w \in Row,
           t.old \in Row, t.old.version < MaxVersion
    PROVE  /\ ReplacedRow(t, w) \in Row
           /\ NewVersion(t) = t.old.version + 1
           /\ NewVersion(t) \in Version /\ NewVersion(t) # 1
           /\ NewPath(t) \in Path
           /\ ReplacedRow(t, w).pdf_path = report_relpath(t.report, NewVersion(t))
           /\ ReplacedRow(t, w).version = NewVersion(t)
           /\ ReplacedRow(t, w).user_id = w.user_id
           /\ ReplacedRow(t, w).organisation_id = w.organisation_id
           /\ ReplacedRow(t, w).deleted = w.deleted
<1>1. t.report \in Report /\ t.new \in Doc
    BY DEF Tx
<1>2. t.old.version \in Version /\ t.old.doc \in Doc /\ w.doc \in Doc
    BY DEF Row
<1>3. /\ NewVersion(t) = t.old.version + 1
      /\ NewVersion(t) \in Version /\ NewVersion(t) # 1
    BY <1>2, MarkerFacts DEF NewVersion, Version
<1>4. NewPath(t) = report_relpath(t.report, NewVersion(t)) /\ NewPath(t) \in Path
    BY <1>1, <1>3, PathFacts DEF NewPath
<1>5. [case_id |-> Changed(t.new.case_id, t.old.doc.case_id, w.doc.case_id),
       data |-> Changed(t.new.data, t.old.doc.data, w.doc.data)] \in Doc
    BY <1>1, <1>2 DEF Doc, Changed
<1>6. QED
    BY <1>3, <1>4, <1>5 DEF ReplacedRow, Row

\* The snapshot that an update commits is well typed.
LEMMA SnapshotFacts ==
    ASSUME NEW t \in Tx, t.old \in Row
    PROVE  /\ SnapshotOf(t) \in Snapshot
           /\ SnapshotOf(t).version = t.old.version
           /\ SnapshotOf(t).data = t.old.doc.data
           /\ SnapshotOf(t).pdf_path = t.old.pdf_path
           /\ SnapshotOf(t).edited_by = t.actor
           /\ t.old.doc \in Doc
           /\ \A v \in Version : \E c \in CaseId :
                  render_pdf(v, t.old.doc) =
                  render_pdf(v, [case_id |-> c, data |-> t.old.doc.data])
<1>1. t.old.doc \in Doc
    BY DEF Row
<1>2. t.old.doc = [case_id |-> t.old.doc.case_id, data |-> t.old.doc.data]
    BY <1>1 DEF Doc
<1>3. t.old.doc.case_id \in CaseId
    BY <1>1 DEF Doc
<1>4. /\ SnapshotOf(t) \in Snapshot
      /\ SnapshotOf(t).version = t.old.version
      /\ SnapshotOf(t).data = t.old.doc.data
      /\ SnapshotOf(t).pdf_path = t.old.pdf_path
      /\ SnapshotOf(t).edited_by = t.actor
    BY <1>1 DEF SnapshotOf, Snapshot, Tx, Row, Doc
<1>5. QED
    BY <1>1, <1>2, <1>3, <1>4
-----------------------------------------------------------------------------
(***************************************************************************)
(* Writing to disk.  A request that creates a report writes to a path      *)
(* nobody else uses; an edit writes to a path of version 2 or above.  So a *)
(* step on the disk never removes a file and never touches the original    *)
(* PDF of a stored report.                                                 *)
(***************************************************************************)
LEMMA DiskStep ==
    ASSUME IInv, NEW p \in Request, pc[p] \in {"open", "write"},
           NEW f \in File, f # Absent,
           files' = [files EXCEPT ![NewPath(tx[p])] = f]
    PROVE  /\ NewPath(tx[p]) \in Path
           /\ files' \in [Path -> File]
           /\ files'[NewPath(tx[p])] = f
           /\ \A x \in Path : files[x] # Absent => files'[x] # Absent
           /\ \A r \in Report : Stored(r) =>
                  files'[report_relpath(r, 1)] = files[report_relpath(r, 1)]
           /\ \A q \in Request :
                  q # p /\ pc[q] # "idle" /\ tx[q].op = "create" =>
                      files'[report_relpath(tx[q].report, 1)] =
                          files[report_relpath(tx[q].report, 1)]
<1>1. TypeOK /\ TxOK(p) /\ tx[p] \in Tx /\ tx[p].report \in Report
    BY DEF IInv, TxOK, Tx
<1>2. files \in [Path -> File]
    BY <1>1 DEF TypeOK
<1>3. CASE tx[p].op = "create"
  <2>1. CreateOK(p)
      BY <1>1, <1>3 DEF TxOK
  <2>2. NewPath(tx[p]) = report_relpath(tx[p].report, 1)
      BY <1>3 DEF NewPath, NewVersion
  <2>3. NewPath(tx[p]) \in Path
      BY <1>1, <2>2, PathFacts, MarkerFacts
  <2>4. \A r \in Report : Stored(r) => r # tx[p].report
      BY <2>1 DEF CreateOK
  <2>5. \A q \in Request : q # p /\ pc[q] # "idle" =>
            tx[q].report # tx[p].report
      BY <2>1 DEF CreateOK, InFlight
  <2>6. \A q \in Request : pc[q] # "idle" => tx[q].report \in Report
      BY DEF IInv, TxOK, Tx
  <2>7. \A r \in Report : r # tx[p].report =>
            /\ report_relpath(r, 1) \in Path
            /\ report_relpath(r, 1) # NewPath(tx[p])
      BY <1>1, <2>2, PathFacts, MarkerFacts
  <2>8. QED
      BY <1>2, <2>3, <2>4, <2>5, <2>6, <2>7
<1>4. CASE tx[p].op # "create"
  <2>1. LoadedOK(p) /\ tx[p].op = "update"
      BY <1>1, <1>4 DEF TxOK, LoadedOK
  <2>2. tx[p].old \in Row /\ tx[p].old.version < MaxVersion
      BY <2>1 DEF LoadedOK, SoundRow
  <2>3. NewVersion(tx[p]) \in Version /\ NewVersion(tx[p]) # 1
        /\ NewPath(tx[p]) \in Path
        /\ NewPath(tx[p]) = report_relpath(tx[p].report, NewVersion(tx[p]))
      BY <1>1, <2>1, <2>2, ReplacedRowFacts DEF NewPath
  <2>4. \A r \in Report : report_relpath(r, 1) \in Path
                          /\ report_relpath(r, 1) # NewPath(tx[p])
      BY <1>1, <2>3, PathFacts, MarkerFacts
  <2>5. \A q \in Request : pc[q] # "idle" => tx[q].report \in Report
      BY DEF IInv, TxOK, Tx
  <2>6. QED
      BY <1>2, <2>3, <2>4, <2>5
<1>5. QED
    BY <1>3, <1>4

\* What such a step cannot disturb.
LEMMA DiskKeepsReports ==
    ASSUME IInv, UNCHANGED <<row, versions>>,
           \A x \in Path : files[x] # Absent => files'[x] # Absent,
           \A r \in Report : Stored(r) =>
               files'[report_relpath(r, 1)] = files[report_relpath(r, 1)]
    PROVE  /\ \A r \in Report : Stored(r)' <=> Stored(r)
           /\ \A r \in Report, w \in Row :
                  Stored(r) /\ SoundRow(r, w) => SoundRow(r, w)'
           /\ \A r \in Report : ReportOK(r)'
<1>1. \A r \in Report : Stored(r)' <=> Stored(r)
    BY DEF Stored
<1>2. \A w \in Row : w.pdf_path \in Path
    BY DEF Row
<1>3. \A r \in Report, w \in Row :
          Stored(r) /\ SoundRow(r, w) => SoundRow(r, w)'
    BY <1>2 DEF SoundRow
<1>4. SUFFICES ASSUME NEW r \in Report
               PROVE  ReportOK(r)'
    BY <1>1, <1>3
<1>5. ReportOK(r) /\ versions[r] \in Seq(Snapshot)
    BY DEF IInv, TypeOK
<1>6. Stored(r)' => SoundRow(r, row[r])'
    BY <1>1, <1>3, <1>5 DEF ReportOK, SoundRow
<1>7. ASSUME NEW i \in 1..Len(versions[r])
      PROVE  SoundSnapshot(r, versions[r][i])'
  <2>1. versions[r][i] \in Snapshot
      BY <1>5, <1>7, ElementOfSeq
  <2>2. versions[r][i].pdf_path \in Path
      BY <2>1 DEF Snapshot
  <2>3. SoundSnapshot(r, versions[r][i]) /\ Stored(r)
      BY <1>5, <1>7 DEF ReportOK
  <2>4. QED
      BY <2>2, <2>3 DEF SoundSnapshot
<1>8. QED
    BY <1>1, <1>5, <1>6, <1>7 DEF ReportOK
-----------------------------------------------------------------------------
(***************************************************************************)
(* A request that takes no part in a step keeps its TxOK.                  *)
(***************************************************************************)
LEMMA OtherTx ==
    ASSUME IInv, NEW q \in Request, pc'[q] = pc[q], tx'[q] = tx[q],
           \A x \in Path : files[x] # Absent => files'[x] # Absent,
           pc[q] # "idle" /\ tx[q].op = "create" =>
               /\ ~Stored(tx[q].report)'
               /\ files'[report_relpath(tx[q].report, 1)] =
                      files[report_relpath(tx[q].report, 1)]
               /\ \A z \in Request : InFlight(z, tx[q].report)' => z = q,
           pc[q] # "idle" /\ tx[q].op # "create" =>
               /\ Stored(tx[q].report)'
               /\ files'[report_relpath(tx[q].report, 1)] =
                      files[report_relpath(tx[q].report, 1)]
    PROVE  TxOK(q)'
<1>1. TxOK(q)
    BY DEF IInv
<1>2. CASE pc[q] = "idle"
    BY <1>1, <1>2 DEF TxOK
<1>3. CASE pc[q] # "idle" /\ tx[q].op = "create"
  <2>1. tx[q] \in Tx /\ CreateOK(q)
      BY <1>1, <1>3 DEF TxOK
  <2>2. CreateOK(q)'
      BY <1>3, <2>1 DEF CreateOK
  <2>3. QED
      BY <1>3, <2>1, <2>2 DEF TxOK
<1>4. CASE pc[q] # "idle" /\ tx[q].op # "create"
  <2>1. tx[q] \in Tx /\ LoadedOK(q)
      BY <1>1, <1>4 DEF TxOK
  <2>2. tx[q].old \in Row /\ tx[q].old.pdf_path \in Path
      BY <2>1 DEF LoadedOK, SoundRow, Row
  <2>3. SoundRow(tx[q].report, tx[q].old)'
      BY <1>4, <2>1, <2>2 DEF LoadedOK, SoundRow
  <2>4. tx[q].op = "update" => NewPath(tx[q]) \in Path
      BY <2>1, <2>2, ReplacedRowFacts DEF LoadedOK
  <2>5. LoadedOK(q)'
      BY <1>4, <2>1, <2>3, <2>4 DEF LoadedOK
  <2>6. QED
      BY <1>4, <2>1, <2>5 DEF TxOK
<1>5. QED
    BY <1>2, <1>3, <1>4

\* The reports keep ReportOK when neither rows, snapshots nor files change.
LEMMA ReportsUnchanged ==
    ASSUME IInv, UNCHANGED <<row, versions, files>>
    PROVE  /\ \A r \in Report : ReportOK(r)'
           /\ \A r : Stored(r)' <=> Stored(r)
BY DEF IInv, ReportOK, Stored, SoundRow, SoundSnapshot

-----------------------------------------------------------------------------
(***************************************************************************)
(* One lemma per kind of step.                                             *)
(***************************************************************************)
LEMMA BeginStep ==
    ASSUME IInv, NEW p \in Request, NEW t \in Tx,
           NEW first \in Step \ {"idle"}, Begin(p, first, t),
           TxOK(p)',
           \A q \in Request :
               pc[q] # "idle" /\ tx[q].op = "create" => tx[q].report # t.report
    PROVE  IInv'
<1>1. TypeOK /\ pc[p] = "idle"
    BY DEF IInv, Begin
<1>2. TypeOK'
    BY <1>1 DEF TypeOK, Begin
<1>3. \A r \in Report : ReportOK(r)'
    BY ReportsUnchanged DEF Begin
<1>4. ASSUME NEW q \in Request, q # p
      PROVE  TxOK(q)'
  <2>1. pc'[q] = pc[q] /\ tx'[q] = tx[q]
      BY <1>1, <1>4 DEF TypeOK, Begin
  <2>2. ASSUME pc[q] # "idle", tx[q].op = "create"
        PROVE  /\ ~Stored(tx[q].report)
               /\ \A z \in Request : InFlight(z, tx[q].report)' => z = q
    <3>1. CreateOK(q)
        BY <2>2 DEF IInv, TxOK
    <3>2. ASSUME NEW z \in Request, InFlight(z, tx[q].report)'
          PROVE  z = q
      <4>1. z # p
          BY <1>1, <2>1, <2>2, <3>2 DEF InFlight, Begin, TypeOK
      <4>2. pc'[z] = pc[z] /\ tx'[z] = tx[z]
          BY <1>1, <4>1 DEF TypeOK, Begin
      <4>3. QED
          BY <2>1, <3>1, <3>2, <4>2 DEF InFlight, CreateOK
    <3>3. QED
        BY <2>1, <3>1, <3>2 DEF CreateOK
  <2>3. pc[q] # "idle" /\ tx[q].op # "create" => Stored(tx[q].report)
      BY DEF IInv, TxOK, LoadedOK
  <2>4. QED
      BY <2>1, <2>2, <2>3, OtherTx DEF Begin, Stored
<1>5. QED
    BY <1>2, <1>3, <1>4 DEF IInv

\* ReportService.create, up to its INSERT, keeps the invariant.
LEMMA CreateReportStep ==
    ASSUME IInv, NEW p \in Request, NEW a \in Actor, NEW r \in Report,
           NEW d \in Doc, CreateReport(p, a, r, d)
    PROVE  IInv'
<1> DEFINE t == [op |-> "create", actor |-> a, report |-> r, old |-> NoRow,
                 new |-> d, got |-> <<>>]
<1>1. t \in Tx
    BY DEF Tx
<1>2. Begin(p, "open", t)
    BY DEF CreateReport
<1>3. pc'[p] = "open" /\ tx'[p] = t /\ \A q \in Request \ {p} : pc'[q] = pc[q] /\ tx'[q] = tx[q]
    BY <1>2 DEF Begin, IInv, TypeOK
<1>4. CreateOK(p)'
  <2>1. ~Stored(r)'
      BY <1>2 DEF CreateReport, Begin, Stored
  <2>2. \A q \in Request : InFlight(q, r)' => q = p
      BY <1>3 DEF CreateReport, InFlight
  <2>3. QED
      BY <1>3, <2>1, <2>2 DEF CreateOK
<1>5. TxOK(p)'
    BY <1>1, <1>3, <1>4 DEF TxOK
<1>6. \A q \in Request : pc[q] # "idle" => tx[q].report # t.report
    BY DEF CreateReport, InFlight
<1>7. QED
    BY <1>1, <1>2, <1>5, <1>6, BeginStep DEF Step

\* So do the loads of update, soft_delete and stream_pdf.
LEMMA LoadStep ==
    ASSUME IInv, NEW p \in Request, NEW t \in Tx, NEW first \in Step,
           Live(t.report), t.old = row[t.report], Begin(p, first, t),
           \/ /\ t.op = "update" /\ first = "open"
              /\ row[t.report].version < MaxVersion
           \/ t.op = "delete" /\ first = "flush"
           \/ t.op = "download" /\ first = "chunk1"
    PROVE  IInv'
<1>1. t.report \in Report /\ Stored(t.report)
    BY DEF Tx, Live
<1>2. /\ pc'[p] = first /\ tx'[p] = t
    BY DEF Begin, IInv, TypeOK
<1>3. ReportOK(t.report) /\ Stored(t.report)'
    BY <1>1 DEF IInv, Begin, Stored
<1>4. SoundRow(t.report, t.old)'
    BY <1>1, <1>3 DEF ReportOK, SoundRow, Begin
<1>5. LoadedOK(p)'
    BY <1>2, <1>3, <1>4 DEF LoadedOK
<1>6. TxOK(p)'
    BY <1>2, <1>5 DEF TxOK
<1>7. \A q \in Request :
          pc[q] # "idle" /\ tx[q].op = "create" => tx[q].report # t.report
    BY <1>1 DEF IInv, TxOK, CreateOK
<1>8. QED
    BY <1>6, <1>7, BeginStep DEF Step

\* FileStore.write_bytes keeps it: an edit never writes to version 1.
LEMMA FileStep ==
    ASSUME IInv, NEW p \in Request, OpenFile(p) \/ WriteFile(p)
    PROVE  IInv'
<1>1. PICK f \in File :
          /\ f # Absent
          /\ files' = [files EXCEPT ![NewPath(tx[p])] = f]
          /\ pc[p] \in {"open", "write"}
          /\ pc[p] = "open" => f = Partial /\ pc' = [pc EXCEPT ![p] = "write"]
          /\ pc[p] = "write" =>
              /\ pc' = [pc EXCEPT ![p] = "flush"]
              /\ files[NewPath(tx[p])] = Partial => f = NewPdf(tx[p])
  <2>1. CASE OpenFile(p)
      BY <2>1, MarkerFacts DEF OpenFile, Goto
  <2>2. CASE WriteFile(p)
    <3>1. tx[p] \in Tx /\ TxOK(p)
        BY <2>2 DEF IInv, TxOK, WriteFile
    <3>2. tx[p].op # "create" => tx[p].op = "update" /\ LoadedOK(p)
        BY <2>2, <3>1 DEF TxOK, LoadedOK, WriteFile
    <3>3. NewVersion(tx[p]) \in Version /\ tx[p].new \in Doc
      <4>1. CASE tx[p].op = "create"
          BY <3>1, <4>1, MarkerFacts DEF NewVersion, Tx
      <4>2. CASE tx[p].op # "create"
          BY <3>1, <3>2, <4>2, ReplacedRowFacts DEF LoadedOK, SoundRow, Tx
      <4>3. QED
          BY <4>1, <4>2
    <3>4. NewPdf(tx[p]) \in File /\ NewPdf(tx[p]) # Absent
        BY <3>3, PdfFacts DEF NewPdf
    <3>5. QED
        BY <2>2, <3>4, MarkerFacts DEF WriteFile, Goto
  <2>3. QED
      BY <2>1, <2>2
<1>2. /\ TypeOK /\ TxOK(p) /\ tx[p] \in Tx
      /\ UNCHANGED <<row, versions, audit, tx>>
    BY <1>1 DEF IInv, TxOK, OpenFile, WriteFile
<1>3. /\ NewPath(tx[p]) \in Path
      /\ files' \in [Path -> File]
      /\ files'[NewPath(tx[p])] = f
      /\ \A x \in Path : files[x] # Absent => files'[x] # Absent
      /\ \A r \in Report : Stored(r) =>
             files'[report_relpath(r, 1)] = files[report_relpath(r, 1)]
      /\ \A q \in Request :
             q # p /\ pc[q] # "idle" /\ tx[q].op = "create" =>
                 files'[report_relpath(tx[q].report, 1)] =
                     files[report_relpath(tx[q].report, 1)]
    BY <1>1, DiskStep
<1>4. /\ \A r \in Report : Stored(r)' <=> Stored(r)
      /\ \A r \in Report, w \in Row :
             Stored(r) /\ SoundRow(r, w) => SoundRow(r, w)'
      /\ \A r \in Report : ReportOK(r)'
    BY <1>2, <1>3, DiskKeepsReports
<1>5. pc' \in [Request -> Step] /\ pc'[p] \in {"write", "flush"}
      /\ \A q \in Request \ {p} : pc'[q] = pc[q]
    BY <1>1, <1>2 DEF TypeOK, Step
<1>6. TypeOK'
    BY <1>2, <1>3, <1>5 DEF TypeOK
<1>7. \A q \in Request : pc[q] # "idle" => tx[q].report \in Report
    BY DEF IInv, TxOK, Tx
<1>8. \A z \in Request, r \in Report : InFlight(z, r)' <=> InFlight(z, r)
    BY <1>1, <1>2, <1>5 DEF InFlight
<1>9. TxOK(p)'
  <2>1. CASE tx[p].op = "create"
    <3>1. CreateOK(p) /\ NewPath(tx[p]) = report_relpath(tx[p].report, 1)
          /\ NewPdf(tx[p]) = render_pdf(1, tx[p].new)
        BY <1>1, <1>2, <2>1 DEF TxOK, NewPath, NewPdf, NewVersion
    <3>2. CreateOK(p)'
        BY <1>1, <1>2, <1>3, <1>4, <1>5, <1>7, <1>8, <3>1 DEF CreateOK, TypeOK
    <3>3. QED
        BY <1>2, <1>5, <2>1, <3>2 DEF TxOK
  <2>2. CASE tx[p].op # "create"
    <3>1. LoadedOK(p)
        BY <1>1, <1>2, <2>2 DEF TxOK
    <3>2. LoadedOK(p)'
        BY <1>1, <1>2, <1>3, <1>4, <1>5, <1>7, <3>1 DEF LoadedOK, SoundRow
    <3>3. QED
        BY <1>2, <1>5, <2>2, <3>2 DEF TxOK
  <2>3. QED
      BY <2>1, <2>2
<1>10. ASSUME NEW q \in Request, q # p
       PROVE  TxOK(q)'
  <2>1. pc'[q] = pc[q] /\ tx'[q] = tx[q]
      BY <1>2, <1>5, <1>10
  <2>2. pc[q] # "idle" /\ tx[q].op = "create" =>
            /\ ~Stored(tx[q].report)'
            /\ \A z \in Request : InFlight(z, tx[q].report)' => z = q
      BY <1>4, <1>7, <1>8, <2>1 DEF IInv, TxOK, CreateOK
  <2>3. pc[q] # "idle" /\ tx[q].op # "create" => Stored(tx[q].report)
      BY DEF IInv, TxOK, LoadedOK
  <2>4. QED
      BY <1>3, <1>4, <1>7, <1>10, <2>1, <2>2, <2>3, OtherTx
<1>11. QED
    BY <1>4, <1>6, <1>9, <1>10 DEF IInv

\* Steps that move one request on and write nothing: the flush, the response
\* and the chunks of a download.
LEMMA MoveStep ==
    ASSUME IInv, NEW p \in Request,
           Flush(p) \/ Reply(p) \/ ReadChunk1(p) \/ ReadChunk2(p)
    PROVE  IInv'
<1>1. /\ UNCHANGED <<row, versions, audit, files>>
      /\ pc[p] # "idle" /\ TypeOK /\ TxOK(p) /\ tx[p] \in Tx
    BY DEF IInv, TxOK, Flush, Reply, ReadChunk1, ReadChunk2
<1>2. /\ pc' \in [Request -> Step]
      /\ pc'[p] \in {"reply", "commit", "chunk2"}
      /\ pc'[p] = "chunk2" => pc[p] = "chunk1"
      /\ pc'[p] # "chunk2" /\ tx[p].op # "download" =>
             pc[p] \in {"flush", "reply", "commit"}
      /\ \A q \in Request \ {p} : pc'[q] = pc[q]
  <2>1. pc[p] \in {"chunk1", "chunk2"} => tx[p].op = "download"
      BY <1>1 DEF TxOK, CreateOK, LoadedOK
  <2>2. CASE Flush(p)
      BY <1>1, <2>2 DEF Flush, Goto, TypeOK, Step
  <2>3. CASE Reply(p)
      BY <1>1, <2>3 DEF Reply, Goto, TypeOK, Step
  <2>4. CASE ReadChunk1(p)
      BY <1>1, <2>1, <2>4 DEF ReadChunk1, Goto, TypeOK, Step
  <2>5. CASE ReadChunk2(p)
      BY <1>1, <2>1, <2>5 DEF ReadChunk2, Goto, TypeOK, Step
  <2>6. QED
      BY <2>2, <2>3, <2>4, <2>5
<1>3. /\ tx' \in [Request -> Tx \cup {NoTx}]
      /\ tx'[p] \in Tx
      /\ tx'[p].op = tx[p].op /\ tx'[p].report = tx[p].report
      /\ tx'[p].old = tx[p].old /\ tx'[p].new = tx[p].new
      /\ \A q \in Request \ {p} : tx'[q] = tx[q]
  <2>1. CASE UNCHANGED tx
      BY <1>1, <2>1 DEF TypeOK
  <2>2. ASSUME NEW g \in Seq(File), tx' = [tx EXCEPT ![p].got = g]
        PROVE  <1>3
    <3>1. [tx[p] EXCEPT !.got = g] \in Tx
        BY <1>1 DEF Tx
    <3>2. tx'[p] = [tx[p] EXCEPT !.got = g]
        BY <1>1, <2>2 DEF TypeOK
    <3>3. \A q \in Request \ {p} : tx'[q] = tx[q]
        BY <1>1, <2>2 DEF TypeOK
    <3>4. tx' \in [Request -> Tx \cup {NoTx}]
        BY <1>1, <2>2, <3>1 DEF TypeOK
    <3>5. /\ tx'[p].op = tx[p].op /\ tx'[p].report = tx[p].report
          /\ tx'[p].old = tx[p].old /\ tx'[p].new = tx[p].new
        BY <1>1, <3>2 DEF Tx
    <3>6. QED
        BY <3>1, <3>2, <3>3, <3>4, <3>5
  <2>3. CASE ReadChunk1(p) \/ ReadChunk2(p)
    <3>1. tx[p].op = "download"
        BY <1>1, <2>3 DEF TxOK, CreateOK, LoadedOK, ReadChunk1, ReadChunk2
    <3>2. tx[p].old \in Row
        BY <1>1, <3>1 DEF TxOK, LoadedOK, SoundRow
    <3>3. files[tx[p].old.pdf_path] \in File
        BY <1>1, <3>2 DEF TypeOK, Row
    <3>4. tx[p].got \in Seq(File)
        BY <1>1 DEF Tx
    <3>5. <<files[tx[p].old.pdf_path]>> \in Seq(File)
          /\ Append(tx[p].got, files[tx[p].old.pdf_path]) \in Seq(File)
        BY <3>3, <3>4
    <3>6. CASE ReadChunk1(p)
        BY <2>2, <3>5, <3>6 DEF ReadChunk1
    <3>7. CASE ReadChunk2(p)
        BY <2>2, <3>5, <3>7 DEF ReadChunk2
    <3>8. QED
        BY <2>3, <3>6, <3>7
  <2>4. QED
      BY <2>1, <2>3 DEF Flush, Reply
<1>4. TypeOK'
    BY <1>1, <1>2, <1>3 DEF TypeOK
<1>5. \A z \in Request, r \in Report : InFlight(z, r)' => InFlight(z, r)
    BY <1>1, <1>2, <1>3 DEF InFlight
<1>6. \A q \in Request : pc[q] # "idle" => tx[q].report \in Report
    BY DEF IInv, TxOK, Tx
<1>7. \A r \in Report : ReportOK(r)' /\ (Stored(r)' <=> Stored(r))
    BY <1>1, ReportsUnchanged
<1>8. TxOK(p)'
  <2>1. CASE tx[p].op = "create"
    <3>1. CreateOK(p) /\ pc[p] \in {"flush", "reply", "commit"}
          /\ pc'[p] \in {"reply", "commit"}
        BY <1>1, <1>2, <2>1 DEF TxOK, CreateOK
    <3>2. CreateOK(p)'
        BY <1>1, <1>3, <1>5, <1>6, <1>7, <3>1 DEF CreateOK
    <3>3. QED
        BY <1>2, <1>3, <2>1, <3>2 DEF TxOK
  <2>2. CASE tx[p].op # "create"
    <3>1. LoadedOK(p)
        BY <1>1, <2>2 DEF TxOK
    <3>2. NewPath(tx[p])' = NewPath(tx[p])
        BY <1>3 DEF NewPath, NewVersion
    <3>3. LoadedOK(p)'
        BY <1>1, <1>2, <1>3, <1>6, <1>7, <3>1, <3>2 DEF LoadedOK, SoundRow
    <3>4. QED
        BY <1>2, <1>3, <2>2, <3>3 DEF TxOK
  <2>3. QED
      BY <2>1, <2>2
<1>9. ASSUME NEW q \in Request, q # p
      PROVE  TxOK(q)'
  <2>1. pc'[q] = pc[q] /\ tx'[q] = tx[q]
      BY <1>2, <1>3, <1>9
  <2>2. pc[q] # "idle" /\ tx[q].op = "create" =>
            /\ ~Stored(tx[q].report)'
            /\ \A z \in Request : InFlight(z, tx[q].report)' => z = q
      BY <1>5, <1>6, <1>7, <2>1 DEF IInv, TxOK, CreateOK
  <2>3. pc[q] # "idle" /\ tx[q].op # "create" => Stored(tx[q].report)'
      BY <1>6, <1>7, <2>1 DEF IInv, TxOK, LoadedOK
  <2>4. QED
      BY <1>1, <2>1, <2>2, <2>3, OtherTx
<1>10. QED
    BY <1>4, <1>7, <1>8, <1>9 DEF IInv
\* The end of a request, by commit or rollback: enough to check its report.
LEMMA EndStep ==
    ASSUME IInv, NEW p \in Request, NEW s \in Report,
           pc[p] # "idle", tx[p].report = s, End(p), UNCHANGED files,
           row' \in [Report -> Row \cup {NoRow}],
           versions' \in [Report -> Seq(Snapshot)],
           audit' \subseteq AuditEntry,
           \A r \in Report : Stored(r) => Stored(r)',
           \A r \in Report \ {s} :
               row'[r] = row[r] /\ versions'[r] = versions[r],
           ReportOK(s)'
    PROVE  IInv'
<1>1. TypeOK /\ tx[p] \in Tx /\ tx[p].report \in Report
    BY DEF IInv, TxOK, Tx
<1>2. /\ pc' \in [Request -> Step] /\ tx' \in [Request -> Tx \cup {NoTx}]
      /\ pc'[p] = "idle" /\ tx'[p] = NoTx
      /\ \A q \in Request \ {p} : pc'[q] = pc[q] /\ tx'[q] = tx[q]
    BY <1>1 DEF End, TypeOK, Step
<1>3. TypeOK'
    BY <1>1, <1>2 DEF TypeOK
<1>4. ASSUME NEW r \in Report
      PROVE  ReportOK(r)'
  <2>1. CASE r = s
      BY <2>1
  <2>2. CASE r # s
    <3>1. row'[r] = row[r] /\ versions'[r] = versions[r] /\ ReportOK(r)
        BY <2>2 DEF IInv
    <3>2. (Stored(r)' <=> Stored(r)) /\ (Stored(r) => SoundRow(r, row[r])')
        BY <3>1 DEF ReportOK, Stored, SoundRow
    <3>3. ASSUME NEW i \in 1..Len(versions[r])
          PROVE  SoundSnapshot(r, versions[r][i])'
      <4>1. SoundSnapshot(r, versions[r][i])
          BY <3>1 DEF ReportOK
      <4>2. files' = files /\ versions'[r][i] = versions[r][i]
          BY <3>1
      <4>3. QED
          BY <4>1, <4>2 DEF SoundSnapshot
    <3>4. QED
        BY <3>1, <3>2, <3>3 DEF ReportOK
  <2>3. QED
      BY <2>1, <2>2
<1>5. TxOK(p)'
    BY <1>2 DEF TxOK
<1>6. ASSUME NEW q \in Request, q # p
      PROVE  TxOK(q)'
  <2>1. pc'[q] = pc[q] /\ tx'[q] = tx[q]
        /\ (pc[q] # "idle" => tx[q].report \in Report)
      BY <1>2, <1>6 DEF IInv, TxOK, Tx
  <2>2. ASSUME pc[q] # "idle", tx[q].op = "create"
        PROVE  /\ ~Stored(tx[q].report)'
               /\ \A z \in Request : InFlight(z, tx[q].report)' => z = q
    <3>1. CreateOK(q)
        BY <2>2 DEF IInv, TxOK
    <3>2. tx[p].report # tx[q].report
        BY <1>6, <3>1 DEF CreateOK, InFlight
    <3>3. ~Stored(tx[q].report)'
        BY <2>1, <2>2, <3>1, <3>2 DEF CreateOK, Stored
    <3>4. \A z \in Request :
              InFlight(z, tx[q].report)' => InFlight(z, tx[q].report)
        BY <1>2, <2>1 DEF InFlight
    <3>5. QED
        BY <3>1, <3>3, <3>4 DEF CreateOK
  <2>3. pc[q] # "idle" /\ tx[q].op # "create" => Stored(tx[q].report)'
      BY <2>1 DEF IInv, TxOK, LoadedOK
  <2>4. QED
      BY <2>1, <2>2, <2>3, OtherTx
<1>7. QED
    BY <1>3, <1>4, <1>5, <1>6 DEF IInv

\* A rollback keeps it: the files it leaves behind are named by no row.
LEMMA AbortStep ==
    ASSUME IInv, NEW p \in Request, Abort(p)
    PROVE  IInv'
<1>1. /\ pc[p] # "idle" /\ End(p) /\ UNCHANGED <<row, versions, audit, files>>
      /\ tx[p].report \in Report
    BY DEF Abort, IInv, TxOK, Tx
<1>2. /\ \A r \in Report : ReportOK(r)'
      /\ \A r : Stored(r)' <=> Stored(r)
    BY <1>1, ReportsUnchanged
<1>3. /\ row' \in [Report -> Row \cup {NoRow}]
      /\ versions' \in [Report -> Seq(Snapshot)]
      /\ audit' \subseteq AuditEntry
    BY <1>1 DEF IInv, TypeOK
<1>4. QED
    BY <1>1, <1>2, <1>3, EndStep

\* The commit of a create keeps the invariant.
LEMMA CommitCreateStep ==
    ASSUME IInv, NEW p \in Request, CommitCreate(p)
    PROVE  IInv'
<1> DEFINE r == tx[p].report
<1>1. /\ TypeOK /\ tx[p] \in Tx /\ r \in Report /\ tx[p].op = "create"
      /\ CreateOK(p) /\ pc[p] = "commit" /\ ReportOK(r)
    BY DEF IInv, TxOK, Tx, CommitCreate
<1>2. /\ row' = [row EXCEPT ![r] = CreatedRow(tx[p])]
      /\ UNCHANGED <<versions, files>> /\ End(p)
    BY DEF CommitCreate
<1>3. /\ CreatedRow(tx[p]) \in Row
      /\ CreatedRow(tx[p]).pdf_path = report_relpath(r, 1)
      /\ CreatedRow(tx[p]).version = 1
      /\ CreatedRow(tx[p]).doc = tx[p].new
    BY <1>1, CreatedRowFacts
<1>4. /\ files[report_relpath(r, 1)] = render_pdf(1, tx[p].new)
      /\ files[report_relpath(r, 1)] # Absent
    BY <1>1, PdfFacts, MarkerFacts DEF CreateOK, Tx
<1>5. /\ row' \in [Report -> Row \cup {NoRow}]
      /\ row'[r] = CreatedRow(tx[p])
      /\ \A s \in Report \ {r} : row'[s] = row[s]
    BY <1>1, <1>2, <1>3 DEF TypeOK
<1>6. \A s \in Report : Stored(s) => Stored(s)'
    BY <1>1, <1>3, <1>5, MarkerFacts DEF Stored
<1>7. audit' \subseteq AuditEntry
    BY <1>1, MarkerFacts
    DEF CommitCreate, Log, AuditEntry, Tx, TypeOK
<1>8. versions' \in [Report -> Seq(Snapshot)]
    BY <1>1, <1>2 DEF TypeOK
<1>9. ASSUME NEW s \in Report, s = r
      PROVE  ReportOK(s)'
  <2>1. versions'[s] = <<>>
      BY <1>1, <1>2, <1>9 DEF CreateOK, ReportOK
  <2>2. SoundRow(s, row[s])'
      BY <1>2, <1>3, <1>4, <1>5, <1>9 DEF SoundRow
  <2>3. Stored(s)'
      BY <1>3, <1>5, <1>9, MarkerFacts DEF Stored
  <2>4. QED
      BY <2>1, <2>2, <2>3 DEF ReportOK
<1>10. QED
    BY <1>1, <1>2, <1>5, <1>6, <1>7, <1>8, <1>9, EndStep

\* The commit of an update keeps the invariant.
LEMMA CommitUpdateStep ==
    ASSUME IInv, NEW p \in Request, CommitUpdate(p)
    PROVE  IInv'
<1> DEFINE r == tx[p].report
           t == tx[p]
<1>1. /\ TypeOK /\ t \in Tx /\ r \in Report /\ t.op = "update"
      /\ LoadedOK(p) /\ pc[p] = "commit" /\ ReportOK(r)
      /\ t.old \in Row /\ t.old.version < MaxVersion
    BY DEF IInv, TxOK, Tx, CommitUpdate, LoadedOK, SoundRow
<1>2. /\ row' = [row EXCEPT ![r] = ReplacedRow(t, row[r])]
      /\ versions' = [versions EXCEPT ![r] = Append(versions[r], SnapshotOf(t))]
      /\ UNCHANGED files /\ End(p)
    BY DEF CommitUpdate
<1>3. row[r] \in Row
    BY <1>1, StoredFacts DEF LoadedOK
<1>4. /\ ReplacedRow(t, row[r]) \in Row
      /\ NewVersion(t) \in Version /\ NewVersion(t) # 1
      /\ ReplacedRow(t, row[r]).pdf_path = NewPath(t)
      /\ NewPath(t) = report_relpath(r, NewVersion(t))
      /\ ReplacedRow(t, row[r]).version = NewVersion(t)
    BY <1>1, <1>3, ReplacedRowFacts DEF NewPath
<1>5. /\ row' \in [Report -> Row \cup {NoRow}]
      /\ row'[r] = ReplacedRow(t, row[r])
      /\ \A s \in Report \ {r} : row'[s] = row[s]
    BY <1>1, <1>2, <1>4 DEF TypeOK
<1>6. \A s \in Report : Stored(s) => Stored(s)'
    BY <1>4, <1>5, MarkerFacts DEF Stored
<1>7. audit' \subseteq AuditEntry
    BY <1>1, <1>4 DEF CommitUpdate, Log, AuditEntry, Tx, TypeOK
<1>8. /\ SnapshotOf(t) \in Snapshot
      /\ SnapshotOf(t).version = t.old.version
      /\ SnapshotOf(t).data = t.old.doc.data
      /\ SnapshotOf(t).pdf_path = t.old.pdf_path
      /\ \E c \in CaseId : render_pdf(1, t.old.doc) =
             render_pdf(1, [case_id |-> c, data |-> t.old.doc.data])
    BY <1>1, SnapshotFacts, MarkerFacts
<1>9. versions[r] \in Seq(Snapshot)
    BY <1>1 DEF TypeOK
<1>10. /\ versions' \in [Report -> Seq(Snapshot)]
       /\ versions'[r] = Append(versions[r], SnapshotOf(t))
       /\ \A s \in Report \ {r} : versions'[s] = versions[s]
    BY <1>1, <1>2, <1>8, <1>9 DEF TypeOK
<1>11. SoundSnapshot(r, SnapshotOf(t))
    BY <1>1, <1>8 DEF SoundSnapshot, LoadedOK, SoundRow
<1>12. ASSUME NEW s \in Report, s = r
       PROVE  ReportOK(s)'
  <2>1. SoundRow(s, row[s])'
      BY <1>1, <1>2, <1>4, <1>5, <1>12 DEF SoundRow, LoadedOK
  <2>2. Stored(s)'
      BY <1>4, <1>5, <1>12, MarkerFacts DEF Stored
  <2>3. ASSUME NEW i \in 1..Len(versions'[s])
        PROVE  SoundSnapshot(s, versions[s][i])'
    <3>1. \/ i \in 1..Len(versions[r]) /\ versions'[s][i] = versions[r][i]
          \/ versions'[s][i] = SnapshotOf(t)
        BY <1>8, <1>9, <1>10, <1>12, <2>3
    <3>2. SoundSnapshot(r, versions'[s][i])
        BY <1>1, <1>11, <3>1 DEF ReportOK
    <3>3. QED
        BY <1>2, <1>12, <3>2 DEF SoundSnapshot
  <2>4. QED
      BY <2>1, <2>2, <2>3 DEF ReportOK
<1>13. QED
    BY <1>1, <1>2, <1>5, <1>6, <1>7, <1>10, <1>12, EndStep

\* The commit of a soft-delete keeps the invariant.
LEMMA CommitDeleteStep ==
    ASSUME IInv, NEW p \in Request, CommitDelete(p)
    PROVE  IInv'
<1> DEFINE r == tx[p].report
           w == [row[r] EXCEPT !.deleted = TRUE]
<1>1. /\ TypeOK /\ tx[p] \in Tx /\ r \in Report /\ tx[p].op = "delete"
      /\ LoadedOK(p) /\ pc[p] = "commit" /\ ReportOK(r)
    BY DEF IInv, TxOK, Tx, CommitDelete
<1>2. /\ row' = [row EXCEPT ![r].deleted = TRUE]
      /\ UNCHANGED <<versions, files>> /\ End(p)
    BY DEF CommitDelete
<1>3. row[r] \in Row
    BY <1>1, StoredFacts DEF LoadedOK
<1>4. /\ w \in Row /\ w.pdf_path = row[r].pdf_path /\ w.doc = row[r].doc
      /\ w.version = row[r].version
    BY <1>3 DEF Row
<1>5. /\ row' \in [Report -> Row \cup {NoRow}]
      /\ row'[r] = w
      /\ \A s \in Report \ {r} : row'[s] = row[s]
    BY <1>1, <1>2, <1>4 DEF TypeOK
<1>6. \A s \in Report : Stored(s) => Stored(s)'
    BY <1>4, <1>5, MarkerFacts DEF Stored
<1>7. tx[p].old.version \in Version
    BY <1>1 DEF LoadedOK, SoundRow, Row
<1>8. audit' \subseteq AuditEntry
    BY <1>1, <1>7 DEF CommitDelete, Log, AuditEntry, Tx, TypeOK
<1>9. versions' \in [Report -> Seq(Snapshot)]
    BY <1>1, <1>2 DEF TypeOK
<1>10. ASSUME NEW s \in Report, s = r
       PROVE  ReportOK(s)'
  <2>1. Stored(s) /\ SoundRow(s, row[s])
      BY <1>1, <1>10 DEF ReportOK, LoadedOK
  <2>2. SoundRow(s, row[s])'
      BY <1>2, <1>4, <1>5, <1>10, <2>1 DEF SoundRow
  <2>3. Stored(s)'
      BY <1>6, <2>1
  <2>4. \A i \in 1..Len(versions[s]) : SoundSnapshot(s, versions[s][i])'
      BY <1>1, <1>2, <1>10 DEF ReportOK, SoundSnapshot
  <2>5. QED
      BY <1>2, <2>2, <2>3, <2>4 DEF ReportOK
<1>11. QED
    BY <1>1, <1>2, <1>5, <1>6, <1>8, <1>9, <1>10, EndStep

\* The commit of a download keeps the invariant.
LEMMA CommitDownloadStep ==
    ASSUME IInv, NEW p \in Request, CommitDownload(p)
    PROVE  IInv'
<1>1. /\ TypeOK /\ tx[p] \in Tx /\ tx[p].report \in Report
      /\ LoadedOK(p) /\ pc[p] = "commit"
    BY DEF IInv, TxOK, Tx, CommitDownload
<1>2. UNCHANGED <<row, versions, files>> /\ End(p)
    BY DEF CommitDownload
<1>3. tx[p].old.version \in Version
    BY <1>1 DEF LoadedOK, SoundRow, Row
<1>4. audit' \subseteq AuditEntry
    BY <1>1, <1>3 DEF CommitDownload, Log, AuditEntry, Tx, TypeOK
<1>5. /\ \A r \in Report : ReportOK(r)'
      /\ \A r : Stored(r)' <=> Stored(r)
    BY <1>2, ReportsUnchanged
<1>6. QED
    BY <1>1, <1>2, <1>4, <1>5, EndStep DEF TypeOK
-----------------------------------------------------------------------------
(***************************************************************************)
(* The theorems.                                                           *)
(***************************************************************************)
LEMMA InitStep == Init => IInv
<1> SUFFICES ASSUME Init
             PROVE  IInv
    OBVIOUS
<1>1. TypeOK
    BY MarkerFacts DEF Init, TypeOK, Step
<1>2. \A p \in Request : TxOK(p)
    BY DEF Init, TxOK
<1>3. \A r \in Report : ~Stored(r) /\ versions[r] = <<>> /\ Len(<<>>) = 0
    BY DEF Init, Stored
<1>4. ASSUME NEW r \in Report
      PROVE  ReportOK(r)
  <2>1. 1..Len(versions[r]) = {}
      BY <1>3
  <2>2. QED
      BY <1>3, <2>1 DEF ReportOK
<1>5. QED
    BY <1>1, <1>2, <1>4 DEF IInv

\* A step that changes nothing keeps the invariant.
LEMMA StutterStep == IInv /\ UNCHANGED vars => IInv'
<1> SUFFICES ASSUME IInv, UNCHANGED vars
             PROVE  IInv'
    OBVIOUS
<1>1. TypeOK'
    BY DEF IInv, TypeOK, vars
<1>2. /\ \A r \in Report : ReportOK(r)'
      /\ \A r : Stored(r)' <=> Stored(r)
    BY ReportsUnchanged DEF vars
<1>3. ASSUME NEW q \in Request
      PROVE  TxOK(q)'
  <2>1. pc[q] # "idle" /\ tx[q].op = "create" =>
            /\ ~Stored(tx[q].report)
            /\ \A z \in Request : InFlight(z, tx[q].report)' => z = q
      BY DEF IInv, TxOK, CreateOK, InFlight, vars
  <2>2. pc[q] # "idle" /\ tx[q].op # "create" => Stored(tx[q].report)
      BY DEF IInv, TxOK, LoadedOK
  <2>3. QED
      BY <1>2, <2>1, <2>2, OtherTx DEF vars
<1>4. QED
    BY <1>1, <1>2, <1>3 DEF IInv

\* Every first step of a request keeps the invariant.
LEMMA StartStep ==
    ASSUME IInv, NEW p \in Request, Start(p)
    PROVE  IInv'
<1>1. PICK a \in Actor, r \in Report :
          \/ \E d \in Doc : CreateReport(p, a, r, d)
          \/ \E d \in Doc : UpdateReport(p, a, r, d)
          \/ DeleteReport(p, a, r)
          \/ DownloadPdf(p, a, r)
          \/ Refuse(p, a, r)
    BY DEF Start
<1>2. ASSUME NEW d \in Doc, CreateReport(p, a, r, d)
      PROVE  IInv'
    BY <1>2, CreateReportStep
<1>3. Live(r) => row[r] \in Row /\ row[r].doc \in Doc
    BY StoredFacts DEF IInv, Live, Row
<1>4. ASSUME NEW d \in Doc, UpdateReport(p, a, r, d)
      PROVE  IInv'
  <2> DEFINE t == [op |-> "update", actor |-> a, report |-> r,
                   old |-> row[r], new |-> d, got |-> <<>>]
  <2>1. t \in Tx
      BY <1>3, <1>4 DEF UpdateReport, Tx
  <2>2. QED
      BY <1>4, <2>1, LoadStep DEF UpdateReport, Step
<1>5. CASE DeleteReport(p, a, r)
  <2> DEFINE t == [op |-> "delete", actor |-> a, report |-> r,
                   old |-> row[r], new |-> row[r].doc, got |-> <<>>]
  <2>1. t \in Tx
      BY <1>3, <1>5 DEF DeleteReport, Tx
  <2>2. QED
      BY <1>5, <2>1, LoadStep DEF DeleteReport, Step
<1>6. CASE DownloadPdf(p, a, r)
  <2> DEFINE t == [op |-> "download", actor |-> a, report |-> r,
                   old |-> row[r], new |-> row[r].doc, got |-> <<>>]
  <2>1. t \in Tx
      BY <1>3, <1>6 DEF DownloadPdf, Tx
  <2>2. QED
      BY <1>6, <2>1, LoadStep DEF DownloadPdf, Step
<1>7. CASE Refuse(p, a, r)
    BY <1>7, StutterStep DEF Refuse
<1>8. QED
    BY <1>1, <1>2, <1>4, <1>5, <1>6, <1>7

\* Every step keeps the invariant.
LEMMA NextStep == IInv /\ [Next]_vars => IInv'
<1> SUFFICES ASSUME IInv, [Next]_vars
             PROVE  IInv'
    OBVIOUS
<1>1. CASE UNCHANGED vars
    BY <1>1, StutterStep
<1>2. ASSUME NEW p \in Request,
             Start(p) \/ Proceed(p) \/ Flush(p) \/ Abort(p)
      PROVE  IInv'
  <2>1. CASE Start(p)
      BY <2>1, StartStep
  <2>2. CASE OpenFile(p) \/ WriteFile(p)
      BY <2>2, FileStep
  <2>3. CASE Flush(p) \/ Reply(p) \/ ReadChunk1(p) \/ ReadChunk2(p)
      BY <2>3, MoveStep
  <2>4. CASE Commit(p)
      BY <2>4, CommitCreateStep, CommitUpdateStep, CommitDeleteStep,
         CommitDownloadStep DEF Commit
  <2>5. CASE Abort(p)
      BY <2>5, AbortStep
  <2>6. QED
      BY <1>2, <2>1, <2>2, <2>3, <2>4, <2>5 DEF Proceed
<1>3. QED
    BY <1>1, <1>2 DEF Next

\* The invariant holds in every reachable state.
LEMMA Invariance == Spec => []IInv
BY InitStep, NextStep, PTL DEF Spec

\* Every reachable state is well typed, whatever the constants.
THEOREM TypeCorrect == Spec => []TypeOK
<1>1. IInv => TypeOK
    BY DEF IInv
<1>2. QED
    BY Invariance, <1>1, PTL

\* No committed row or snapshot ever points at a PDF that is not on disk
\* (report_service.create and update write the file first), under any
\* interleaving of any number of requests and any failures.
THEOREM PdfOnDisk == Spec => []PublishedPdfExists
<1>1. IInv => PublishedPdfExists
    BY DEF IInv, ReportOK, SoundRow, SoundSnapshot, PublishedPdfExists
<1>2. QED
    BY Invariance, <1>1, PTL

\* The PDF a report was created with is never lost to an edit: it shows the
\* row while that is at version 1 and each snapshot of version 1 after that.
THEOREM OriginalKept == Spec => []OriginalPdfKept
<1>1. IInv => OriginalPdfKept
    BY DEF IInv, ReportOK, SoundRow, SoundSnapshot, OriginalPdfKept
<1>2. QED
    BY Invariance, <1>1, PTL
-----------------------------------------------------------------------------
(***************************************************************************)
(* Identity and audit.                                                     *)
(***************************************************************************)

\* Only a commit changes what is committed.
LEMMA OnlyCommits ==
    ASSUME [Next]_vars
    PROVE  \/ UNCHANGED <<row, versions, audit>>
           \/ \E p \in Request : Commit(p)
BY DEF Next, Start, Proceed, CreateReport, UpdateReport, DeleteReport,
       DownloadPdf, Refuse, Begin, OpenFile, WriteFile, Reply, ReadChunk1,
       ReadChunk2, Flush, Abort, vars

\* The three commits that write a row, in terms of that row.
LEMMA CommitRows ==
    ASSUME IInv, NEW p \in Request, NEW r \in Report, tx[p].report = r
    PROVE  /\ CommitCreate(p) =>
                /\ ~Stored(r) /\ tx[p] \in Tx /\ tx[p].op = "create"
                /\ row'[r] = CreatedRow(tx[p])
           /\ CommitUpdate(p) =>
                /\ Stored(r) /\ row[r] \in Row /\ row'[r] \in Row
                /\ row'[r].user_id = row[r].user_id
                /\ row'[r].organisation_id = row[r].organisation_id
                /\ row'[r].deleted = row[r].deleted
           /\ CommitDelete(p) =>
                /\ Stored(r) /\ row[r] \in Row /\ row'[r] \in Row
                /\ row'[r].user_id = row[r].user_id
                /\ row'[r].organisation_id = row[r].organisation_id
                /\ row'[r].deleted
<1>1. TypeOK
    BY DEF IInv
<1>2. CommitCreate(p) =>
          /\ ~Stored(r) /\ tx[p] \in Tx /\ tx[p].op = "create"
          /\ row'[r] = CreatedRow(tx[p])
    BY <1>1 DEF IInv, TxOK, CreateOK, CommitCreate, TypeOK
<1>3. ASSUME CommitUpdate(p) \/ CommitDelete(p)
      PROVE  /\ Stored(r) /\ row[r] \in Row /\ tx[p] \in Tx /\ LoadedOK(p)
    BY <1>1, <1>3, StoredFacts
    DEF IInv, TxOK, LoadedOK, CommitUpdate, CommitDelete
<1>4. CommitUpdate(p) =>
          /\ row'[r] \in Row
          /\ row'[r].user_id = row[r].user_id
          /\ row'[r].organisation_id = row[r].organisation_id
          /\ row'[r].deleted = row[r].deleted
  <2> SUFFICES ASSUME CommitUpdate(p)
               PROVE  /\ row'[r] \in Row
                      /\ row'[r].user_id = row[r].user_id
                      /\ row'[r].organisation_id = row[r].organisation_id
                      /\ row'[r].deleted = row[r].deleted
      OBVIOUS
  <2>1. row'[r] = ReplacedRow(tx[p], row[r])
      BY <1>1 DEF CommitUpdate, TypeOK
  <2>2. /\ tx[p].op = "update" /\ tx[p].old \in Row
        /\ tx[p].old.version < MaxVersion
      BY <1>3 DEF CommitUpdate, LoadedOK, SoundRow
  <2>3. QED
      BY <1>3, <2>1, <2>2, ReplacedRowFacts
<1>5. CommitDelete(p) =>
          /\ row'[r] \in Row
          /\ row'[r].user_id = row[r].user_id
          /\ row'[r].organisation_id = row[r].organisation_id
          /\ row'[r].deleted
  <2>1. CommitDelete(p) => row'[r] = [row[r] EXCEPT !.deleted = TRUE]
      BY <1>1 DEF CommitDelete, TypeOK
  <2>2. QED
      BY <1>3, <2>1 DEF Row
<1>6. QED
    BY <1>2, <1>3, <1>4, <1>5

\* A commit leaves every other report alone, and a download's all of them.
LEMMA CommitElsewhere ==
    ASSUME IInv, NEW p \in Request, Commit(p), NEW r \in Report
    PROVE  /\ tx[p].report # r \/ CommitDownload(p) =>
                row'[r] = row[r] /\ versions'[r] = versions[r]
           /\ audit \subseteq audit'
BY DEF Commit, CommitCreate, CommitUpdate, CommitDelete, CommitDownload, Log,
       IInv, TypeOK

\* No step takes a stored report's creator, organisation or deletion away.
LEMMA IdentityStep ==
    ASSUME IInv, [Next]_vars, NEW r \in Report, Stored(r)
    PROVE  /\ row'[r] # NoRow
           /\ row'[r].user_id = row[r].user_id
           /\ row'[r].organisation_id = row[r].organisation_id
           /\ row[r].deleted => row'[r].deleted
<1>1. CASE row'[r] = row[r]
    BY <1>1 DEF Stored
<1>2. ASSUME NEW p \in Request, Commit(p), row'[r] # row[r]
      PROVE  /\ row'[r] # NoRow
             /\ row'[r].user_id = row[r].user_id
             /\ row'[r].organisation_id = row[r].organisation_id
             /\ row[r].deleted => row'[r].deleted
  <2>1. tx[p].report = r /\ ~CommitDownload(p)
      BY <1>2, CommitElsewhere
  <2>2. QED
      BY <1>2, <2>1, CommitRows, MarkerFacts DEF Commit
<1>3. QED
    BY <1>1, <1>2, OnlyCommits

\* A committed report never changes hands, never leaves its organisation and
\* never comes back from deletion, whatever commits after it was loaded.
THEOREM IdentityKept == Spec => IdentityIsStable
<1>1. IInv /\ [Next]_vars =>
          [\A r \in Report : Stored(r) =>
              /\ row'[r] # NoRow
              /\ row'[r].user_id = row[r].user_id
              /\ row'[r].organisation_id = row[r].organisation_id
              /\ row[r].deleted => row'[r].deleted]_vars
    BY IdentityStep
<1>2. QED
    BY Invariance, <1>1, PTL DEF Spec, IdentityIsStable

\* The audit entries a stored report needs.
AuditOK(r) ==
    /\ [action |-> "report.create", actor_id |-> row[r].user_id,
        resource_id |-> r, version |-> 0] \in audit
    /\ row[r].deleted =>
           \E e \in audit : e.action = "report.delete" /\ e.resource_id = r
    /\ \A i \in 1..Len(versions[r]) :
           [action |-> "report.update", actor_id |-> versions[r][i].edited_by,
            resource_id |-> r, version |-> versions[r][i].version + 1]
               \in audit

\* A step that changes a report writes the audit entry it needs.
LEMMA AuditStep ==
    ASSUME IInv, AuditExplainsHistory, [Next]_vars, NEW r \in Report
    PROVE  Stored(r)' => AuditOK(r)'
<1>1. Stored(r) => AuditOK(r)
    BY DEF AuditExplainsHistory, AuditOK
<1>2. CASE UNCHANGED <<row, versions, audit>>
    BY <1>1, <1>2 DEF AuditOK, Stored
<1>3. ASSUME NEW p \in Request, Commit(p)
      PROVE  Stored(r)' => AuditOK(r)'
  <2>1. audit \subseteq audit'
      BY <1>3, CommitElsewhere
  <2>2. CASE tx[p].report # r \/ CommitDownload(p)
    <3>1. row'[r] = row[r] /\ versions'[r] = versions[r]
        BY <1>3, <2>2, CommitElsewhere
    <3>2. QED
        BY <1>1, <2>1, <3>1 DEF AuditOK, Stored
  <2>3. CASE tx[p].report = r /\ CommitCreate(p)
    <3>1. /\ row'[r] = CreatedRow(tx[p]) /\ ~Stored(r)
          /\ CreatedRow(tx[p]).user_id = tx[p].actor
          /\ CreatedRow(tx[p]).deleted = FALSE
        BY <2>3, CommitRows, CreatedRowFacts
    <3>2. versions'[r] = <<>>
        BY <2>3, <3>1 DEF CommitCreate, IInv, ReportOK
    <3>3. [action |-> "report.create", actor_id |-> tx[p].actor,
           resource_id |-> r, version |-> 0] \in audit'
        BY <2>3 DEF CommitCreate, Log
    <3>4. 1..Len(versions'[r]) = {}
        BY <3>2
    <3>5. QED
        BY <3>1, <3>3, <3>4 DEF AuditOK
  <2>4. CASE tx[p].report = r /\ CommitUpdate(p)
    <3>1. /\ Stored(r)
          /\ row'[r].user_id = row[r].user_id
          /\ row'[r].deleted = row[r].deleted
        BY <2>4, CommitRows
    <3>2. /\ tx[p] \in Tx /\ tx[p].old \in Row /\ tx[p].op = "update"
        BY <2>4 DEF IInv, TxOK, LoadedOK, SoundRow, CommitUpdate
    <3>3. /\ versions[r] \in Seq(Snapshot)
          /\ SnapshotOf(tx[p]) \in Snapshot
          /\ SnapshotOf(tx[p]).version = tx[p].old.version
          /\ SnapshotOf(tx[p]).edited_by = tx[p].actor
          /\ versions'[r] = Append(versions[r], SnapshotOf(tx[p]))
        BY <2>4, <3>2, SnapshotFacts DEF CommitUpdate, IInv, TypeOK
    <3>4. [action |-> "report.update", actor_id |-> tx[p].actor,
           resource_id |-> r, version |-> tx[p].old.version + 1] \in audit'
        BY <2>4, <3>2 DEF CommitUpdate, Log, NewVersion
    <3>5. ASSUME NEW i \in 1..Len(versions'[r])
          PROVE  [action |-> "report.update",
                  actor_id |-> versions'[r][i].edited_by, resource_id |-> r,
                  version |-> versions'[r][i].version + 1] \in audit'
      <4>1. \/ i \in 1..Len(versions[r]) /\ versions'[r][i] = versions[r][i]
            \/ versions'[r][i] = SnapshotOf(tx[p])
          BY <3>3, <3>5
      <4>2. CASE i \in 1..Len(versions[r]) /\ versions'[r][i] = versions[r][i]
          BY <1>1, <2>1, <3>1, <4>2 DEF AuditOK
      <4>3. CASE versions'[r][i] = SnapshotOf(tx[p])
          BY <3>3, <3>4, <4>3
      <4>4. QED
          BY <4>1, <4>2, <4>3
    <3>6. QED
        BY <1>1, <2>1, <3>1, <3>5 DEF AuditOK
  <2>5. CASE tx[p].report = r /\ CommitDelete(p)
    <3>1. Stored(r) /\ row'[r].user_id = row[r].user_id
        BY <2>5, CommitRows
    <3>2. versions'[r] = versions[r]
        BY <2>5 DEF CommitDelete
    <3>3. \E e \in audit' : e.action = "report.delete" /\ e.resource_id = r
      <4> DEFINE entry == [action |-> "report.delete", actor_id |-> tx[p].actor,
                           resource_id |-> tx[p].report, version |-> 0]
      <4>1. entry \in audit'
          BY <2>5 DEF CommitDelete, Log
      <4>2. entry.action = "report.delete" /\ entry.resource_id = r
          BY <2>5
      <4>3. QED
          BY <4>1, <4>2
    <3>4. QED
        BY <1>1, <2>1, <3>1, <3>2, <3>3 DEF AuditOK
  <2>6. QED
      BY <1>3, <2>2, <2>3, <2>4, <2>5 DEF Commit
<1>4. QED
    BY <1>2, <1>3, OnlyCommits

\* No committed change of a report is missing from the audit log, and none is
\* attributed to anyone but its author.
THEOREM AuditKept == Spec => []AuditExplainsHistory
<1>1. Init => AuditExplainsHistory
    BY DEF Init, AuditExplainsHistory, Stored
<1>2. IInv /\ AuditExplainsHistory /\ [Next]_vars => AuditExplainsHistory'
    BY AuditStep DEF AuditExplainsHistory, AuditOK
<1>3. QED
    BY Invariance, <1>1, <1>2, PTL DEF Spec
-----------------------------------------------------------------------------
(***************************************************************************)
(* Edits separated by their commits.  What an edit has loaded is then      *)
(* still committed when it commits, but for the mark of a deletion; the    *)
(* file it writes is one version ahead of the row, and no other request    *)
(* writes there: that makes each step a step of ReportHistory or none.     *)
(***************************************************************************)
Writing(p) == pc[p] # "idle" /\ tx[p].op = "update"

\* Two rows of a report that differ at most in the mark of a deletion.
SameContent(v, w) == v.version = w.version /\ v.doc = w.doc

\* An edit is the only one of its report, the content of the row is as it was
\* loaded, and the edit is alone with the file that it writes.
WriterOK(p) ==
    Writing(p) =>
        /\ SameContent(tx[p].old, row[tx[p].report])
        /\ \A q \in Request : Writing(q) /\ tx[q].report = tx[p].report => q = p
        /\ pc[p] = "write" => files[NewPath(tx[p])] = Partial
        /\ pc[p] \in {"flush", "reply", "commit"} =>
               files[NewPath(tx[p])] = NewPdf(tx[p])

LoadedPdf(p) == render_pdf(tx[p].old.version, tx[p].old.doc)

\* A download reads the PDF of the row that it has loaded.
ReaderOK(p) ==
    pc[p] # "idle" /\ tx[p].op = "download" =>
        /\ pc[p] \in {"chunk1", "chunk2", "commit"}
        /\ tx[p].old.version <= row[tx[p].report].version
        /\ files[tx[p].old.pdf_path] = LoadedPdf(p)
        /\ pc[p] = "chunk2" => tx[p].got = <<LoadedPdf(p)>>
        /\ pc[p] = "commit" => tx[p].got = <<LoadedPdf(p), LoadedPdf(p)>>

RowShown(r) ==
    Stored(r) => files[row[r].pdf_path] = render_pdf(row[r].version, row[r].doc)

SerialInv ==
    /\ IInv
    /\ \A p \in Request : WriterOK(p) /\ ReaderOK(p)
    /\ \A r \in Report : RowShown(r)

\* What the invariant says of a request that has loaded a row.
LEMMA LoadedFacts ==
    ASSUME IInv, NEW p \in Request, pc[p] # "idle", tx[p].op # "create"
    PROVE  /\ tx[p] \in Tx /\ tx[p].report \in Report /\ LoadedOK(p)
           /\ Stored(tx[p].report) /\ row[tx[p].report] \in Row
           /\ tx[p].old \in Row /\ tx[p].old.pdf_path \in Path
           /\ tx[p].old.version \in Version /\ tx[p].old.version \in Nat
           /\ row[tx[p].report].version \in Nat
           /\ tx[p].old.pdf_path = report_relpath(tx[p].report, tx[p].old.version)
           /\ tx[p].op = "update" =>
                  /\ NewPath(tx[p]) \in Path /\ NewVersion(tx[p]) \in Version
                  /\ NewVersion(tx[p]) = tx[p].old.version + 1
                  /\ NewPath(tx[p]) = report_relpath(tx[p].report, NewVersion(tx[p]))
<1>1. tx[p] \in Tx /\ LoadedOK(p) /\ TypeOK
    BY DEF IInv, TxOK
<1>2. tx[p].report \in Report /\ Stored(tx[p].report)
    BY <1>1 DEF Tx, LoadedOK
<1>3. /\ row[tx[p].report] \in Row /\ tx[p].old \in Row
      /\ tx[p].old.pdf_path = report_relpath(tx[p].report, tx[p].old.version)
    BY <1>1, <1>2, StoredFacts DEF LoadedOK, SoundRow
<1>4. /\ tx[p].old.version \in Version /\ row[tx[p].report].version \in Version
      /\ tx[p].old.pdf_path \in Path
    BY <1>3 DEF Row
<1>5. tx[p].op = "update" =>
          /\ NewPath(tx[p]) \in Path /\ NewVersion(tx[p]) \in Version
          /\ NewVersion(tx[p]) = tx[p].old.version + 1
          /\ NewPath(tx[p]) = report_relpath(tx[p].report, NewVersion(tx[p]))
    BY <1>1, <1>3, ReplacedRowFacts DEF LoadedOK, NewPath
<1>6. \A v \in Version : v \in Nat
    BY MarkerFacts DEF Version
<1>7. QED
    BY <1>1, <1>2, <1>3, <1>4, <1>5, <1>6

\* Requests that take no part in a step.
LEMMA OtherSerial ==
    ASSUME SerialInv, NEW q \in Request, pc'[q] = pc[q], tx'[q] = tx[q],
           Writing(q) =>
               /\ SameContent(row[tx[q].report], row'[tx[q].report])
               /\ \A z \in Request :
                      Writing(z)' /\ tx'[z].report = tx[q].report => z = q
               /\ files'[NewPath(tx[q])] = files[NewPath(tx[q])],
           pc[q] # "idle" /\ tx[q].op = "download" =>
               /\ row[tx[q].report].version <= row'[tx[q].report].version
               /\ row'[tx[q].report].version \in Nat
               /\ files'[tx[q].old.pdf_path] = files[tx[q].old.pdf_path]
    PROVE  WriterOK(q)' /\ ReaderOK(q)'
<1>1. WriterOK(q) /\ ReaderOK(q) /\ IInv
    BY DEF SerialInv
<1>2. WriterOK(q)'
  <2>1. Writing(q)' <=> Writing(q)
      BY DEF Writing
  <2>2. QED
      BY <1>1, <2>1 DEF WriterOK, SameContent
<1>3. ReaderOK(q)'
  <2>1. SUFFICES ASSUME pc[q] # "idle", tx[q].op = "download"
                 PROVE  ReaderOK(q)'
      BY DEF ReaderOK
  <2>2. tx[q].old.version \in Nat /\ row[tx[q].report].version \in Nat
      BY <1>1, <2>1, LoadedFacts
  <2>3. tx[q].old.version <= row'[tx[q].report].version
      BY <1>1, <2>1, <2>2 DEF ReaderOK
  <2>4. LoadedPdf(q)' = LoadedPdf(q)
      BY DEF LoadedPdf
  <2>5. QED
      BY <1>1, <2>1, <2>3, <2>4 DEF ReaderOK
<1>4. QED
    BY <1>2, <1>3

\* A request begins: if it is an edit, no other edit of the report is left.
LEMMA SerialBegin ==
    ASSUME SerialInv, NEW p, NEW first, NEW t, Begin(p, first, t), p \in Request,
           first # "idle", t \in Tx, IInv',
           t.op # "create" => t.old = row[t.report] /\ Live(t.report),
           \/ t.op = "create"
           \/ t.op = "download" /\ first = "chunk1"
           \/ t.op = "delete"
           \/ /\ t.op = "update" /\ first = "open"
              /\ \A q \in Request : ~(Writing(q) /\ tx[q].report = t.report)
    PROVE  SerialInv'
<1>1. /\ IInv /\ TypeOK /\ pc[p] = "idle" /\ UNCHANGED <<row, versions, audit, files>>
      /\ pc'[p] = first /\ tx'[p] = t
      /\ \A q \in Request \ {p} : pc'[q] = pc[q] /\ tx'[q] = tx[q]
    BY DEF SerialInv, IInv, TypeOK, Begin
<1>2. ASSUME NEW q \in Request, q # p
      PROVE  WriterOK(q)' /\ ReaderOK(q)'
  <2>1. Writing(q) =>
            \A z \in Request : Writing(z)' /\ tx'[z].report = tx[q].report => z = q
    <3>1. SUFFICES ASSUME Writing(q), NEW z \in Request, Writing(z)',
                          tx'[z].report = tx[q].report
                   PROVE  z = q
        OBVIOUS
    <3>2. CASE z = p
        BY <1>1, <1>2, <3>1, <3>2 DEF Writing
    <3>3. CASE z # p
      <4>1. Writing(z) /\ tx[z].report = tx[q].report
          BY <1>1, <3>1, <3>3 DEF Writing
      <4>2. QED
          BY <3>1, <4>1 DEF SerialInv, WriterOK
    <3>4. QED
        BY <3>2, <3>3
  <2>2. pc[q] # "idle" /\ tx[q].op = "download" => row[tx[q].report].version \in Nat
      BY <1>1, LoadedFacts
  <2>3. QED
      BY <1>1, <1>2, <2>1, <2>2, OtherSerial DEF SameContent
<1>3. WriterOK(p)'
  <2>1. SUFFICES ASSUME t.op = "update"
                 PROVE  WriterOK(p)'
      BY <1>1 DEF WriterOK, Writing
  <2>2. t.old = row[t.report] /\ first = "open"
      BY <2>1
  <2>3. ASSUME NEW q \in Request, Writing(q)', tx'[q].report = t.report
        PROVE  q = p
      BY <1>1, <2>1, <2>3 DEF Writing
  <2>4. QED
      BY <1>1, <2>1, <2>2, <2>3 DEF WriterOK, SameContent
<1>4. ReaderOK(p)'
  <2>1. SUFFICES ASSUME t.op = "download"
                 PROVE  ReaderOK(p)'
      BY <1>1 DEF ReaderOK
  <2>2. /\ t.old = row[t.report] /\ first = "chunk1" /\ Stored(t.report)
        /\ t.report \in Report
      BY <2>1 DEF Live, Tx
  <2>3. row[t.report].version \in Nat
      BY <1>1, <2>2, StoredFacts, MarkerFacts DEF Row, Version
  <2>4. files[t.old.pdf_path] = render_pdf(t.old.version, t.old.doc)
      BY <2>2 DEF SerialInv, RowShown
  <2>5. LoadedPdf(p)' = render_pdf(t.old.version, t.old.doc)
      BY <1>1 DEF LoadedPdf
  <2>6. QED
      BY <1>1, <2>2, <2>3, <2>4, <2>5 DEF ReaderOK
<1>5. \A r \in Report : RowShown(r)'
    BY <1>1 DEF SerialInv, RowShown, Stored
<1>6. QED
    BY <1>2, <1>3, <1>4, <1>5 DEF SerialInv

\* Nobody but one edit writes ahead of a row, and nobody writes elsewhere.
LEMMA WritesAhead ==
    ASSUME SerialInv, NEW p \in Request, pc[p] \in {"open", "write"}
    PROVE  /\ NewPath(tx[p]) \in Path
           /\ \A r \in Report : Stored(r) => \A v \in Version :
                  v <= row[r].version => report_relpath(r, v) # NewPath(tx[p])
           /\ \A q \in Request \ {p} : Writing(q) =>
                  NewPath(tx[q]) # NewPath(tx[p])
<1>1. IInv /\ TypeOK /\ TxOK(p) /\ tx[p] \in Tx /\ tx[p].report \in Report
    BY DEF SerialInv, IInv, TxOK, Tx
<1>2. CASE tx[p].op = "create"
  <2>1. CreateOK(p) /\ NewPath(tx[p]) = report_relpath(tx[p].report, 1)
      BY <1>1, <1>2 DEF TxOK, NewPath, NewVersion
  <2>2. \A q \in Request \ {p} : Writing(q) => tx[q].report # tx[p].report
      BY <2>1 DEF CreateOK, InFlight, Writing
  <2>3. \A q \in Request : Writing(q) =>
            NewPath(tx[q]) = report_relpath(tx[q].report, NewVersion(tx[q]))
      BY <1>1, LoadedFacts DEF Writing
  <2>4. \A r \in Report : Stored(r) => r # tx[p].report
      BY <2>1 DEF CreateOK
  <2>5. QED
      BY <1>1, <2>1, <2>2, <2>3, <2>4, PathFacts, MarkerFacts
<1>3. CASE tx[p].op # "create"
  <2>1. Writing(p) /\ tx[p].op = "update"
      BY <1>1, <1>3 DEF TxOK, LoadedOK, Writing
  <2>2. /\ NewPath(tx[p]) \in Path /\ NewVersion(tx[p]) \in Version
        /\ NewVersion(tx[p]) = tx[p].old.version + 1 /\ tx[p].old.version \in Nat
        /\ NewPath(tx[p]) = report_relpath(tx[p].report, NewVersion(tx[p]))
      BY <1>1, <2>1, LoadedFacts DEF Writing
  <2>3. tx[p].old.version = row[tx[p].report].version
      BY <2>1 DEF SerialInv, WriterOK, SameContent
  <2>4. ASSUME NEW r \in Report, NEW v \in Version, v <= row[r].version
        PROVE  report_relpath(r, v) # NewPath(tx[p])
    <3>1. CASE r = tx[p].report
      <4>1. v \in Nat /\ v # NewVersion(tx[p])
          BY <2>2, <2>3, <2>4, <3>1, MarkerFacts DEF Version
      <4>2. QED
          BY <1>1, <2>2, <4>1, PathFacts
    <3>2. CASE r # tx[p].report
        BY <1>1, <2>2, <3>2, PathFacts
    <3>3. QED
        BY <3>1, <3>2
  <2>5. ASSUME NEW q \in Request \ {p}, Writing(q)
        PROVE  NewPath(tx[q]) # NewPath(tx[p])
    <3>1. tx[q].report # tx[p].report
        BY <2>1, <2>5 DEF SerialInv, WriterOK
    <3>2. NewPath(tx[q]) = report_relpath(tx[q].report, NewVersion(tx[q]))
        BY <1>1, <2>5, LoadedFacts DEF Writing
    <3>3. QED
        BY <1>1, <2>2, <3>1, <3>2, PathFacts
  <2>6. QED
      BY <2>2, <2>4, <2>5
<1>4. QED
    BY <1>2, <1>3

\* Writing ahead leaves the files up to the committed version alone.
LEMMA FilesBehind ==
    ASSUME SerialInv, NEW p \in Request, OpenFile(p) \/ WriteFile(p),
           NEW r \in Report, Stored(r), NEW v \in Version, v <= row[r].version
    PROVE  files'[report_relpath(r, v)] = files[report_relpath(r, v)]
<1>1. TypeOK /\ pc[p] \in {"open", "write"}
    BY DEF SerialInv, IInv, OpenFile, WriteFile
<1>2. \A x \in Path : x # NewPath(tx[p]) => files'[x] = files[x]
    BY <1>1 DEF TypeOK, OpenFile, WriteFile
<1>3. QED
    BY <1>1, <1>2, WritesAhead, PathFacts

LEMMA SerialFile ==
    ASSUME SerialInv, NEW p \in Request, OpenFile(p) \/ WriteFile(p), IInv'
    PROVE  SerialInv'
<1>1. /\ IInv /\ TypeOK /\ pc[p] \in {"open", "write"} /\ TxOK(p)
      /\ UNCHANGED <<row, versions, audit, tx>>
      /\ \A q \in Request \ {p} : pc'[q] = pc[q]
      /\ pc'[p] = IF pc[p] = "open" THEN "write" ELSE "flush"
    BY DEF SerialInv, IInv, TypeOK, OpenFile, WriteFile, Goto
<1>2. \A x \in Path : x # NewPath(tx[p]) => files'[x] = files[x]
    BY <1>1 DEF TypeOK, OpenFile, WriteFile
<1>3. \A q \in Request : Writing(q)' <=> Writing(q)
    BY <1>1 DEF Writing
<1>4. ASSUME NEW r \in Report, Stored(r), NEW v \in Version, v <= row[r].version
      PROVE  files'[report_relpath(r, v)] = files[report_relpath(r, v)]
    BY <1>4, FilesBehind
<1>5. ASSUME NEW q \in Request, q # p
      PROVE  WriterOK(q)' /\ ReaderOK(q)'
  <2>1. Writing(q) =>
            /\ \A z \in Request : Writing(z)' /\ tx'[z].report = tx[q].report => z = q
            /\ files'[NewPath(tx[q])] = files[NewPath(tx[q])]
    <3>1. SUFFICES ASSUME Writing(q)
                   PROVE  /\ \A z \in Request :
                                 Writing(z)' /\ tx'[z].report = tx[q].report => z = q
                          /\ files'[NewPath(tx[q])] = files[NewPath(tx[q])]
        OBVIOUS
    <3>2. \A z \in Request : Writing(z)' /\ tx'[z].report = tx[q].report => z = q
        BY <1>1, <1>3, <3>1 DEF SerialInv, WriterOK
    <3>3. NewPath(tx[q]) \in Path /\ NewPath(tx[q]) # NewPath(tx[p])
        BY <1>1, <1>5, <3>1, WritesAhead, LoadedFacts DEF Writing
    <3>4. QED
        BY <1>2, <3>2, <3>3
  <2>2. pc[q] # "idle" /\ tx[q].op = "download" =>
            /\ row[tx[q].report].version \in Nat
            /\ files'[tx[q].old.pdf_path] = files[tx[q].old.pdf_path]
    <3>1. SUFFICES ASSUME pc[q] # "idle", tx[q].op = "download"
                   PROVE  /\ row[tx[q].report].version \in Nat
                          /\ files'[tx[q].old.pdf_path] = files[tx[q].old.pdf_path]
        OBVIOUS
    <3>2. /\ tx[q].report \in Report /\ Stored(tx[q].report)
          /\ tx[q].old.version \in Version /\ row[tx[q].report].version \in Nat
          /\ tx[q].old.pdf_path = report_relpath(tx[q].report, tx[q].old.version)
        BY <1>1, <3>1, LoadedFacts
    <3>3. tx[q].old.version <= row[tx[q].report].version
        BY <3>1 DEF SerialInv, ReaderOK
    <3>4. QED
        BY <1>4, <3>2, <3>3
  <2>3. QED
      BY <1>1, <1>5, <2>1, <2>2, OtherSerial DEF SameContent
<1>6. tx[p].op \in {"create", "update"}
    BY <1>1 DEF TxOK, LoadedOK
<1>7. ReaderOK(p)'
    BY <1>1, <1>6 DEF ReaderOK
<1>8. WriterOK(p)'
  <2>1. SUFFICES ASSUME Writing(p)
                 PROVE  WriterOK(p)'
      BY <1>3 DEF WriterOK
  <2>2. WriterOK(p)
      BY DEF SerialInv
  <2>3. /\ pc'[p] = "write" => files'[NewPath(tx[p])] = Partial
        /\ pc'[p] = "flush" => files'[NewPath(tx[p])] = NewPdf(tx[p])
        /\ pc'[p] \in {"write", "flush"}
    <3>1. NewPath(tx[p]) \in Path /\ tx[p].op = "update"
        BY <1>1, <1>6, <2>1, WritesAhead DEF Writing
    <3>2. CASE OpenFile(p)
        BY <1>1, <3>1, <3>2 DEF TypeOK, OpenFile
    <3>3. CASE WriteFile(p)
        BY <1>1, <2>1, <2>2, <3>1, <3>3 DEF TypeOK, WriteFile, WriterOK
    <3>4. QED
        BY <3>2, <3>3
  <2>4. QED
      BY <1>1, <1>3, <2>1, <2>2, <2>3 DEF WriterOK
<1>9. ASSUME NEW r \in Report, Stored(r)
      PROVE  files'[row[r].pdf_path] = render_pdf(row[r].version, row[r].doc)
  <2>1. /\ row[r].version \in Version /\ row[r].version <= row[r].version
        /\ row[r].pdf_path = report_relpath(r, row[r].version)
    <3>1. SoundRow(r, row[r])
        BY <1>1, <1>9 DEF IInv, ReportOK
    <3>2. QED
        BY <3>1, MarkerFacts DEF SoundRow, Row, Version
  <2>2. QED
      BY <1>4, <1>9, <2>1 DEF SerialInv, RowShown
<1>10. \A r \in Report : RowShown(r)'
    BY <1>1, <1>9 DEF RowShown, Stored
<1>11. QED
    BY <1>5, <1>7, <1>8, <1>10 DEF SerialInv

\* Steps that touch neither a row nor a file leave the other requests alone.
LEMMA SerialOthers ==
    ASSUME SerialInv, NEW p \in Request, UNCHANGED <<row, files>>,
           \A q \in Request \ {p} : pc'[q] = pc[q] /\ tx'[q] = tx[q],
           Writing(p)' => Writing(p) /\ tx'[p].report = tx[p].report
    PROVE  /\ \A q \in Request \ {p} : WriterOK(q)' /\ ReaderOK(q)'
           /\ \A r \in Report : RowShown(r)'
<1>1. ASSUME NEW q \in Request \ {p}
      PROVE  WriterOK(q)' /\ ReaderOK(q)'
  <2>1. ASSUME Writing(q), NEW z \in Request, Writing(z)', tx'[z].report = tx[q].report
        PROVE  z = q
    <3>1. Writing(z) /\ tx[z].report = tx[q].report
        BY <2>1 DEF Writing
    <3>2. QED
        BY <2>1, <3>1 DEF SerialInv, WriterOK
  <2>2. pc[q] # "idle" /\ tx[q].op = "download" => row[tx[q].report].version \in Nat
      BY LoadedFacts DEF SerialInv
  <2>3. QED
      BY <1>1, <2>1, <2>2, OtherSerial DEF SameContent
<1>2. \A r \in Report : RowShown(r)'
    BY DEF SerialInv, RowShown, Stored
<1>3. QED
    BY <1>1, <1>2

\* A request that ends without writing a row.
LEMMA SerialEnd ==
    ASSUME SerialInv, NEW p \in Request, End(p), UNCHANGED <<row, files>>, IInv'
    PROVE  SerialInv'
<1>1. pc'[p] = "idle" /\ \A q \in Request \ {p} : pc'[q] = pc[q] /\ tx'[q] = tx[q]
    BY DEF SerialInv, IInv, TypeOK, End
<1>2. WriterOK(p)' /\ ReaderOK(p)'
    BY <1>1 DEF WriterOK, ReaderOK, Writing
<1>3. Writing(p)' => Writing(p) /\ tx'[p].report = tx[p].report
    BY <1>1 DEF Writing
<1>4. QED
    BY <1>1, <1>2, <1>3, SerialOthers DEF SerialInv

\* A sequence that is one element longer is what Append makes of the other.
LEMMA AppendIs ==
    ASSUME NEW S, NEW s \in Seq(S), NEW e \in S, NEW t \in Seq(S),
           Len(t) = Len(s) + 1, t[Len(s) + 1] = e,
           \A i \in 1..Len(s) : t[i] = s[i]
    PROVE  t = Append(s, e)
<1>1. /\ Append(s, e) \in Seq(S) /\ Len(Append(s, e)) = Len(s) + 1
      /\ Append(s, e)[Len(s) + 1] = e
      /\ \A i \in 1..Len(s) : Append(s, e)[i] = s[i]
    BY AppendProperties
<1>2. Len(s) \in Nat
    BY LenProperties
<1>3. ASSUME NEW i \in 1..Len(t)
      PROVE  t[i] = Append(s, e)[i]
  <2>1. i \in 1..Len(s) \/ i = Len(s) + 1
      BY <1>2, <1>3
  <2>2. QED
      BY <1>1, <2>1
<1>4. QED
    BY <1>1, <1>3, SeqEqual

LEMMA AppendToOne ==
    ASSUME NEW x, NEW y
    PROVE  Append(<<x>>, y) = <<x, y>>
<1>1. <<x>> \in Seq({x, y}) /\ <<x, y>> \in Seq({x, y})
    OBVIOUS
<1>2. /\ Len(<<x>>) = 1 /\ Len(<<x, y>>) = 2 /\ <<x, y>>[1] = x /\ <<x, y>>[2] = y
      /\ <<x>>[1] = x /\ y \in {x, y}
    OBVIOUS
<1>3. \A i \in 1..Len(<<x>>) : <<x, y>>[i] = <<x>>[i]
    BY <1>2
<1>4. Len(<<x, y>>) = Len(<<x>>) + 1 /\ <<x, y>>[Len(<<x>>) + 1] = y
    BY <1>2
<1>5. QED
    BY <1>1, <1>2, <1>3, <1>4, AppendIs

\* The steps between the first one and the commit.  A file that a download
\* reads is whole, so it never stops at the first chunk.
LEMMA SerialMove ==
    ASSUME SerialInv, NEW p \in Request,
           Flush(p) \/ Reply(p) \/ ReadChunk1(p) \/ ReadChunk2(p), IInv'
    PROVE  SerialInv'
<1>1. /\ IInv /\ TypeOK /\ TxOK(p) /\ pc[p] # "idle" /\ tx[p] \in Tx
      /\ UNCHANGED <<row, files>>
      /\ \A q \in Request \ {p} : pc'[q] = pc[q] /\ tx'[q] = tx[q]
    BY DEF SerialInv, IInv, TypeOK, TxOK, Flush, Reply, ReadChunk1, ReadChunk2, Goto
<1>2. WriterOK(p) /\ ReaderOK(p)
    BY DEF SerialInv
<1>3. CASE Flush(p) \/ Reply(p)
  <2>1. tx'[p] = tx[p] /\ pc[p] \in {"flush", "reply"} /\ pc'[p] \in {"reply", "commit"}
      BY <1>1, <1>3 DEF TypeOK, Flush, Reply, Goto
  <2>2. Writing(p)' => Writing(p) /\ tx'[p].report = tx[p].report
      BY <2>1 DEF Writing
  <2>3. tx[p].op # "download"
      BY <1>1, <1>2, <2>1 DEF ReaderOK
  <2>4. WriterOK(p)'
    <3>1. SUFFICES ASSUME Writing(p)'
                   PROVE  WriterOK(p)'
        BY DEF WriterOK
    <3>2. Writing(p)
        BY <2>2, <3>1
    <3>3. ASSUME NEW q \in Request, Writing(q)', tx'[q].report = tx'[p].report
          PROVE  q = p
        BY <1>1, <1>2, <2>1, <3>2, <3>3 DEF Writing, WriterOK
    <3>4. QED
        BY <1>1, <1>2, <2>1, <3>2, <3>3 DEF WriterOK
  <2>5. ReaderOK(p)'
      BY <2>1, <2>3 DEF ReaderOK
  <2>6. QED
      BY <1>1, <2>2, <2>4, <2>5, SerialOthers DEF SerialInv
<1>4. CASE ReadChunk1(p) \/ ReadChunk2(p)
  <2>1. pc[p] \in {"chunk1", "chunk2"} /\ tx[p].op = "download"
      BY <1>1, <1>4 DEF ReadChunk1, ReadChunk2, TxOK, CreateOK, LoadedOK
  <2>2. /\ tx'[p].op = "download" /\ tx'[p].old = tx[p].old
        /\ tx'[p].report = tx[p].report
      BY <1>1, <1>4, <2>1 DEF TypeOK, ReadChunk1, ReadChunk2, Tx
  <2>3. ~Writing(p)'
      BY <2>2 DEF Writing
  <2>4. LoadedPdf(p)' = LoadedPdf(p)
      BY <2>2 DEF LoadedPdf
  <2>5. files[tx[p].old.pdf_path] = LoadedPdf(p) /\ LoadedPdf(p) # Partial
    <3>1. tx[p].old \in Row
        BY <1>1, <2>1, LoadedFacts
    <3>2. tx[p].old.version \in Version /\ tx[p].old.doc \in Doc
        BY <3>1 DEF Row
    <3>3. QED
        BY <1>1, <1>2, <2>1, <3>2, PdfFacts DEF ReaderOK, LoadedPdf
  <2>6. CASE ReadChunk1(p)
    <3>1. pc'[p] = "chunk2" /\ tx'[p].got = <<LoadedPdf(p)>>
        BY <1>1, <2>5, <2>6 DEF TypeOK, ReadChunk1, Goto, Tx
    <3>2. ReaderOK(p)'
        BY <1>1, <1>2, <2>1, <2>2, <2>4, <2>5, <3>1 DEF ReaderOK
    <3>3. QED
        BY <1>1, <2>3, <3>2, SerialOthers DEF SerialInv, WriterOK
  <2>7. CASE ReadChunk2(p)
    <3>1. tx[p].got = <<LoadedPdf(p)>>
        BY <1>1, <1>2, <2>1, <2>7 DEF ReaderOK, ReadChunk2
    <3>2. tx'[p].got = Append(tx[p].got, files[tx[p].old.pdf_path])
        BY <1>1, <2>7 DEF TypeOK, ReadChunk2, Tx
    <3>3. Append(<<LoadedPdf(p)>>, LoadedPdf(p)) = <<LoadedPdf(p), LoadedPdf(p)>>
        BY AppendToOne
    <3>4. pc'[p] = "commit" /\ tx'[p].got = <<LoadedPdf(p), LoadedPdf(p)>>
        BY <1>1, <2>5, <2>7, <3>1, <3>2, <3>3 DEF TypeOK, ReadChunk2, Goto
    <3>5. ReaderOK(p)'
        BY <1>1, <1>2, <2>1, <2>2, <2>4, <2>5, <3>4 DEF ReaderOK
    <3>6. QED
        BY <1>1, <2>3, <3>5, SerialOthers DEF SerialInv, WriterOK
  <2>8. QED
      BY <1>4, <2>6, <2>7
<1>5. QED
    BY <1>3, <1>4

\* A commit that writes the row of a report: if an edit is under way, the
\* content stays; in any case the row does not lose a version.
LEMMA SerialCommit ==
    ASSUME SerialInv, NEW p \in Request, NEW r \in Report, pc[p] # "idle",
           tx[p].report = r, End(p), UNCHANGED files, IInv',
           \A s \in Report \ {r} : row'[s] = row[s],
           \A q \in Request \ {p} :
               Writing(q) /\ tx[q].report = r => SameContent(row[r], row'[r]),
           Stored(r) => row[r].version <= row'[r].version /\ Stored(r)',
           RowShown(r)'
    PROVE  SerialInv'
<1>1. /\ IInv /\ pc'[p] = "idle"
      /\ \A q \in Request \ {p} : pc'[q] = pc[q] /\ tx'[q] = tx[q]
    BY DEF SerialInv, IInv, TypeOK, End
<1>2. ASSUME NEW q \in Request \ {p}
      PROVE  WriterOK(q)' /\ ReaderOK(q)'
  <2>1. ASSUME Writing(q)
        PROVE  /\ SameContent(row[tx[q].report], row'[tx[q].report])
               /\ files'[NewPath(tx[q])] = files[NewPath(tx[q])]
               /\ \A z \in Request :
                      Writing(z)' /\ tx'[z].report = tx[q].report => z = q
    <3>1. SameContent(row[tx[q].report], row'[tx[q].report])
      <4>1. CASE tx[q].report = r
          BY <2>1, <4>1
      <4>2. CASE tx[q].report # r
          BY <1>1, <2>1, <4>2, LoadedFacts DEF Writing, SameContent
      <4>3. QED
          BY <4>1, <4>2
    <3>2. ASSUME NEW z \in Request, Writing(z)', tx'[z].report = tx[q].report
          PROVE  z = q
      <4>1. Writing(z) /\ tx[z].report = tx[q].report
          BY <1>1, <3>2 DEF Writing
      <4>2. QED
          BY <2>1, <4>1 DEF SerialInv, WriterOK
    <3>3. QED
        BY <3>1, <3>2
  <2>2. ASSUME pc[q] # "idle", tx[q].op = "download"
        PROVE  /\ row[tx[q].report].version <= row'[tx[q].report].version
               /\ row'[tx[q].report].version \in Nat
    <3>1. /\ tx[q].report \in Report /\ Stored(tx[q].report)
          /\ row[tx[q].report].version \in Nat
        BY <1>1, <2>2, LoadedFacts
    <3>2. CASE tx[q].report = r
      <4>1. row'[r] \in Row
          BY <3>1, <3>2 DEF IInv, TypeOK, Stored
      <4>2. row'[r].version \in Nat
          BY <4>1, MarkerFacts DEF Row, Version
      <4>3. QED
          BY <3>1, <3>2, <4>2
    <3>3. CASE tx[q].report # r
        BY <3>1, <3>3
    <3>4. QED
        BY <3>2, <3>3
  <2>3. QED
      BY <1>1, <1>2, <2>1, <2>2, OtherSerial
<1>3. WriterOK(p)' /\ ReaderOK(p)'
    BY <1>1 DEF WriterOK, ReaderOK, Writing
<1>4. ASSUME NEW s \in Report, s # r
      PROVE  RowShown(s)'
    BY <1>4 DEF SerialInv, RowShown, Stored
<1>5. QED
    BY <1>2, <1>3, <1>4 DEF SerialInv

LEMMA SerialCreate ==
    ASSUME SerialInv, NEW p \in Request, CommitCreate(p), IInv'
    PROVE  SerialInv'
<1>1. PICK r \in Report : r = tx[p].report
    BY DEF SerialInv, IInv, TxOK, Tx, CommitCreate
<1>2. /\ IInv /\ TypeOK /\ tx[p] \in Tx /\ tx[p].op = "create" /\ CreateOK(p)
      /\ pc[p] = "commit"
    BY DEF SerialInv, IInv, TxOK, CommitCreate
<1>3. /\ row'[r] = CreatedRow(tx[p]) /\ UNCHANGED files /\ End(p)
      /\ \A s \in Report \ {r} : row'[s] = row[s]
    BY <1>1, <1>2 DEF CommitCreate, TypeOK
<1>4. /\ row'[r].pdf_path = report_relpath(r, 1) /\ row'[r].version = 1
      /\ row'[r].doc = tx[p].new
    BY <1>1, <1>2, <1>3, CreatedRowFacts
<1>5. RowShown(r)'
    BY <1>1, <1>2, <1>3, <1>4 DEF RowShown, CreateOK
<1>6. \A q \in Request \ {p} : ~(Writing(q) /\ tx[q].report = r)
    BY <1>1, <1>2 DEF Writing, CreateOK, InFlight
<1>7. ~Stored(r)
    BY <1>1, <1>2 DEF CreateOK
<1>8. QED
    BY <1>1, <1>2, <1>3, <1>5, <1>6, <1>7, SerialCommit

\* An edit of a row that is still as it was loaded publishes its document.
LEMMA EditFacts ==
    ASSUME SerialInv, NEW p \in Request, CommitUpdate(p)
    PROVE  /\ tx[p].report \in Report /\ Stored(tx[p].report)
           /\ SameContent(tx[p].old, row[tx[p].report])
           /\ tx[p].old \in Row /\ tx[p].new \in Doc
           /\ row[tx[p].report].version \in Nat
           /\ row'[tx[p].report].version = row[tx[p].report].version + 1
           /\ row'[tx[p].report].version \in Version
           /\ row'[tx[p].report].pdf_path =
                  report_relpath(tx[p].report, row'[tx[p].report].version)
           /\ row'[tx[p].report].doc = tx[p].new
           /\ row'[tx[p].report].deleted = row[tx[p].report].deleted
           /\ files[row'[tx[p].report].pdf_path] =
                  render_pdf(row'[tx[p].report].version, tx[p].new)
           /\ \A q \in Request \ {p} : ~(Writing(q) /\ tx[q].report = tx[p].report)
           /\ \A s \in Report \ {tx[p].report} : row'[s] = row[s]
<1>1. PICK r \in Report, t \in Tx : r = tx[p].report /\ t = tx[p]
    BY DEF SerialInv, IInv, TxOK, Tx, CommitUpdate
<1>2. /\ IInv /\ TypeOK /\ pc[p] = "commit" /\ t.op = "update" /\ WriterOK(p)
      /\ Writing(p) /\ LoadedOK(p)
    BY <1>1 DEF SerialInv, IInv, TxOK, CommitUpdate, Writing
<1>3. /\ row'[r] = ReplacedRow(t, row[r])
      /\ \A s \in Report \ {r} : row'[s] = row[s]
    BY <1>1, <1>2 DEF CommitUpdate, TypeOK
<1>4. /\ t.old.version = row[r].version /\ t.old.doc = row[r].doc
      /\ files[NewPath(t)] = NewPdf(t)
      /\ \A q \in Request \ {p} : ~(Writing(q) /\ tx[q].report = r)
    BY <1>1, <1>2 DEF WriterOK, SameContent
<1>5. /\ Stored(r) /\ row[r] \in Row /\ t.old \in Row /\ t.old.version < MaxVersion
      /\ row[r].version \in Nat
    BY <1>1, <1>2, LoadedFacts DEF LoadedOK
<1>6. /\ NewVersion(t) = row[r].version + 1 /\ NewVersion(t) \in Version
      /\ row'[r].pdf_path = report_relpath(r, NewVersion(t))
      /\ row'[r].version = NewVersion(t) /\ row'[r].deleted = row[r].deleted
    BY <1>1, <1>2, <1>3, <1>4, <1>5, ReplacedRowFacts
<1>7. t.new \in Doc /\ t.report = r
    BY <1>1 DEF Tx
<1>8. row'[r].doc = t.new
  <2>1. ReplacedRow(t, row[r]).doc = [case_id |-> t.new.case_id, data |-> t.new.data]
      BY <1>4, <1>5 DEF ReplacedRow, Changed, Row
  <2>2. QED
      BY <1>3, <1>7, <2>1 DEF Doc
<1>9. files[row'[r].pdf_path] = render_pdf(row'[r].version, t.new)
    BY <1>4, <1>6, <1>7 DEF NewPath, NewPdf
<1>10. QED
    BY <1>1, <1>3, <1>4, <1>5, <1>6, <1>7, <1>8, <1>9 DEF SameContent

LEMMA SerialUpdate ==
    ASSUME SerialInv, NEW p \in Request, CommitUpdate(p), IInv'
    PROVE  SerialInv'
<1>1. PICK r \in Report : r = tx[p].report
    BY EditFacts
<1>2. pc[p] = "commit" /\ UNCHANGED files /\ End(p)
    BY DEF CommitUpdate
<1>3. /\ row[r].version <= row'[r].version /\ RowShown(r)'
      /\ \A s \in Report \ {r} : row'[s] = row[s]
      /\ \A q \in Request \ {p} : ~(Writing(q) /\ tx[q].report = r)
  <2>1. row[r].version <= row'[r].version
      BY <1>1, EditFacts
  <2>2. QED
      BY <1>1, <1>2, <2>1, EditFacts DEF RowShown
<1>4. Stored(r)'
    BY <1>1, CommitRows, MarkerFacts DEF SerialInv, Stored
<1>5. QED
    BY <1>1, <1>2, <1>3, <1>4, SerialCommit

LEMMA DeleteFacts ==
    ASSUME SerialInv, NEW p \in Request, CommitDelete(p)
    PROVE  /\ tx[p].report \in Report /\ Stored(tx[p].report)
           /\ row[tx[p].report] \in Row
           /\ row' = [row EXCEPT ![tx[p].report] =
                         [row[tx[p].report] EXCEPT !.deleted = TRUE]]
           /\ row'[tx[p].report] \in Row
           /\ row'[tx[p].report].version = row[tx[p].report].version
           /\ row'[tx[p].report].pdf_path = row[tx[p].report].pdf_path
           /\ row'[tx[p].report].doc = row[tx[p].report].doc
           /\ row'[tx[p].report].deleted
           /\ row[tx[p].report].version \in Nat
           /\ \A s \in Report \ {tx[p].report} : row'[s] = row[s]
<1>1. PICK r \in Report : r = tx[p].report
    BY DEF SerialInv, IInv, TxOK, Tx, CommitDelete
<1>2. IInv /\ TypeOK /\ pc[p] = "commit" /\ tx[p].op = "delete"
    BY DEF SerialInv, IInv, CommitDelete
<1>3. Stored(r) /\ row[r] \in Row /\ row[r].version \in Nat
    BY <1>1, <1>2, LoadedFacts
<1>4. row' = [row EXCEPT ![r] = [row[r] EXCEPT !.deleted = TRUE]]
    BY <1>1 DEF CommitDelete
<1>5. /\ row'[r] = [row[r] EXCEPT !.deleted = TRUE]
      /\ \A s \in Report \ {r} : row'[s] = row[s]
    BY <1>2, <1>4 DEF TypeOK
<1>6. /\ row'[r] \in Row /\ row'[r].version = row[r].version
      /\ row'[r].pdf_path = row[r].pdf_path /\ row'[r].doc = row[r].doc
      /\ row'[r].deleted
    BY <1>3, <1>5 DEF Row
<1>7. QED
    BY <1>1, <1>3, <1>4, <1>5, <1>6

LEMMA SerialDelete ==
    ASSUME SerialInv, NEW p \in Request, CommitDelete(p), IInv'
    PROVE  SerialInv'
<1>1. PICK r \in Report : r = tx[p].report
    BY DeleteFacts
<1>2. pc[p] = "commit" /\ UNCHANGED files /\ End(p)
    BY DEF CommitDelete
<1>3. row[r].version <= row'[r].version
  <2>1. row'[r].version = row[r].version /\ row[r].version \in Nat
      BY <1>1, DeleteFacts
  <2>2. QED
      BY <2>1
<1>4. Stored(r) /\ Stored(r)'
    BY <1>1, DeleteFacts, MarkerFacts DEF Stored
<1>5. files[row[r].pdf_path] = render_pdf(row[r].version, row[r].doc)
    BY <1>4 DEF SerialInv, RowShown
<1>6. RowShown(r)'
    BY <1>1, <1>2, <1>5, DeleteFacts DEF RowShown
<1>7. SameContent(row[r], row'[r])
    BY <1>1, DeleteFacts DEF SameContent
<1>8. \A s \in Report \ {r} : row'[s] = row[s]
    BY <1>1, DeleteFacts
<1>9. QED
    BY <1>1, <1>2, <1>3, <1>4, <1>6, <1>7, <1>8, SerialCommit

\* Edits that await the commit of the one before never run together.
LEMMA SerialStart ==
    ASSUME Clients = "await_commit", SerialInv, NEW p \in Request, Start(p), IInv'
    PROVE  SerialInv'
<1>1. PICK a \in Actor, r \in Report :
          \/ \E d \in Doc : CreateReport(p, a, r, d)
          \/ \E d \in Doc : UpdateReport(p, a, r, d)
          \/ DeleteReport(p, a, r)
          \/ DownloadPdf(p, a, r)
          \/ Refuse(p, a, r)
    BY DEF Start
<1>2. Live(r) => row[r] \in Row /\ row[r].doc \in Doc
    BY StoredFacts DEF SerialInv, IInv, Live, Row
<1>3. MayEdit(r) => \A q \in Request : ~(Writing(q) /\ tx[q].report = r)
    BY DEF MayEdit, InFlight, Writing
<1>4. ASSUME NEW d \in Doc, CreateReport(p, a, r, d)
      PROVE  SerialInv'
  <2> DEFINE t == [op |-> "create", actor |-> a, report |-> r, old |-> NoRow,
                   new |-> d, got |-> <<>>]
  <2>1. t \in Tx /\ t.op = "create"
      BY DEF Tx
  <2>2. Begin(p, "open", t)
      BY <1>4 DEF CreateReport
  <2> HIDE DEF t
  <2>3. QED
      BY <2>1, <2>2, SerialBegin
<1>5. ASSUME NEW d \in Doc, UpdateReport(p, a, r, d)
      PROVE  SerialInv'
  <2> DEFINE t == [op |-> "update", actor |-> a, report |-> r,
                   old |-> row[r], new |-> d, got |-> <<>>]
  <2>1. t \in Tx /\ t.op = "update" /\ t.report = r /\ t.old = row[r]
      BY <1>2, <1>5 DEF UpdateReport, Tx
  <2>2. Begin(p, "open", t) /\ Live(r) /\ MayEdit(r)
      BY <1>5 DEF UpdateReport
  <2> HIDE DEF t
  <2>3. QED
      BY <1>3, <2>1, <2>2, SerialBegin
<1>6. CASE DeleteReport(p, a, r)
  <2> DEFINE t == [op |-> "delete", actor |-> a, report |-> r,
                   old |-> row[r], new |-> row[r].doc, got |-> <<>>]
  <2>1. t \in Tx /\ t.op = "delete" /\ t.report = r /\ t.old = row[r]
      BY <1>2, <1>6 DEF DeleteReport, Tx
  <2>2. Begin(p, "flush", t) /\ Live(r)
      BY <1>6 DEF DeleteReport
  <2> HIDE DEF t
  <2>3. QED
      BY <2>1, <2>2, SerialBegin
<1>7. CASE DownloadPdf(p, a, r)
  <2> DEFINE t == [op |-> "download", actor |-> a, report |-> r,
                   old |-> row[r], new |-> row[r].doc, got |-> <<>>]
  <2>1. t \in Tx /\ t.op = "download" /\ t.report = r /\ t.old = row[r]
      BY <1>2, <1>7 DEF DownloadPdf, Tx
  <2>2. Begin(p, "chunk1", t) /\ Live(r)
      BY <1>7 DEF DownloadPdf
  <2> HIDE DEF t
  <2>3. QED
      BY <2>1, <2>2, SerialBegin
<1>8. CASE Refuse(p, a, r)
    BY <1>8 DEF Refuse, vars, SerialInv, WriterOK, ReaderOK, RowShown, Writing,
                LoadedPdf, Stored
<1>9. QED
    BY <1>1, <1>4, <1>5, <1>6, <1>7, <1>8

LEMMA SerialInit == Init => SerialInv
<1>1. Init => IInv
    BY InitStep
<1>2. QED
    BY <1>1 DEF Init, SerialInv, WriterOK, ReaderOK, RowShown, Writing, Stored

\* Every step keeps SerialInv when edits await each other's commits.
LEMMA SerialNext ==
    ASSUME Clients = "await_commit", SerialInv, [Next]_vars
    PROVE  SerialInv'
<1>1. IInv'
    BY NextStep DEF SerialInv
<1>2. CASE UNCHANGED vars
    BY <1>1, <1>2 DEF vars, SerialInv, WriterOK, ReaderOK, RowShown, Writing,
                      LoadedPdf, Stored
<1>3. ASSUME NEW p \in Request,
             Start(p) \/ Proceed(p) \/ Flush(p) \/ Abort(p)
      PROVE  SerialInv'
  <2>1. CASE Start(p)
      BY <1>1, <2>1, SerialStart
  <2>2. CASE OpenFile(p) \/ WriteFile(p)
      BY <1>1, <2>2, SerialFile
  <2>3. CASE Flush(p) \/ Reply(p) \/ ReadChunk1(p) \/ ReadChunk2(p)
      BY <1>1, <2>3, SerialMove
  <2>4. CASE Commit(p)
    <3>1. CASE CommitDownload(p)
        BY <1>1, <3>1, SerialEnd DEF CommitDownload
    <3>2. QED
        BY <1>1, <2>4, <3>1, SerialCreate, SerialUpdate, SerialDelete DEF Commit
  <2>5. CASE Abort(p)
      BY <1>1, <2>5, SerialEnd DEF Abort
  <2>6. QED
      BY <1>3, <2>1, <2>2, <2>3, <2>4, <2>5 DEF Proceed
<1>4. QED
    BY <1>2, <1>3 DEF Next

LEMMA SerialInvariance ==
    ASSUME Clients = "await_commit"
    PROVE  Spec => []SerialInv
<1>1. SerialInv /\ [Next]_vars => SerialInv'
    BY SerialNext
<1>2. QED
    BY SerialInit, <1>1, PTL DEF Spec

\* When the edits of a report await each other's commits, the PDF that a row
\* points at shows that row's own version and content, whatever fails.
THEOREM PdfShown ==
    ASSUME Clients = "await_commit"
    PROVE  Spec => []PdfMatchesRow
<1>1. SerialInv => PdfMatchesRow
    BY DEF SerialInv, RowShown, PdfMatchesRow
<1>2. QED
    BY SerialInvariance, <1>1, PTL

\* Then a download delivers the PDF of the row that it was authorised against,
\* both chunks of it, while edits and deletions of other requests go on.
THEOREM DownloadsFaithful ==
    ASSUME Clients = "await_commit"
    PROVE  Spec => []DownloadIsFaithful
<1>1. SerialInv => DownloadIsFaithful
    BY DEF SerialInv, ReaderOK, LoadedPdf, DownloadIsFaithful
<1>2. QED
    BY SerialInvariance, <1>1, PTL

-----------------------------------------------------------------------------
(***************************************************************************)
(* The refinement, with the same assumption on the clients.  CurrentOf,    *)
(* PublishedOf, SupersededOf, DeletedOf and EditingOf are the variables of *)
(* ReportHistory for one report.                                           *)
(***************************************************************************)
CurrentOf(r) == IF Stored(r) THEN row[r].doc ELSE NoRow

PublishedOf(r) ==
    IF Stored(r)
    THEN [v \in 1..row[r].version |-> ShownAt(report_relpath(r, v))]
    ELSE <<>>

SupersededOf(r) == [i \in 1..Len(versions[r]) |-> versions[r][i].data]

DeletedOf(r) == Stored(r) /\ row[r].deleted

EditingOf(r) == \E p \in Request : InFlight(p, r) /\ tx[p].op = "update"

\* A step that the documents of report r do not show.
SameHistory(r) ==
    /\ CurrentOf(r)' = CurrentOf(r) /\ PublishedOf(r)' = PublishedOf(r)
    /\ SupersededOf(r)' = SupersededOf(r) /\ DeletedOf(r)' = DeletedOf(r)

SameEditing(r) == EditingOf(r)' = EditingOf(r)

\* A step that the history of report r does not see.
Unseen(r) == SameHistory(r) /\ SameEditing(r)

LEMMA EditingIsBoolean ==
    ASSUME NEW r
    PROVE  EditingOf(r) \in BOOLEAN /\ EditingOf(r)' \in BOOLEAN
BY DEF EditingOf

\* Which edits are under way changes with the edits of the requests only.
LEMMA EditingStays ==
    ASSUME NEW p \in Request, NEW r,
           \A q \in Request \ {p} : pc'[q] = pc[q] /\ tx'[q] = tx[q],
           Writing(p)' /\ tx'[p].report = r <=> Writing(p) /\ tx[p].report = r
    PROVE  SameEditing(r)
<1>1. \A q \in Request : Writing(q)' /\ tx'[q].report = r
                             <=> Writing(q) /\ tx[q].report = r
    BY DEF Writing
<1>2. /\ EditingOf(r) <=> \E q \in Request : Writing(q) /\ tx[q].report = r
      /\ EditingOf(r)' <=> \E q \in Request : Writing(q)' /\ tx'[q].report = r
    BY DEF EditingOf, InFlight, Writing
<1>3. EditingOf(r)' <=> EditingOf(r)
    BY <1>1, <1>2
<1>4. QED
    BY <1>3 DEF SameEditing, EditingOf

\* The edit of a report that has only one is the one that begins or ends.
LEMMA EditingSwitches ==
    ASSUME NEW p \in Request, NEW r \in Report,
           \A q \in Request \ {p} : pc'[q] = pc[q] /\ tx'[q] = tx[q],
           \A q \in Request \ {p} : ~(Writing(q) /\ tx[q].report = r)
    PROVE  /\ EditingOf(r) <=> Writing(p) /\ tx[p].report = r
           /\ EditingOf(r)' <=> Writing(p)' /\ tx'[p].report = r
<1>1. \A q \in Request \ {p} : ~(Writing(q)' /\ tx'[q].report = r)
    BY DEF Writing
<1>2. QED
    BY <1>1 DEF EditingOf, InFlight, Writing

\* What suffices for the steps of ReportHistory, report by report.
LEMMA HistoryStutters ==
    ASSUME \A r \in Report : Unseen(r)
    PROVE  UNCHANGED History!vars
BY DEF Unseen, SameHistory, SameEditing, History!vars,
       CurrentOf, PublishedOf, SupersededOf, DeletedOf, EditingOf

LEMMA HistoryCreates ==
    ASSUME NEW r \in Report, NEW d \in Doc, CurrentOf(r) = NoRow,
           CurrentOf(r)' = d, PublishedOf(r)' = Append(PublishedOf(r), d),
           SupersededOf(r)' = SupersededOf(r), DeletedOf(r)' = DeletedOf(r),
           SameEditing(r), \A s \in Report \ {r} : Unseen(s)
    PROVE  History!Next
<1>1. /\ [s \in Report |-> CurrentOf(s)'] =
             [[s \in Report |-> CurrentOf(s)] EXCEPT ![r] = d]
      /\ [s \in Report |-> PublishedOf(s)'] =
             [[s \in Report |-> PublishedOf(s)] EXCEPT ![r] = Append(@, d)]
    BY DEF Unseen, SameHistory
<1>2. History!Publish(r, d)
    BY <1>1 DEF History!Publish, CurrentOf, PublishedOf
<1>3. /\ [s \in Report |-> SupersededOf(s)'] = [s \in Report |-> SupersededOf(s)]
      /\ [s \in Report |-> DeletedOf(s)'] = [s \in Report |-> DeletedOf(s)]
      /\ [s \in Report |-> EditingOf(s)'] = [s \in Report |-> EditingOf(s)]
    BY DEF Unseen, SameHistory, SameEditing
<1>4. History!Create(r, d)
    BY <1>2, <1>3 DEF History!Create, CurrentOf, SupersededOf, DeletedOf, EditingOf
<1>5. QED
    BY <1>4 DEF History!Next

LEMMA HistoryEdits ==
    ASSUME NEW r \in Report, NEW d \in Doc, EditingOf(r), ~EditingOf(r)',
           CurrentOf(r)' = d, PublishedOf(r)' = Append(PublishedOf(r), d),
           SupersededOf(r)' = Append(SupersededOf(r), CurrentOf(r).data),
           DeletedOf(r)' = DeletedOf(r), \A s \in Report \ {r} : Unseen(s)
    PROVE  History!Next
<1>1. /\ [s \in Report |-> CurrentOf(s)'] =
             [[s \in Report |-> CurrentOf(s)] EXCEPT ![r] = d]
      /\ [s \in Report |-> PublishedOf(s)'] =
             [[s \in Report |-> PublishedOf(s)] EXCEPT ![r] = Append(@, d)]
    BY DEF Unseen, SameHistory
<1>2. History!Publish(r, d)
    BY <1>1 DEF History!Publish, CurrentOf, PublishedOf
<1>3. /\ [s \in Report |-> SupersededOf(s)'] =
             [[s \in Report |-> SupersededOf(s)] EXCEPT
                 ![r] = Append(@, CurrentOf(r).data)]
      /\ [s \in Report |-> DeletedOf(s)'] = [s \in Report |-> DeletedOf(s)]
      /\ [s \in Report |-> EditingOf(s)'] =
             [[s \in Report |-> EditingOf(s)] EXCEPT ![r] = FALSE]
    BY EditingIsBoolean DEF Unseen, SameHistory, SameEditing
<1>4. History!Edit(r, d)
    BY <1>2, <1>3 DEF History!Edit, CurrentOf, SupersededOf, DeletedOf, EditingOf
<1>5. QED
    BY <1>4 DEF History!Next

LEMMA HistoryBegins ==
    ASSUME NEW r \in Report, CurrentOf(r) # NoRow, ~DeletedOf(r),
           ~EditingOf(r), EditingOf(r)', \A s \in Report : SameHistory(s),
           \A s \in Report \ {r} : SameEditing(s)
    PROVE  History!Next
<1>1. History!BeginEdit(r)
  <2>1. [s \in Report |-> EditingOf(s)'] =
            [[s \in Report |-> EditingOf(s)] EXCEPT ![r] = TRUE]
      BY EditingIsBoolean DEF SameEditing
  <2>2. QED
      BY <2>1 DEF SameHistory, History!BeginEdit,
                  CurrentOf, PublishedOf, SupersededOf, DeletedOf, EditingOf
<1>2. QED
    BY <1>1 DEF History!Next

LEMMA HistoryGivesUp ==
    ASSUME NEW r \in Report, EditingOf(r), ~EditingOf(r)',
           \A s \in Report : SameHistory(s), \A s \in Report \ {r} : SameEditing(s)
    PROVE  History!Next
<1>1. History!GiveUp(r)
  <2>1. [s \in Report |-> EditingOf(s)'] =
            [[s \in Report |-> EditingOf(s)] EXCEPT ![r] = FALSE]
      BY EditingIsBoolean DEF SameEditing
  <2>2. QED
      BY <2>1 DEF SameHistory, History!GiveUp,
                  CurrentOf, PublishedOf, SupersededOf, DeletedOf, EditingOf
<1>2. QED
    BY <1>1 DEF History!Next

LEMMA HistoryDeletes ==
    ASSUME NEW r \in Report, CurrentOf(r) # NoRow, ~DeletedOf(r), DeletedOf(r)',
           CurrentOf(r)' = CurrentOf(r), PublishedOf(r)' = PublishedOf(r),
           SupersededOf(r)' = SupersededOf(r), SameEditing(r),
           \A s \in Report \ {r} : Unseen(s)
    PROVE  History!Next
<1>1. History!Delete(r)
    BY DEF Unseen, SameHistory, SameEditing, History!Delete,
           CurrentOf, PublishedOf, SupersededOf, DeletedOf, EditingOf
<1>2. QED
    BY <1>1 DEF History!Next

\* What the PDFs of a stored report show is a sequence, one element per version.
LEMMA PublishedFacts ==
    ASSUME SerialInv, NEW r \in Report, Stored(r)
    PROVE  /\ row[r].version \in Nat /\ row[r].version \in Version
           /\ \A v \in 1..row[r].version : v \in Version /\ v <= row[r].version
           /\ PublishedOf(r) = [v \in 1..row[r].version |->
                                   ShownAt(report_relpath(r, v))]
           /\ PublishedOf(r) \in Seq(Doc \cup File)
           /\ Len(PublishedOf(r)) = row[r].version
           /\ CurrentOf(r) = row[r].doc /\ CurrentOf(r) # NoRow
<1>1. TypeOK /\ row[r] \in Row
    BY StoredFacts DEF SerialInv, IInv
<1>2. row[r].version \in Version /\ row[r].doc \in Doc
    BY <1>1 DEF Row
<1>3. /\ row[r].version \in Nat
      /\ \A v \in 1..row[r].version : v \in Version /\ v <= row[r].version
    BY <1>2, MarkerFacts DEF Version
<1>4. \A v \in 1..row[r].version : ShownAt(report_relpath(r, v)) \in Doc \cup File
    BY <1>1, <1>3, PathFacts DEF TypeOK, ShownAt, Pdf
<1>5. PublishedOf(r) = [v \in 1..row[r].version |-> ShownAt(report_relpath(r, v))]
    BY DEF PublishedOf
<1>6. PublishedOf(r) \in Seq(Doc \cup File) /\ Len(PublishedOf(r)) = row[r].version
    BY <1>3, <1>4, <1>5
<1>7. CurrentOf(r) = row[r].doc
    BY DEF CurrentOf
<1>8. CurrentOf(r) # NoRow
    BY <1>2, <1>7, MarkerFacts
<1>9. QED
    BY <1>2, <1>3, <1>5, <1>6, <1>7, <1>8

\* A report whose row, snapshots and published files stay.
LEMMA Unseeing ==
    ASSUME SerialInv, NEW r \in Report, row'[r] = row[r], versions'[r] = versions[r],
           Stored(r) => \A v \in Version : v <= row[r].version =>
               files'[report_relpath(r, v)] = files[report_relpath(r, v)]
    PROVE  SameHistory(r)
<1>1. Stored(r)' <=> Stored(r)
    BY DEF Stored
<1>2. CurrentOf(r)' = CurrentOf(r) /\ DeletedOf(r)' = DeletedOf(r)
    BY <1>1 DEF CurrentOf, DeletedOf
<1>3. SupersededOf(r)' = SupersededOf(r)
    BY DEF SupersededOf
<1>4. PublishedOf(r)' = PublishedOf(r)
  <2>1. CASE Stored(r)
    <3>1. \A v \in 1..row[r].version :
              ShownAt(report_relpath(r, v))' = ShownAt(report_relpath(r, v))
        BY <2>1, PublishedFacts DEF ShownAt
    <3>2. QED
        BY <1>1, <2>1, <3>1 DEF PublishedOf
  <2>2. CASE ~Stored(r)
      BY <1>1, <2>2 DEF PublishedOf
  <2>3. QED
      BY <2>1, <2>2
<1>5. QED
    BY <1>2, <1>3, <1>4 DEF SameHistory

\* A committed create is the creation of its document.
\* A request that ends was an edit or leaves those under way alone.
LEMMA EditingEnds ==
    ASSUME SerialInv, NEW p \in Request, pc[p] # "idle", End(p)
    PROVE  /\ tx[p].op # "update" => \A r : SameEditing(r)
           /\ \A r : r # tx[p].report => SameEditing(r)
           /\ \A r \in Report : tx[p].op = "update" /\ r = tx[p].report =>
                  EditingOf(r) /\ ~EditingOf(r)'
<1>1. pc'[p] = "idle" /\ \A q \in Request \ {p} : pc'[q] = pc[q] /\ tx'[q] = tx[q]
    BY DEF SerialInv, IInv, TypeOK, End
<1>2. ~Writing(p)'
    BY <1>1 DEF Writing
<1>3. ASSUME NEW r, r # tx[p].report \/ tx[p].op # "update"
      PROVE  SameEditing(r)
    BY <1>1, <1>2, <1>3, EditingStays DEF Writing
<1>4. ASSUME tx[p].op = "update", NEW r \in Report, r = tx[p].report
      PROVE  EditingOf(r) /\ ~EditingOf(r)'
  <2>1. Writing(p) /\ \A q \in Request \ {p} : ~(Writing(q) /\ tx[q].report = r)
      BY <1>4 DEF Writing, SerialInv, WriterOK
  <2>2. QED
      BY <1>1, <1>2, <1>4, <2>1, EditingSwitches
<1>5. QED
    BY <1>3, <1>4

LEMMA CreateRefines ==
    ASSUME SerialInv, SerialInv', NEW p \in Request, CommitCreate(p)
    PROVE  History!Next
<1>1. PICK r \in Report : r = tx[p].report
    BY DEF SerialInv, IInv, TxOK, Tx, CommitCreate
<1>2. PICK d \in Doc : d = tx[p].new
    BY DEF SerialInv, IInv, TxOK, Tx, CommitCreate
<1>3. /\ IInv /\ TypeOK /\ tx[p] \in Tx /\ tx[p].op = "create" /\ CreateOK(p)
      /\ ~Stored(r)
    BY <1>1 DEF SerialInv, IInv, TxOK, CommitCreate, CreateOK
<1>4. /\ row'[r] = CreatedRow(tx[p]) /\ UNCHANGED <<versions, files>>
      /\ \A s \in Report \ {r} : row'[s] = row[s]
    BY <1>1, <1>3 DEF CommitCreate, TypeOK
<1>5. /\ row'[r].version = 1 /\ row'[r].doc = d /\ row'[r].deleted = FALSE
      /\ row'[r] \in Row /\ row'[r].pdf_path = report_relpath(r, 1)
    BY <1>1, <1>2, <1>3, <1>4, CreatedRowFacts
<1>6. Stored(r)'
    BY <1>5, MarkerFacts DEF Stored
<1>7. CurrentOf(r) = NoRow /\ CurrentOf(r)' = d
    BY <1>3, <1>5, <1>6 DEF CurrentOf
<1>8. PublishedOf(r)' = Append(PublishedOf(r), d)
  <2>1. files'[report_relpath(r, 1)] = render_pdf(1, d)
      BY <1>5, <1>6 DEF SerialInv, RowShown
  <2>2. ShownAt(report_relpath(r, 1))' = d
      BY <2>1, MarkerFacts DEF ShownAt, render_pdf, Pdf
  <2>3. /\ PublishedOf(r)' \in Seq(Doc \cup File) /\ Len(PublishedOf(r)') = 1
        /\ PublishedOf(r)'[1] = d
    <3>1. PublishedOf(r)' = [v \in 1..1 |-> ShownAt(report_relpath(r, v))']
        BY <1>5, <1>6 DEF PublishedOf
    <3>2. PublishedOf(r)' = [v \in 1..1 |-> d]
        BY <2>2, <3>1
    <3>3. QED
        BY <3>2
  <2>4. PublishedOf(r) = <<>>
      BY <1>3 DEF PublishedOf
  <2>5. <<>> \in Seq(Doc \cup File) /\ Len(<<>>) = 0 /\ d \in Doc \cup File
      OBVIOUS
  <2>6. QED
      BY <2>3, <2>4, <2>5, AppendIs
<1>9. SupersededOf(r)' = SupersededOf(r) /\ DeletedOf(r)' = DeletedOf(r)
    BY <1>3, <1>4, <1>5, <1>6 DEF SupersededOf, DeletedOf
<1>10. \A s : SameEditing(s)
    BY <1>3, EditingEnds DEF CommitCreate
<1>11. \A s \in Report \ {r} : Unseen(s)
    BY <1>4, <1>10, Unseeing DEF Unseen
<1>12. QED
    BY <1>7, <1>8, <1>9, <1>10, <1>11, HistoryCreates

\* A committed update is an edit: its document is published, and the data of
\* the row before are filed away.
LEMMA UpdateRefines ==
    ASSUME SerialInv, SerialInv', NEW p \in Request, CommitUpdate(p)
    PROVE  History!Next
<1>1. PICK r \in Report : r = tx[p].report
    BY EditFacts
<1>2. PICK d \in Doc : d = tx[p].new
    BY EditFacts
<1>3. IInv /\ TypeOK /\ TypeOK' /\ UNCHANGED files
    BY DEF SerialInv, IInv, CommitUpdate
<1>4. /\ Stored(r) /\ tx[p].old \in Row /\ tx[p].old.doc = row[r].doc
      /\ row[r].version \in Nat /\ row'[r].version = row[r].version + 1
      /\ row'[r].doc = d /\ row'[r].deleted = row[r].deleted
      /\ row'[r].pdf_path = report_relpath(r, row'[r].version)
      /\ files[row'[r].pdf_path] = render_pdf(row'[r].version, d)
      /\ row'[r].version \in Version
      /\ \A s \in Report \ {r} : row'[s] = row[s]
    BY <1>1, <1>2, EditFacts DEF SameContent
<1>5. Stored(r)'
    BY <1>1, CommitRows, MarkerFacts DEF SerialInv, Stored
<1>6. CurrentOf(r) # NoRow /\ CurrentOf(r)' = d /\ CurrentOf(r) = row[r].doc
    BY <1>4, <1>5, PublishedFacts DEF CurrentOf
<1>7. DeletedOf(r)' = DeletedOf(r)
    BY <1>4, <1>5 DEF DeletedOf
<1>8. PublishedOf(r)' = Append(PublishedOf(r), d)
  <2>1. PICK n \in Nat : n = row[r].version
      BY <1>4
  <2>2. ShownAt(report_relpath(r, n + 1))' = d
      BY <1>3, <1>4, <2>1 DEF ShownAt, render_pdf, Pdf
  <2>3. /\ PublishedOf(r) \in Seq(Doc \cup File) /\ Len(PublishedOf(r)) = n
        /\ PublishedOf(r) = [v \in 1..n |-> ShownAt(report_relpath(r, v))]
      BY <1>4, <2>1, PublishedFacts
  <2>4. PublishedOf(r)' = [v \in 1..(n + 1) |-> ShownAt(report_relpath(r, v))']
      BY <1>4, <1>5, <2>1 DEF PublishedOf
  <2>5. \A v \in 1..n : ShownAt(report_relpath(r, v))' = ShownAt(report_relpath(r, v))
      BY <1>3 DEF ShownAt
  <2>6. /\ \A v \in 1..n : PublishedOf(r)'[v] = PublishedOf(r)[v]
        /\ PublishedOf(r)'[n + 1] = d
      BY <2>2, <2>3, <2>4, <2>5
  <2>7. d \in Doc \cup File
      OBVIOUS
  <2>8. PublishedOf(r)' \in Seq(Doc \cup File) /\ Len(PublishedOf(r)') = n + 1
    <3>1. \A v \in 1..n : PublishedOf(r)[v] \in Doc \cup File
        BY <2>3
    <3>2. \A v \in 1..(n + 1) : ShownAt(report_relpath(r, v))' \in Doc \cup File
      <4>1. ASSUME NEW v \in 1..(n + 1)
            PROVE  ShownAt(report_relpath(r, v))' \in Doc \cup File
        <5>1. v \in 1..n \/ v = n + 1
            OBVIOUS
        <5>2. QED
            BY <2>2, <2>3, <2>5, <2>7, <3>1, <5>1
      <4>2. QED
          BY <4>1
    <3>3. QED
        BY <2>4, <3>2
  <2>9. QED
      BY <2>3, <2>6, <2>7, <2>8, AppendIs
<1>9. SupersededOf(r)' = Append(SupersededOf(r), CurrentOf(r).data)
  <2>1. /\ versions[r] \in Seq(Snapshot)
        /\ versions'[r] = Append(versions[r], SnapshotOf(tx[p]))
      BY <1>1, <1>3 DEF TypeOK, CommitUpdate
  <2>2. SnapshotOf(tx[p]) \in Snapshot /\ SnapshotOf(tx[p]).data = row[r].doc.data
    <3>1. tx[p] \in Tx
        BY <1>3 DEF IInv, TxOK, CommitUpdate
    <3>2. QED
        BY <1>4, <3>1, SnapshotFacts
  <2>3. PICK n \in Nat : n = Len(versions[r])
      BY <2>1, LenProperties
  <2>4. /\ Len(versions'[r]) = n + 1 /\ versions'[r] \in Seq(Snapshot)
        /\ \A i \in 1..n : versions'[r][i] = versions[r][i]
        /\ versions'[r][n + 1] = SnapshotOf(tx[p])
      BY <2>1, <2>2, <2>3, AppendProperties
  <2>5. /\ SupersededOf(r) = [i \in 1..n |-> versions[r][i].data]
        /\ SupersededOf(r)' = [i \in 1..(n + 1) |-> versions'[r][i].data]
      BY <2>3, <2>4 DEF SupersededOf
  <2>6. /\ \A i \in 1..n : versions[r][i].data \in Data
        /\ \A i \in 1..(n + 1) : versions'[r][i].data \in Data
        /\ row[r].doc.data \in Data
    <3>1. \A s \in Snapshot : s.data \in Data
        BY DEF Snapshot
    <3>2. /\ \A i \in 1..n : versions[r][i] \in Snapshot
          /\ \A i \in 1..(n + 1) : versions'[r][i] \in Snapshot
        BY <2>1, <2>3, <2>4
    <3>3. QED
        BY <2>2, <3>1, <3>2
  <2>7. /\ SupersededOf(r) \in Seq(Data) /\ Len(SupersededOf(r)) = n
        /\ SupersededOf(r)' \in Seq(Data) /\ Len(SupersededOf(r)') = n + 1
      BY <2>5, <2>6
  <2>8. /\ \A i \in 1..n : SupersededOf(r)'[i] = SupersededOf(r)[i]
        /\ SupersededOf(r)'[n + 1] = row[r].doc.data
      BY <2>2, <2>4, <2>5
  <2>9. QED
      BY <1>6, <2>6, <2>7, <2>8, AppendIs
<1>10. \A s \in Report \ {r} : Unseen(s)
  <2>1. \A s \in Report \ {r} : versions'[s] = versions[s]
      BY <1>1, <1>3 DEF TypeOK, CommitUpdate
  <2>2. \A s \in Report \ {r} : SameEditing(s)
      BY <1>1, EditingEnds DEF CommitUpdate
  <2>3. QED
      BY <1>3, <1>4, <2>1, <2>2, Unseeing DEF Unseen
<1>11. EditingOf(r) /\ ~EditingOf(r)'
    BY <1>1, EditingEnds DEF CommitUpdate
<1>12. QED
    BY <1>6, <1>7, <1>8, <1>9, <1>10, <1>11, HistoryEdits

\* A committed deletion only marks the report, also while an edit of it is
\* under way; a second one that was authorised before the first changes
\* nothing.
LEMMA DeleteRefines ==
    ASSUME SerialInv, NEW p \in Request, CommitDelete(p)
    PROVE  [History!Next]_(History!vars)
<1>1. PICK r \in Report : r = tx[p].report
    BY DeleteFacts
<1>2. UNCHANGED <<versions, files>>
    BY DEF CommitDelete
<1>3. /\ Stored(r) /\ row'[r].deleted /\ row'[r] \in Row
      /\ row'[r].version = row[r].version /\ row'[r].doc = row[r].doc
      /\ \A s \in Report \ {r} : row'[s] = row[s]
    BY <1>1, DeleteFacts
<1>4. Stored(r)'
    BY <1>3, MarkerFacts DEF Stored
<1>5. CurrentOf(r) # NoRow /\ CurrentOf(r)' = CurrentOf(r)
    BY <1>3, <1>4, PublishedFacts DEF CurrentOf
<1>6. DeletedOf(r)'
    BY <1>3, <1>4 DEF DeletedOf
<1>7. PublishedOf(r)' = PublishedOf(r) /\ SupersededOf(r)' = SupersededOf(r)
    BY <1>2, <1>3, <1>4 DEF PublishedOf, SupersededOf, ShownAt
<1>8. \A s \in Report : SameEditing(s)
    BY EditingEnds DEF CommitDelete
<1>9. \A s \in Report \ {r} : Unseen(s)
    BY <1>2, <1>3, <1>8, Unseeing DEF Unseen
<1>10. CASE ~DeletedOf(r)
    BY <1>5, <1>6, <1>7, <1>8, <1>9, <1>10, HistoryDeletes
<1>11. CASE DeletedOf(r)
  <2>1. DeletedOf(r)' = DeletedOf(r)
      BY <1>6, <1>11 DEF DeletedOf
  <2>2. \A s \in Report : Unseen(s)
      BY <1>5, <1>7, <1>8, <1>9, <2>1 DEF Unseen, SameHistory
  <2>3. QED
      BY <2>2, HistoryStutters
<1>12. QED
    BY <1>10, <1>11

LEMMA InitRefines == Init => History!Init
<1> SUFFICES ASSUME Init
             PROVE  History!Init
    OBVIOUS
<1>1. \A r \in Report : ~Stored(r) /\ versions[r] = <<>>
    BY DEF Init, Stored
<1>2. ASSUME NEW r \in Report
      PROVE  [i \in 1..Len(versions[r]) |-> versions[r][i].data] = <<>>
    BY <1>1
<1>3. ASSUME NEW r \in Report
      PROVE  (\E p \in Request : InFlight(p, r) /\ tx[p].op = "update") = FALSE
    BY DEF Init, InFlight
<1>4. QED
    BY <1>1, <1>2, <1>3 DEF History!Init

\* An edit begins on a report that is not deleted and has no other edit.
LEMMA UpdateBegins ==
    ASSUME Clients = "await_commit", SerialInv, NEW p \in Request,
           NEW a \in Actor, NEW r \in Report, NEW d \in Doc, UpdateReport(p, a, r, d)
    PROVE  History!Next
<1>1. /\ UNCHANGED <<row, versions, files>> /\ Live(r) /\ MayEdit(r)
      /\ pc[p] = "idle" /\ pc'[p] = "open"
      /\ tx'[p].op = "update" /\ tx'[p].report = r
      /\ \A q \in Request \ {p} : pc'[q] = pc[q] /\ tx'[q] = tx[q]
    BY DEF SerialInv, IInv, TypeOK, UpdateReport, Begin
<1>2. \A s \in Report : SameHistory(s)
    BY <1>1, Unseeing
<1>3. CurrentOf(r) # NoRow /\ ~DeletedOf(r)
    BY <1>1, PublishedFacts DEF Live, DeletedOf
<1>4. \A q \in Request : ~(Writing(q) /\ tx[q].report = r)
    BY <1>1 DEF MayEdit, InFlight, Writing
<1>5. ~EditingOf(r) /\ EditingOf(r)'
    BY <1>1, <1>4, EditingSwitches DEF Writing
<1>6. \A s \in Report \ {r} : SameEditing(s)
    BY <1>1, EditingStays DEF Writing
<1>7. QED
    BY <1>2, <1>3, <1>5, <1>6, HistoryBegins

\* Whatever an edit has done by the time it is aborted, nothing of it shows.
LEMMA AbortRefines ==
    ASSUME SerialInv, NEW p \in Request, Abort(p)
    PROVE  [History!Next]_(History!vars)
<1>1. UNCHANGED <<row, versions, files>> /\ pc[p] # "idle" /\ End(p)
    BY DEF Abort
<1>2. \A s \in Report : SameHistory(s)
    BY <1>1, Unseeing
<1>3. CASE tx[p].op = "update"
  <2>1. PICK r \in Report : r = tx[p].report
      BY <1>1, <1>3, LoadedFacts DEF SerialInv
  <2>2. EditingOf(r) /\ ~EditingOf(r)' /\ \A s \in Report \ {r} : SameEditing(s)
      BY <1>1, <1>3, <2>1, EditingEnds
  <2>3. QED
      BY <1>2, <2>2, HistoryGivesUp
<1>4. CASE tx[p].op # "update"
  <2>1. \A s \in Report : Unseen(s)
      BY <1>1, <1>2, <1>4, EditingEnds DEF Unseen
  <2>2. QED
      BY <2>1, HistoryStutters
<1>5. QED
    BY <1>3, <1>4

\* The steps that the history does not see: those of other requests than
\* edits, and those of edits between their first and their last.
LEMMA Invisible ==
    ASSUME SerialInv, NEW p \in Request, UNCHANGED <<row, versions>>,
           \A q \in Request \ {p} : pc'[q] = pc[q] /\ tx'[q] = tx[q],
           \/ ~Writing(p) /\ ~Writing(p)'
           \/ Writing(p) /\ Writing(p)' /\ tx'[p].report = tx[p].report,
           UNCHANGED files \/ OpenFile(p) \/ WriteFile(p)
    PROVE  UNCHANGED History!vars
<1>1. \A r \in Report : SameHistory(r)
    BY FilesBehind, Unseeing
<1>2. \A r \in Report : SameEditing(r)
    BY EditingStays
<1>3. QED
    BY <1>1, <1>2, HistoryStutters DEF Unseen

\* Every step of the requests is a step of the history or invisible to it.
LEMMA StepRefines ==
    ASSUME Clients = "await_commit", SerialInv, SerialInv', [Next]_vars
    PROVE  [History!Next]_(History!vars)
<1>1. ASSUME NEW p \in Request,
             Start(p) \/ Proceed(p) \/ Flush(p) \/ Abort(p)
      PROVE  [History!Next]_(History!vars)
  <2>1. CASE OpenFile(p) \/ WriteFile(p) \/ Flush(p) \/ Reply(p)
    <3>1. /\ UNCHANGED <<row, versions, tx>>
          /\ UNCHANGED files \/ OpenFile(p) \/ WriteFile(p)
          /\ \A q \in Request \ {p} : pc'[q] = pc[q]
          /\ pc[p] # "idle" /\ pc'[p] # "idle"
        BY <2>1 DEF SerialInv, IInv, TypeOK, OpenFile, WriteFile, Flush, Reply, Goto
    <3>2. Writing(p)' <=> Writing(p)
        BY <3>1 DEF Writing
    <3>3. QED
        BY <3>1, <3>2, Invisible
  <2>2. CASE ReadChunk1(p) \/ ReadChunk2(p)
    <3>1. /\ UNCHANGED <<row, versions, files>> /\ tx[p].op = "download"
          /\ pc[p] # "idle" /\ tx[p] \in Tx
        BY <2>2 DEF SerialInv, IInv, TxOK, CreateOK, LoadedOK, ReadChunk1, ReadChunk2
    <3>2. /\ tx'[p].op = "download"
          /\ \A q \in Request \ {p} : pc'[q] = pc[q] /\ tx'[q] = tx[q]
        BY <2>2, <3>1 DEF SerialInv, IInv, TypeOK, Tx, ReadChunk1, ReadChunk2, Goto
    <3>3. QED
        BY <3>1, <3>2, Invisible DEF Writing
  <2>3. CASE CommitDownload(p)
    <3>1. /\ UNCHANGED <<row, versions, files>> /\ tx[p].op = "download"
          /\ pc[p] # "idle" /\ pc'[p] = "idle"
          /\ \A q \in Request \ {p} : pc'[q] = pc[q] /\ tx'[q] = tx[q]
        BY <2>3 DEF SerialInv, IInv, TypeOK, CommitDownload, End
    <3>2. QED
        BY <3>1, Invisible DEF Writing
  <2>4. CASE CommitCreate(p) \/ CommitUpdate(p) \/ CommitDelete(p)
      BY <2>4, CreateRefines, UpdateRefines, DeleteRefines
  <2>5. CASE Abort(p)
      BY <2>5, AbortRefines
  <2>6. CASE Start(p)
    <3>1. PICK a \in Actor, r \in Report :
              \/ \E d \in Doc : CreateReport(p, a, r, d)
              \/ \E d \in Doc : UpdateReport(p, a, r, d)
              \/ DeleteReport(p, a, r)
              \/ DownloadPdf(p, a, r)
              \/ Refuse(p, a, r)
        BY <2>6 DEF Start
    <3>2. CASE \E d \in Doc : UpdateReport(p, a, r, d)
        BY <3>2, UpdateBegins
    <3>3. CASE \/ \E d \in Doc : CreateReport(p, a, r, d)
               \/ DeleteReport(p, a, r) \/ DownloadPdf(p, a, r)
      <4>1. /\ UNCHANGED <<row, versions, files>> /\ pc[p] = "idle"
            /\ tx'[p].op # "update"
            /\ \A q \in Request \ {p} : pc'[q] = pc[q] /\ tx'[q] = tx[q]
          BY <3>3 DEF SerialInv, IInv, TypeOK, CreateReport, DeleteReport,
                      DownloadPdf, Begin
      <4>2. QED
          BY <4>1, Invisible DEF Writing
    <3>4. CASE Refuse(p, a, r)
      <4>1. UNCHANGED <<row, versions, files, pc, tx>>
          BY <3>4 DEF Refuse, vars
      <4>2. Writing(p)' <=> Writing(p)
          BY <4>1 DEF Writing
      <4>3. QED
          BY <4>1, <4>2, Invisible
    <3>5. QED
        BY <3>1, <3>2, <3>3, <3>4
  <2>7. QED
      BY <1>1, <2>1, <2>2, <2>3, <2>4, <2>5, <2>6 DEF Proceed, Commit
<1>2. CASE UNCHANGED vars
  <2>1. UNCHANGED <<row, versions, files, pc, tx>>
      BY <1>2 DEF vars
  <2>2. \A r \in Report : SameHistory(r)
      BY <2>1, Unseeing
  <2>3. \A r \in Report : SameEditing(r)
      BY <2>1 DEF SameEditing, EditingOf, InFlight
  <2>4. QED
      BY <2>2, <2>3, HistoryStutters DEF Unseen
<1>3. QED
    BY <1>1, <1>2 DEF Next

\* When the edits of a report await each other's commits, the requests, their
\* files and their failures implement the versioned document of ReportHistory,
\* deletions that overtake an edit or one another included.
THEOREM Refinement ==
    ASSUME Clients = "await_commit"
    PROVE  Spec => PublishesHistory
<1>1. SerialInv /\ SerialInv' /\ [Next]_vars => [History!Next]_(History!vars)
    BY StepRefines
<1>2. QED
    BY InitRefines, SerialInvariance, <1>1, PTL
    DEF Spec, PublishesHistory, History!Spec

-----------------------------------------------------------------------------
(***************************************************************************)
(* No published PDF is overwritten: edits that await each other's commits  *)
(* write ahead of the row, and snapshots name versions behind it.          *)
(***************************************************************************)
Behind(r) ==
    \A i \in 1..Len(versions[r]) :
        Stored(r) /\ versions[r][i].version <= row[r].version

BehindInv == SerialInv /\ \A r \in Report : Behind(r)

LEMMA BehindStep ==
    ASSUME BehindInv, SerialInv', [Next]_vars, NEW r \in Report
    PROVE  Behind(r)'
<1>1. IInv /\ TypeOK /\ TypeOK'
    BY DEF BehindInv, SerialInv, IInv
<1>2. CASE row'[r] = row[r] /\ versions'[r] = versions[r]
    BY <1>2 DEF BehindInv, Behind, Stored
<1>3. ASSUME NEW p \in Request, Commit(p), tx[p].report = r, ~CommitDownload(p)
      PROVE  Behind(r)'
  <2>1. CASE CommitCreate(p)
    <3>1. ~Stored(r) /\ UNCHANGED versions
        BY <1>1, <1>3, <2>1, CommitRows DEF CommitCreate
    <3>2. versions'[r] = <<>>
        BY <1>1, <3>1 DEF IInv, ReportOK
    <3>3. Len(<<>>) = 0
        OBVIOUS
    <3>4. QED
        BY <3>2, <3>3 DEF Behind
  <2>2. CASE CommitUpdate(p)
    <3>1. /\ Stored(r) /\ tx[p].old \in Row /\ row[r].version \in Nat
          /\ tx[p].old.version = row[r].version
          /\ row'[r].version = row[r].version + 1
        BY <1>3, <2>2, EditFacts DEF BehindInv, SameContent
    <3>2. Stored(r)'
        BY <1>1, <1>3, <2>2, CommitRows, MarkerFacts DEF Stored
    <3>3. /\ versions[r] \in Seq(Snapshot)
          /\ versions'[r] = Append(versions[r], SnapshotOf(tx[p]))
        BY <1>1, <1>3, <2>2 DEF TypeOK, CommitUpdate
    <3>4. SnapshotOf(tx[p]) \in Snapshot /\ SnapshotOf(tx[p]).version = row[r].version
      <4>1. tx[p] \in Tx
          BY <1>1, <2>2 DEF IInv, TxOK, CommitUpdate
      <4>2. QED
          BY <3>1, <4>1, SnapshotFacts
    <3>5. ASSUME NEW i \in 1..Len(versions'[r])
          PROVE  versions'[r][i].version <= row'[r].version
      <4>1. \/ i \in 1..Len(versions[r]) /\ versions'[r][i] = versions[r][i]
            \/ versions'[r][i] = SnapshotOf(tx[p])
          BY <3>3, <3>4, <3>5
      <4>2. CASE versions'[r][i] = SnapshotOf(tx[p])
          BY <3>1, <3>4, <4>2
      <4>3. CASE i \in 1..Len(versions[r]) /\ versions'[r][i] = versions[r][i]
        <5>1. versions[r][i].version <= row[r].version
            BY <4>3 DEF BehindInv, Behind
        <5>2. versions[r][i].version \in Nat
          <6>1. versions[r][i] \in Snapshot
              BY <3>3, <4>3
          <6>2. QED
              BY <6>1, MarkerFacts DEF Snapshot, Version
        <5>3. QED
            BY <3>1, <4>3, <5>1, <5>2
      <4>4. QED
          BY <4>1, <4>2, <4>3
    <3>6. QED
        BY <3>2, <3>5 DEF Behind
  <2>3. CASE CommitDelete(p)
    <3>1. row'[r] \in Row /\ row'[r].version = row[r].version
        BY <1>3, <2>3, DeleteFacts DEF BehindInv
    <3>2. Stored(r)' /\ UNCHANGED versions
        BY <2>3, <3>1, MarkerFacts DEF Stored, CommitDelete
    <3>3. QED
        BY <3>1, <3>2 DEF BehindInv, Behind
  <2>4. QED
      BY <1>3, <2>1, <2>2, <2>3 DEF Commit
<1>4. QED
    BY <1>1, <1>2, <1>3, OnlyCommits, CommitElsewhere

LEMMA BehindInvariance ==
    ASSUME Clients = "await_commit"
    PROVE  Spec => []BehindInv
<1>1. Init => BehindInv
  <2>1. Len(<<>>) = 0
      OBVIOUS
  <2>2. Init => \A r \in Report : versions[r] = <<>>
      BY DEF Init
  <2>3. QED
      BY <2>1, <2>2, SerialInit DEF BehindInv, Behind
<1>2. BehindInv /\ [Next]_vars => BehindInv'
    BY SerialNext, BehindStep DEF BehindInv
<1>3. QED
    BY <1>1, <1>2, PTL DEF Spec

\* A file that a row or a snapshot names is never written again.
LEMMA NamedStays ==
    ASSUME BehindInv, [Next]_vars, NEW x \in Path, Named(x)
    PROVE  files'[x] = files[x]
<1>1. SerialInv /\ IInv /\ TypeOK
    BY DEF BehindInv, SerialInv, IInv
<1>2. PICK r \in Report : /\ Stored(r)
                          /\ \/ row[r].pdf_path = x
                             \/ \E i \in 1..Len(versions[r]) :
                                    versions[r][i].pdf_path = x
    BY DEF Named
<1>3. PICK v \in Version : v <= row[r].version /\ x = report_relpath(r, v)
  <2>1. CASE row[r].pdf_path = x
    <3>1. row[r].version \in Version /\ row[r].version <= row[r].version
        BY <1>1, <1>2, PublishedFacts
    <3>2. x = report_relpath(r, row[r].version)
        BY <1>1, <1>2, <2>1 DEF IInv, ReportOK, SoundRow
    <3>3. QED
        BY <3>1, <3>2
  <2>2. ASSUME NEW i \in 1..Len(versions[r]), versions[r][i].pdf_path = x
        PROVE  \E v \in Version : v <= row[r].version /\ x = report_relpath(r, v)
    <3>1. versions[r][i] \in Snapshot
        BY <1>1 DEF TypeOK
    <3>2. /\ versions[r][i].version \in Version
          /\ versions[r][i].version <= row[r].version
        BY <3>1 DEF Snapshot, BehindInv, Behind
    <3>3. x = report_relpath(r, versions[r][i].version)
        BY <1>1, <2>2 DEF IInv, ReportOK, SoundSnapshot
    <3>4. QED
        BY <3>2, <3>3
  <2>3. QED
      BY <1>2, <2>1, <2>2
<1>4. CASE UNCHANGED files
    BY <1>4
<1>5. ASSUME NEW p \in Request, OpenFile(p) \/ WriteFile(p)
      PROVE  files'[x] = files[x]
    BY <1>1, <1>2, <1>3, <1>5, FilesBehind
<1>6. UNCHANGED files \/ \E p \in Request : OpenFile(p) \/ WriteFile(p)
  <2>1. ASSUME NEW p \in Request, Start(p)
        PROVE  UNCHANGED files
      BY <2>1 DEF Start, CreateReport, UpdateReport, DeleteReport, DownloadPdf,
                  Refuse, Begin, vars
  <2>2. ASSUME NEW p \in Request, Commit(p) \/ Flush(p) \/ Abort(p)
        PROVE  UNCHANGED files
      BY <2>2 DEF Commit, CommitCreate, CommitUpdate, CommitDelete,
                  CommitDownload, Flush, Abort
  <2>3. ASSUME NEW p \in Request, Reply(p) \/ ReadChunk1(p) \/ ReadChunk2(p)
        PROVE  UNCHANGED files
      BY <2>3 DEF Reply, ReadChunk1, ReadChunk2
  <2>4. UNCHANGED vars => UNCHANGED files
      BY DEF vars
  <2>5. QED
      BY <2>1, <2>2, <2>3, <2>4 DEF Next, Proceed
<1>7. QED
    BY <1>4, <1>5, <1>6

\* "PDFs are [...] never overwritten" (filestore.py) holds of every PDF that a
\* row or a snapshot names, if edits await each other's commits.
THEOREM PdfsAreKept ==
    ASSUME Clients = "await_commit"
    PROVE  Spec => NeverOverwritten
<1>1. BehindInv /\ [Next]_vars =>
          [\A x \in Path : Named(x) => files'[x] = files[x]]_vars
    BY NamedStays
<1>2. QED
    BY BehindInvariance, <1>1, PTL DEF Spec, NeverOverwritten
=============================================================================
