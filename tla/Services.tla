------------------------------ MODULE Services ------------------------------
(***************************************************************************)
(* What the services compute: a behaviour is of one service, and takes one *)
(* of its inputs and computes the output.  Inputs(name) are the inputs of  *)
(* the service of that name.                                               *)
(***************************************************************************)
EXTENDS PdfTools, Arvog, ArvogColumns, Idfc, Equitas, ReportValidator, ConsolidateRows

CONSTANT Inputs(_)

(* Rows and columns are what openpyxl and pandas read of a sheet; folders   *)
(* and PDFs are what the file system and the PDF libraries show.            *)
ASSUME ServicesAssumption ==
  /\ \A root \in Inputs("merge") : IsRoot(root)
  /\ \A pdf \in Inputs("flatten") : IsDocument(pdf)
  /\ \A i \in Inputs("convert") : IsWide(i.sheet, i.figures)
  /\ \A sheet \in Inputs("rebuild") : IsAuditSheet(sheet)
  /\ \A i \in Inputs("idfc") : IsMaster(i.book)
  /\ \A run \in Inputs("stage 1") : IsBook(run.book)
  /\ \A sheet \in Inputs("pdfs") : IsSequence(sheet.rows)
  /\ \A i \in Inputs("audit") : IsAudit(i.rows, i.entries)
  /\ \A rows \in Inputs("stage 2") : IsFilled(rows)
  /\ \A i \in Inputs("lay out") : IsLayout(i.rows, i.numbers)
  /\ \A rows \in Inputs("packets") : IsPacketSheet(rows)
  /\ \A row \in Inputs("rows") : IsRow(row)
  /\ \A i \in Inputs("normalize") : IsColumn(i.kind, i.column)
  /\ \A book \in Inputs("sheets") : IsSequence(book)
  /\ \A i \in Inputs("payments") : IsSheet(i.sheet)
  /\ \A sheet \in Inputs("audits") : IsSheet(sheet)
  /\ \A books \in Inputs("tracker") : IsSequence(books) /\ \A b \in DOMAIN books : IsWorkbook(books[b])

VARIABLES service, called, input, output
callVars == <<service, called, input, output>>

-----------------------------------------------------------------------------
Services == {"merge", "flatten", "convert", "rebuild", "pdfs", "normalize", "idfc", "stage 1", "pack",
             "lay out", "packets", "rows", "audit", "stage 2", "sheets", "payments", "audits", "tracker"}

Init == service \in Services /\ called = FALSE /\ input = <<>> /\ output = <<>>

Call(name, Out(_)) ==
  /\ service = name /\ ~called
  /\ called' = TRUE /\ UNCHANGED service
  /\ \E i \in Inputs(name) : input' = i /\ output' = Out(i)

Unhinted == [r \in DOMAIN PtNames \cup DOMAIN MdNames |-> NothingKnown]

RunMerge == Call("merge", MergeFolder)
RunFlatten == Call("flatten", Flatten)
RunConvert == Call("convert", LAMBDA i : Convert(i.sheet))
RunRebuild == Call("rebuild", Rebuild)
RunPdfs == Call("pdfs", Pdfs)
RunNormalize == Call("normalize", LAMBDA i : NormalizeColumn(i.kind, i.column))
RunIdfc == Call("idfc", LAMBDA i : IdfcReports(i.book, i.pattern))
RunStage1 == Call("stage 1", Stage1)
RunPack == Call("pack", LAMBDA i : Pack(i[1], i[2], i[3]))
RunLayOut == Call("lay out", LAMBDA i : LayOut(i.rows, i.numbers))
RunPackets == Call("packets", Packets)
RunRows == Call("rows", ValidateRow)
RunAudit == Call("audit", LAMBDA i : Stage2(FillIn(i.rows, i.entries)))
RunStage2 == Call("stage 2", Consolidate)
RunSheets == Call("sheets", IdentifySheets)
RunPayments == Call("payments", LAMBDA i : PtRows(i.sheet, 1, i.known))
RunAudits == Call("audits", LAMBDA i : MdRows(i, 1, Unhinted))
RunTracker == Call("tracker", LAMBDA i : Tracker(i, Unhinted))

Next ==
  \/ RunMerge \/ RunFlatten
  \/ RunConvert \/ RunRebuild \/ RunPdfs \/ RunNormalize
  \/ RunIdfc
  \/ RunStage1 \/ RunPack \/ RunStage2 \/ RunAudit
  \/ RunLayOut \/ RunPackets \/ RunRows
  \/ RunSheets \/ RunPayments \/ RunAudits \/ RunTracker
Spec == Init /\ [][Next]_callVars

(* What a service's input and output have to do with each other. *)
After(name, Promise(_, _)) == called /\ service = name => Promise(input, output)

(* The PDF tools: a merge keeps every page of every branch or says what it    *)
(* left out, and a flattened PDF can no longer be filled in while its summary *)
(* adds up (pdf_merger.py, pdf_flattener.py).                                 *)
PdfsKept == After("merge", MergeKeepsPages) /\ After("flatten", FlattenIsFinal)

(* Every ornament of a wide master is a row of the audit sheet and in the PDF *)
(* of its own branch (arvog.py).                                              *)
OrnamentsKept ==
  /\ After("convert", LAMBDA i, o : EveryOrnament(i.figures, o))
  /\ After("pdfs", LAMBDA i, o : PdfForEachOrnament(i))

(* A filled audit sheet folded into a master reads back as itself, and its    *)
(* formulas still refer to the cells they were about (arvog_rebuild.py).      *)
FoldedBack ==
  After("rebuild", LAMBDA i, o : RoundTrip(i, o.sheet) /\ FormulasMeanTheSame(i, o.sheet))

(* A column of purities keeps its meaning, once and again; codes that differ  *)
(* stay different; workbook and PDF show the same figure (arvog_columns.py).  *)
ColumnsKept ==
  After("normalize", LAMBDA i, o :
    /\ i.kind = "percent" => PurityOnOneScale(i.column, o)
    /\ i.kind = "identifier" => CodesStayApart(i.column, o)
    /\ OutputsAgree(i.kind, o))

(* Every account of an IDFC master is printed once, in its branch's report;   *)
(* every packet of an Equitas master is in its branch's workbook and on a page *)
(* of its PDF, unless the log says that branch failed or the run was cancelled *)
(* before it or another branch has its file's name; packing never leaves out   *)
(* or deletes what was asked for (idfc.py, equitas.py, workers.py).            *)
ReportsComplete ==
  /\ After("idfc", LAMBDA i, o : AccountsArePrinted(i.book, i.pattern, o))
  /\ After("stage 1", PacketsAreAudited)
  /\ After("pack", LAMBDA i, o : NothingUnpacked(i[1], i[2], i[3], o))

(* What an auditor entered is what the report says, and the second stage      *)
(* accounts for every weight and issue (equitas.py).                          *)
AuditReported ==
  /\ After("audit", LAMBDA i, o : AuditReachesReport(i.rows, i.entries, o))
  /\ After("stage 2", WeightsAreKept)

(* Rows follow the PDF's order, none lost, their formulas with them; no packet *)
(* is on two rows, or on none, unseen; one of a common length is not called a *)
(* break of its series (report_validator.py).                                 *)
SheetKept ==
  /\ After("lay out", LAMBDA i, o : RowsFollowPdf(i.rows, i.numbers, o))
  /\ After("packets", PacketsAccounted) /\ After("packets", SeriesAreKept)

(* No pass undoes the reset of a closed row, the differences Excel shows are  *)
(* those of the weights beside them, and a validated row is valid             *)
(* (report_validator.py).                                                     *)
RowsSettle ==
  After("rows", ClosedRowsStayReset) /\ After("rows", DifferencesAgree) /\ After("rows", StaysValid)

(* The tracker adds up: the sheets that clearly are a role are read in it, an *)
(* auditor's pay is the sum of its parts and of every visit, a phone number   *)
(* is not passed on as a PAN, and every payment is there once, with its zone  *)
(* (consolidate.py).                                                          *)
TrackerIsWhole ==
  /\ After("sheets", ClearSheetsAreRead)
  /\ After("tracker", LAMBDA i, o : TrackerComplete(i, PaymentsRead(i, Unhinted), o))
TrackerAddsUp ==
  /\ TrackerIsWhole
  /\ After("payments", LAMBDA i, o : PayAddsUp(i.sheet, i.known, o) /\ PanIsAPan(i.sheet, i.known, o))
  /\ After("audits", VisitsArePaid)

=============================================================================
