------------------------------ MODULE Equitas ------------------------------
(***************************************************************************)
(* What the two stages of an Equitas audit compute (services/equitas.py):  *)
(* the master of loans and packets from pairs of sheets, the workbook of   *)
(* each branch and how it is packed, and the accounts of a filled workbook *)
(* put together.                                                           *)
(*                                                                         *)
(* A sheet is [base, jsr, rows]: its name without "JSR", whether it had    *)
(* it, and rows [loan, branch] or [loan, packet].  A loan number is        *)
(* [no, text]: 7 and "7" differ.  A branch is [place, file]: the place of  *)
(* its name in the order of names, and what the name is as a file's, where *)
(* "A/B" and "A_B" are one.  Weights are thousandths.                      *)
(***************************************************************************)
EXTENDS Integers, Lists, SequencesExt, FiniteSetsExt, Functions

CONSTANT ROWS_PER_PAGE   (* of a branch's PDF *)

ASSUME EquitasAssumption == ROWS_PER_PAGE \in Nat \ {0}

NoBranch == [place |-> 0, file |-> ""]
NoPacket == 0
Ok == "OK - no discrepancy"

(* The last sheet of each role; a base that lacks one is skipped. *)
SheetOf(book, base, jsr) ==
  LET at == {i \in DOMAIN book : book[i].base = base /\ book[i].jsr = jsr}
  IN IF at = {} THEN 0 ELSE Max(at)
Pairs(book) ==
  {b \in {book[i].base : i \in DOMAIN book} : SheetOf(book, b, TRUE) # 0 /\ SheetOf(book, b, FALSE) # 0}

NormalOf(book, b) == book[SheetOf(book, b, FALSE)].rows
JsrOf(book, b) == book[SheetOf(book, b, TRUE)].rows

(* A column of numbers and one of texts cannot be merged: pandas raises. *)
AllNumbers(rows) == \A r \in DOMAIN rows : ~rows[r].loan.text
AllTexts(rows) == rows # <<>> /\ \A r \in DOMAIN rows : rows[r].loan.text
Mergeable(normal, jsr) ==
  ~(AllNumbers(normal) /\ AllTexts(jsr)) /\ ~(AllTexts(normal) /\ AllNumbers(jsr))

(* merge, how="left": a row for each packet of the loan, or one without. *)
LeftMerge(normal, jsr) ==
  FlattenSeq([r \in DOMAIN normal |->
    LET found == Kept(jsr, {j \in Range(jsr) : j.loan = normal[r].loan})
        row(packet) == [loan |-> normal[r].loan, branch |-> normal[r].branch, packet |-> packet]
    IN IF found = <<>> THEN <<row(NoPacket)>>
       ELSE [p \in DOMAIN found |-> row(found[p].packet)]])

(* SR_NO: loans are numbered in the order of their numbers as texts. *)
SerialOf(rows, loan) == Cardinality({rows[r].loan.no : r \in {q \in DOMAIN rows : rows[q].loan.no <= loan.no}})

(* build_master_dataframe: the pairs, each numbered from one; a pair that    *)
(* fails is left out with a line in the log.                                 *)
MasterOf(book) ==
  LET frame(b) ==
        LET merged == LeftMerge(NormalOf(book, b), JsrOf(book, b))
        IN {[pair |-> b, at |-> r, loan |-> merged[r].loan, branch |-> merged[r].branch,
             packet |-> merged[r].packet, sr |-> SerialOf(merged, merged[r].loan)] : r \in DOMAIN merged}
      good == {b \in Pairs(book) : Mergeable(NormalOf(book, b), JsrOf(book, b))}
  IN [ok |-> good # {}, rows |-> UNION {frame(b) : b \in good}]

(* sort_values: by serial number, those of one in the order they came.       *)
BySerial(rows) ==
  LET upTo(i) == {j \in DOMAIN rows : rows[j].sr < rows[i].sr \/ (rows[j].sr = rows[i].sr /\ j <= i)}
  IN [n \in DOMAIN rows |-> rows[CHOOSE i \in DOMAIN rows : Cardinality(upTo(i)) = n]]

(* Mutant: the last page is printed when it is full. *)
FullPages(rows) ==
  [p \in 1..(Len(rows) \div ROWS_PER_PAGE) |->
     SubSeq(BySerial(rows), (p - 1) * ROWS_PER_PAGE + 1, p * ROWS_PER_PAGE)]

(* generate_branch_pdf: the rows by serial number, so many to a page. *)
BranchPdf(rows) ==
  LET last(p) == IF p * ROWS_PER_PAGE > Len(rows) THEN Len(rows) ELSE p * ROWS_PER_PAGE
  IN [p \in 1..((Len(rows) + ROWS_PER_PAGE - 1) \div ROWS_PER_PAGE) |->
        SubSeq(BySerial(rows), (p - 1) * ROWS_PER_PAGE + 1, last(p))]

(* Of the branches that write one file, the one whose file is left.          *)
Written(branches, file) ==
  CHOOSE b \in branches : b.file = file /\ \A d \in branches : d.file = file => d.place <= b.place

Asks(format, kind) == format = "BOTH" \/ format = (IF kind = "pdf" THEN "PDF ONLY" ELSE "EXCEL ONLY")

(* run_stage1 before it packs: the branches in the order of their names,     *)
(* until it is cancelled, each into a PDF and a workbook; rows without one   *)
(* are in none.  A run is [book, format, until, fails]: fails.pdf and        *)
(* fails.excel are the branches whose file raises, which ends that branch    *)
(* with a line in the log.  The heading counts the serial numbers.           *)
Stage1(run) ==
  LET master == MasterOf(run.book)
      rowsOf(b) == {row \in master.rows : row.branch = b}
      reached == {b \in {row.branch : row \in master.rows} \ {NoBranch} : b.place < run.until}
      raises(kind) == IF Asks(run.format, kind) THEN run.fails[kind] ELSE {}
      pdfs == IF Asks(run.format, "pdf") THEN reached \ raises("pdf") ELSE {}
      excels == IF Asks(run.format, "excel") THEN reached \ (raises("pdf") \cup raises("excel")) ELSE {}
  IN [ok |-> master.ok,
      logged |-> reached \cap (raises("pdf") \cup raises("excel")),
      pdfs |-> [f \in {b.file : b \in pdfs} |-> BranchPdf(SetToSeq(rowsOf(Written(pdfs, f))))],
      books |-> [f \in {b.file : b \in excels} |->
                   [branch |-> Written(excels, f), rows |-> rowsOf(Written(excels, f)),
                    accounts |-> Cardinality({row.sr : row \in rowsOf(Written(excels, f))})]]]

(* generate_branch_excel: a row is what the JSR sheet says of the packet, as *)
(* text, and nothing of a loan without one; the auditor fills in the rest.   *)
NoEntry == [k |-> "none", n |-> 0]
Entered(n) == [k |-> "num", n |-> n]
BranchRow(row) ==
  [account |-> row.account,
   bank |-> IF row.packet = NoPacket THEN NoEntry ELSE Entered(row.gross),
   master |-> IF row.packet = NoPacket THEN NoEntry ELSE Entered(row.carat)]

(* The formulas of a row, as Excel computes them once it is filled in: of a  *)
(* carat that is not entered there is no difference, and one with nothing to *)
(* compare it to is an error, of which pandas reads nothing.                 *)
CaratDiff(master, carat) ==
  IF carat = NoEntry THEN NoEntry
  ELSE IF master = NoEntry THEN [k |-> "error", n |-> 0]
  ELSE [k |-> "diff", n |-> carat.n - master.n]

(* Mutant: a carat that is not entered is not a mismatch. *)
RemarkOfEntered(diff) ==
  IF diff.k = "error" THEN "" ELSE IF diff.n = 0 THEN Ok ELSE "Carat mismatch"

RemarkShown(diff) ==
  IF diff.k = "error" THEN "" ELSE IF diff.k = "diff" /\ diff.n = 0 THEN Ok ELSE "Carat mismatch"

(* The branch workbook as the auditor saves it. *)
FillIn(rows, entries) ==
  [r \in DOMAIN rows |->
     LET own == BranchRow(rows[r]) IN
     [account |-> own.account, bank |-> own.bank, packet |-> "",
      actual |-> entries[r].actual, carat |-> entries[r].carat,
      remark |-> RemarkShown(CaratDiff(own.master, entries[r].carat))]]

-----------------------------------------------------------------------------
PackModes == {"FOLDER", "ZIP OF PDF", "ZIP OF EXCEL", "ZIP OF BOTH", "BOTH (FOLDER + ZIP OF PDF)",
              "BOTH (FOLDER + ZIP OF EXCEL)", "BOTH (FOLDER + ZIP OF BOTH)"}
(* "X" in output_mode, for the modes the page offers. *)
ZipPdf(mode) == mode \in {"ZIP OF PDF", "ZIP OF BOTH", "BOTH (FOLDER + ZIP OF PDF)", "BOTH (FOLDER + ZIP OF BOTH)"}
ZipExcel(mode) == mode \in {"ZIP OF EXCEL", "ZIP OF BOTH", "BOTH (FOLDER + ZIP OF EXCEL)", "BOTH (FOLDER + ZIP OF BOTH)"}
DeleteRaw(mode) == mode \in {"ZIP OF PDF", "ZIP OF EXCEL", "ZIP OF BOTH"}

(* A directory is removed once it has been compressed. *)
Removes(mode, zipped) == zipped /\ DeleteRaw(mode)

(* The packing at the end of run_stage1: which of the two directories and    *)
(* their ZIPs there are afterwards.                                          *)
Pack(format, mode, cancelled) ==
  LET pdfs == format \in {"PDF ONLY", "BOTH"}
      excels == format \in {"EXCEL ONLY", "BOTH"}
      zipP == pdfs /\ ZipPdf(mode) /\ ~cancelled
      zipE == excels /\ ZipExcel(mode) /\ ~cancelled
  IN [zips |-> {k \in {"pdf", "excel"} : IF k = "pdf" THEN zipP ELSE zipE},
      folders |-> {k \in {"pdf", "excel"} :
                     IF k = "pdf" THEN pdfs /\ ~Removes(mode, zipP)
                     ELSE excels /\ ~Removes(mode, zipE)}]

-----------------------------------------------------------------------------
(* safe_float_numeric: a number, or "DIFF: " and a number; other text is 0. *)
Numeric(cell) == IF cell.k \in {"num", "diff"} THEN cell.n ELSE 0

Amounts(rows, column) == [r \in DOMAIN rows |-> Numeric(rows[r][column])]

(* _merge_issue_only: the remarks that name an issue; none is "OK". *)
IssuesOf(rows, group) == {rows[r].remark : r \in group} \ {Ok, ""}

FirstNonEmpty(texts, group) ==
  LET some == {r \in group : texts[r] # ""}
  IN IF some = {} THEN "" ELSE texts[Min(some)]

(* _avg_int of the carats that are not 0, rounded; inputs are never half way. *)
AverageCarat(carats, group) ==
  LET some == {r \in group : carats[r] # 0}
      n == Cardinality(some)
  IN IF some = {} THEN 0 ELSE (2 * AddedAt(carats, some) + n) \div (2 * n)

(* load_stage1_excel leaves out the rows without an account number, and      *)
(* consolidate_accounts groups the others by it.                             *)
WithAccount(rows) == {r \in DOMAIN rows : rows[r].account # ""}

Consolidate(rows) ==
  LET account(group) ==
        [bank |-> AddedAt(Amounts(rows, "bank"), group),
         actual |-> AddedAt(Amounts(rows, "actual"), group),
         issues |-> IssuesOf(rows, group),
         packet |-> FirstNonEmpty([r \in DOMAIN rows |-> rows[r].packet], group),
         carat |-> AverageCarat(Amounts(rows, "carat"), group)]
  IN [a \in {rows[r].account : r \in WithAccount(rows)} |->
        account({r \in WithAccount(rows) : rows[r].account = a})]

(* run_stage2: what generate_stage2_excel writes of each account, with its   *)
(* formula for the difference computed.                                      *)
Stage2(rows) ==
  LET done == Consolidate(rows)
  IN [a \in DOMAIN done |-> [account |-> done[a], diff |-> done[a].actual - done[a].bank]]

-----------------------------------------------------------------------------
(* What pandas reads of a workbook: sheets with their rows; one place, one   *)
(* branch.                                                                   *)
IsBook(book) ==
  /\ IsSequence(book)
  /\ \A i \in DOMAIN book :
       /\ IsSequence(book[i].rows)
       /\ \A r \in DOMAIN book[i].rows :
            book[i].rows[r].loan.no \in Nat /\ (~book[i].jsr => book[i].rows[r].branch.place \in Nat)

(* The cells of a filled workbook, what the auditor enters of a packet and   *)
(* the figures it is compared with.                                          *)
IsNumeric(cell) == cell.n \in Int
IsFilled(rows) ==
  /\ IsSequence(rows)
  /\ \A r \in DOMAIN rows : IsNumeric(rows[r].bank) /\ IsNumeric(rows[r].actual) /\ IsNumeric(rows[r].carat)
IsEntry(cell) == cell = NoEntry \/ cell \in [k : {"num"}, n : Int]
IsAudit(rows, entries) ==
  /\ IsSequence(rows)
  /\ \A r \in DOMAIN rows :
       /\ rows[r].gross \in Int /\ rows[r].carat \in Int
       /\ IsEntry(entries[r].actual) /\ IsEntry(entries[r].carat)

(* A pair that can be merged and lists a loan once. *)
RegularPair(book, b) ==
  /\ \A p, q \in DOMAIN NormalOf(book, b) :
       NormalOf(book, b)[p].loan.no = NormalOf(book, b)[q].loan.no => p = q
  /\ Mergeable(NormalOf(book, b), JsrOf(book, b))

(* The name of a branch that no other has as a file's. *)
FileApart(book, home) ==
  \A b \in Pairs(book) : \A r \in DOMAIN NormalOf(book, b) :
    NormalOf(book, b)[r].branch \notin {home, NoBranch} => NormalOf(book, b)[r].branch.file # home.file

(* The packets of a loan, or one row without.                                 *)
PacketsOf(normal, jsr, r) == {p \in DOMAIN jsr : jsr[p].loan = normal[r].loan}
RowsFor(packets) == IF packets = {} THEN 1 ELSE Cardinality(packets)
PacketNumbers(jsr, packets) == IF packets = {} THEN {NoPacket} ELSE {jsr[p].packet : p \in packets}

LoanAudited(run, out, b, r) ==
  LET normal == NormalOf(run.book, b)
      jsr == JsrOf(run.book, b)
      home == normal[r].branch
      packets == PacketsOf(normal, jsr, r)
      isOfLoan(row) == row.pair = b /\ row.loan = normal[r].loan
      rowsIn(n) == {row \in out.books[n].rows : isOfLoan(row)}
      mine == rowsIn(home.file)
      made(kind) == Asks(run.format, kind) /\ home.place < run.until /\ home \notin out.logged
  IN /\ \A n \in DOMAIN out.books : n # home.file => rowsIn(n) = {}
     /\ made("excel") =>
          /\ home.file \in DOMAIN out.books
          /\ Cardinality(mine) = RowsFor(packets) /\ {row.packet : row \in mine} = PacketNumbers(jsr, packets)
          /\ Cardinality({row.sr : row \in mine}) = 1
          /\ \A row \in out.books[home.file].rows, own \in mine : row.pair = b /\ row.sr = own.sr => isOfLoan(row)
     /\ made("pdf") =>
          /\ home.file \in DOMAIN out.pdfs
          /\ \A n \in PacketNumbers(jsr, packets) :
               \E row \in Range(FlattenSeq(out.pdfs[home.file])) : isOfLoan(row) /\ row.packet = n

(* Every packet of a pair's loans is audited once, on a page and in the      *)
(* workbook of its loan's branch and of no other, where a serial number is   *)
(* one loan's within the pair; a loan without packets has a row of its own   *)
(* (a left merge).  A branch that a cancel came before, or that the log says *)
(* failed, may lack them.  For sheets that list a loan once, every pair of   *)
(* which can be merged, and a branch whose name no other shares as a file.   *)
PacketsAreAudited(run, out) ==
  (\A b \in Pairs(run.book) : RegularPair(run.book, b)) =>
    \A b \in Pairs(run.book) : \A r \in DOMAIN NormalOf(run.book, b) :
      LET home == NormalOf(run.book, b)[r].branch
      IN home # NoBranch /\ FileApart(run.book, home) => LoanAudited(run, out, b, r)

(* However the outputs are packed and whether or not the run was cancelled,  *)
(* what was asked for is in a directory or a ZIP, and a ZIP is made of what  *)
(* the mode names.                                                           *)
NothingUnpacked(format, mode, cancelled, out) ==
  /\ out.zips \cup out.folders = {k \in {"pdf", "excel"} :
       format = "BOTH" \/ format = (IF k = "pdf" THEN "PDF ONLY" ELSE "EXCEL ONLY")}
  /\ cancelled => out.zips = {}

(* The second stage neither loses nor invents weight, counts every account   *)
(* once, and says "OK" of one only when none of its packets has an issue.    *)
WeightsAreKept(rows, out) ==
  LET names == SetToSeq(DOMAIN out)
      total(column) == Added([k \in DOMAIN names |-> out[names[k]][column]])
  IN /\ \A column \in {"bank", "actual"} : total(column) = AddedAt(Amounts(rows, column), WithAccount(rows))
     /\ \A a \in DOMAIN out :
          out[a].issues = {} <=>
            \A r \in WithAccount(rows) : rows[r].account = a => rows[r].remark \in {Ok, ""}

(* Through both stages: the second report calls an account "OK" only when    *)
(* every packet of it was audited and had the carat of the master, and the   *)
(* difference it shows is what was weighed less what the bank had.  For      *)
(* loans with packets: one without reads "OK" whatever is entered.           *)
AuditReachesReport(rows, entries, out) ==
  LET own(a) == {r \in DOMAIN rows : rows[r].account = a}
      packed(a) == \A r \in own(a) : rows[r].packet # NoPacket
      weighed == [r \in DOMAIN rows |-> entries[r].actual.n]
      expected == [r \in DOMAIN rows |-> rows[r].gross]
  IN \A a \in DOMAIN out :
       /\ packed(a) /\ out[a].account.issues = {} =>
            \A r \in own(a) : entries[r].carat = Entered(rows[r].carat)
       /\ packed(a) => out[a].diff = AddedAt(weighed, own(a)) - AddedAt(expected, own(a))

=============================================================================
