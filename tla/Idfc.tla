-------------------------------- MODULE Idfc --------------------------------
(***************************************************************************)
(* What an IDFC run prints: reading a master (services/idfc.py), its rows  *)
(* by branch, and the report of each branch (worker_idfc_thread).          *)
(*                                                                         *)
(* A workbook is a sequence of sheets, a sheet its headings and rows, a    *)
(* row its cells by column.  A cell is blank, a word or a number, and the  *)
(* number may be written as such, with a decimal point or as text: 1023,   *)
(* 1023.0 and "1023" are "int", "float" and "text".                        *)
(***************************************************************************)
EXTENDS Lists, SequencesExt, FiniteSetsExt, Functions

(* REQUIRED_COLUMNS *)
IdfcRequired == {"prospectno", "cuid", "tareweight", "state", "currentbranch", "currentbranchname"}
Blanked == [no |-> 0, word |-> "", as |-> "blank"]
Words(word) == [Blanked EXCEPT !.word = word, !.as = "text"]
Number(no, as) == [Blanked EXCEPT !.no = no, !.as = as]

(* Headings are compared in lower case; Canonical is their spelling in       *)
(* REQUIRED_COLUMNS.                                                         *)
LowerCase(h) == IF h = "CUID" THEN "cuid" ELSE IF h = "PROSPECTNO" THEN "prospectno" ELSE h

(* read_excel: the first sheet whose first row has all the headings; a cell  *)
(* of a column without heading is not read, one of a heading that comes      *)
(* twice overwrites the earlier, and rows without any value are left out.    *)
ReadExcel(book) ==
  LET fits == {i \in DOMAIN book : IdfcRequired \subseteq {LowerCase(h) : h \in Range(book[i].headers)}}
      sheet == book[Min(fits)]
      column(h) == Max({c \in DOMAIN sheet.headers : LowerCase(sheet.headers[c]) = h})
      named == {LowerCase(h) : h \in Range(sheet.headers)} \ {""}
      read(row) == [h \in named |-> row[column(h)]]
      filled(row) == \E c \in DOMAIN row : sheet.headers[c] # "" /\ row[c] # Blanked
  IN IF fits = {} THEN [ok |-> FALSE, rows |-> <<>>]
     ELSE LET kept == Kept(sheet.rows, {row \in Range(sheet.rows) : filled(row)})
          IN [ok |-> TRUE, rows |-> [r \in DOMAIN kept |-> read(kept[r])]]

(* _clean_text: a whole number is its digits; blank, "none" and "nan" are    *)
(* "UNKNOWN".                                                                *)
BranchCode(cell) ==
  IF cell.as = "blank" \/ cell.word \in {"none", "nan"} THEN <<0, "UNKNOWN">>
  ELSE <<cell.no, cell.word>>

(* group_by_branch: the rows of each branch, in order. *)
GroupByBranch(rows) ==
  [c \in {BranchCode(rows[r]["currentbranch"]) : r \in DOMAIN rows} |->
     Kept(rows, {row \in Range(rows) : BranchCode(row["currentbranch"]) = c})]

-----------------------------------------------------------------------------
(* The branch's name as a file name: what is left of it, or its code.        *)
SafeBranch(name, code) ==
  CASE name = Words("Main Rd.") -> <<0, "Main Rd">>
    [] name = Words("***") -> code
    [] name = Blanked -> <<0, "None">>               (* str of None *)
    [] OTHER -> <<name.no, name.word>>

(* naming_pattern with {branch} or without. *)
NamesBranch(pattern) == pattern = "{branch}_{type}"
ReportName(pattern, safe) == IF NamesBranch(pattern) THEN <<"report", safe>> ELSE <<"report", <<>>>>

(* format_tare_weight *)
TareWeight(cell) ==
  CASE cell.as = "blank" \/ cell.word \in {"nan", "inf"} -> Blanked
    [] cell.as = "float" -> Number(cell.no, "text")
    [] OTHER -> cell

(* generate: a line for each account; the branch's name is its first row's. *)
PrintReport(code, rows) ==
  [code |-> code, name |-> rows[1]["currentbranchname"],
   lines |-> [n \in DOMAIN rows |->
                [sr |-> n, account |-> rows[n]["prospectno"],
                 tare |-> TareWeight(rows[n]["tareweight"])]]]

(* worker_idfc_thread, of one workbook: each branch is written under its     *)
(* name over any other of that name, so the last one stays (in the order of  *)
(* their codes, which the model leaves open).                                *)
IdfcReports(book, pattern) ==
  LET read == ReadExcel(book)
      groups == GroupByBranch(read.rows)
      file(c) == ReportName(pattern, SafeBranch(groups[c][1]["currentbranchname"], c))
      last(f) == CHOOSE c \in DOMAIN groups : file(c) = f
  IN [ok |-> read.ok,
      files |-> [f \in {file(c) : c \in DOMAIN groups} |-> PrintReport(last(f), groups[last(f)])],
      count |-> Cardinality(DOMAIN groups)]

-----------------------------------------------------------------------------
(* What openpyxl shows of a workbook: a cell is empty, a number or a word.   *)
IdfcCell(cell) ==
  \/ cell = Blanked
  \/ cell.no \in Nat /\ cell.as \in {"int", "float", "text"} /\ cell = Number(cell.no, cell.as)
  \/ cell.no = 0 /\ cell.word # "" /\ cell.as = "text"
IsMaster(book) ==
  /\ IsSequence(book)
  /\ \A i \in DOMAIN book :
       /\ IsSequence(book[i].headers) /\ IsSequence(book[i].rows)
       /\ \A row \in Range(book[i].rows) : \A c \in DOMAIN book[i].headers : IdfcCell(row[c])

(* Two cells that name one branch, however its code was typed. *)
NoBranchNamed(cell) == cell.as = "blank" \/ cell.word \in {"none", "nan", "UNKNOWN"}
SameBranch(a, b) ==
  \/ NoBranchNamed(a) /\ NoBranchNamed(b)
  \/ ~NoBranchNamed(a) /\ ~NoBranchNamed(b) /\ a.no = b.no /\ a.word = b.word

(* Every row of the master is printed once, in the report of its branch and  *)
(* at its place among the branch's rows, and an account is in no report of a *)
(* branch that does not list it: when the pattern names the branch and the   *)
(* branches' names differ as files.                                          *)
AccountsArePrinted(book, pattern, out) ==
  LET rows == ReadExcel(book).rows
      name(r) == SafeBranch(rows[r]["currentbranchname"], BranchCode(rows[r]["currentbranch"]))
      file(r) == ReportName(pattern, name(r))
      same(q, r) == SameBranch(rows[q]["currentbranch"], rows[r]["currentbranch"])
  IN (out.ok /\ NamesBranch(pattern)
        /\ \A q, r \in DOMAIN rows : name(q) = name(r) <=> same(q, r))
     => \A r \in DOMAIN rows :
          LET before == {q \in 1..r : same(q, r)}
              listed == {q \in DOMAIN rows : rows[q]["prospectno"] = rows[r]["prospectno"]}
              n == Cardinality(before)
          IN /\ {f \in DOMAIN out.files :
                   \E line \in Range(out.files[f].lines) : line.account = rows[r]["prospectno"]}
                  = {file(q) : q \in listed}
             /\ n \in DOMAIN out.files[file(r)].lines
             /\ LET line == out.files[file(r)].lines[n]
                IN line.account = rows[r]["prospectno"] /\ line.sr = n
             /\ Len(out.files[file(r)].lines) = Cardinality({q \in DOMAIN rows : same(q, r)})

=============================================================================
