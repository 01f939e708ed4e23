----------------------------- MODULE MCServices -----------------------------
(***************************************************************************)
(* Services with the inputs TLC gives each service.                        *)
(***************************************************************************)
EXTENDS Services

-----------------------------------------------------------------------------
(* Folders of the PDF merge: every way a file opens, names that are equal,  *)
(* that differ in case only and that another's number collides with.        *)
Opens == {[below |-> FALSE, opens |-> "yes", pages |-> 2, good |-> 2],
          [below |-> TRUE, opens |-> "unlocked", pages |-> 1, good |-> 1],
          [below |-> FALSE, opens |-> "password", pages |-> 1, good |-> 0],
          [below |-> FALSE, opens |-> "broken", pages |-> 2, good |-> 1]}
BranchNames == {<<"A">>, <<"a">>, <<"A", 2>>, <<"A:">>, <<"A_">>}
MergeEntry(i, folder, name, pdfs) == [folder |-> folder, id |-> i, name |-> name, pdfs |-> pdfs]
MergeInputs ==
  {<<MergeEntry(1, TRUE, a, <<p, q>>), MergeEntry(2, TRUE, b, <<r>>), MergeEntry(3, TRUE, c, last)>> :
     a \in BranchNames, b \in BranchNames, c \in {<<"A">>, <<"A_">>},
     p \in Opens, q \in Opens, r \in Opens, last \in {<<>>, <<[below |-> FALSE, opens |-> "yes", pages |-> 1, good |-> 1]>>}}
    \cup {<<MergeEntry(1, FALSE, <<"A">>, <<>>), MergeEntry(2, TRUE, <<"A">>, <<p>>)>> : p \in Opens}

(* PDFs of the flattening. *)
PageAnnotations == {<<>>, <<"link">>, <<"shown", "link">>, <<"bare", "link", "shown">>, <<"bare">>}
FlattenInputs ==
  {[opens |-> o, pages |-> <<a, b>>, fields |-> 1] :
     o \in {"yes", "password", "broken"}, a \in PageAnnotations, b \in PageAnnotations}

-----------------------------------------------------------------------------
(* Wide masters: two loans of up to three ornaments, each present, blank or *)
(* "-"; with and without the auditor's blocks between them.                 *)
WideHeaders(n, audited) ==
  LEADING_COLUMNS
    \o FlattenSeq([i \in 1..n |-> <<"Jewellery No.", Anchor(i)>> \o DATA_ATTR_ORDER
                                    \o (IF audited THEN AUDIT_BLOCK_COLUMNS ELSE <<>>)])
    \o TRAILING_COLUMNS
Cells(kind, names, r, i) == [j \in DOMAIN names |-> Value(<<kind \o names[j], r, i>>)]
Ring(state, r, i) ==
  CASE state = "ring" -> Value(<<"ring", r, i>>) [] state = "none" -> Nothing [] state = "dash" -> Dash
WideRow(r, states, audited, branch) ==
  <<Value(<<"sr", r>>), branch, Value(<<"loan", r>>)>>
    \o FlattenSeq([i \in DOMAIN states |->
         <<Nothing, Ring(states[i], r, i)>> \o Cells("", DATA_ATTR_ORDER, r, i)
           \o (IF audited THEN Cells("audit ", AUDIT_BLOCK_COLUMNS, r, i) ELSE <<>>)])
    \o <<Nothing, Value(<<"packet", r>>)>>
Wide(states, audited) ==
  Sheet(WideHeaders(3, audited),
        [r \in DOMAIN states |-> WideRow(r, states[r], audited, Value(<<"A">>))])
States == {<<a, b, c>> : a \in {"ring", "none"}, b \in {"ring", "none", "dash"}, c \in {"ring", "none"}}
ConvertInputs ==
  {[sheet |-> Wide(<<s, t>>, audited),
    figures |-> FlattenSeq([r \in 1..2 |->
                  LET of == <<s, t>>[r]
                      found == SelectSeq(<<1, 2, 3>>, LAMBDA i : of[i] = "ring")
                  IN [k \in DOMAIN found |-> <<r, found[k]>>]])] :
     s \in States, t \in States, audited \in BOOLEAN}

(* Filled audit sheets: loans of the given sizes, formulas in "Net Weight"  *)
(* that refer to the row, to the row above or to a column of the loan.      *)
TallHeadersOf == LEADING_COLUMNS \o <<"Jewellery No.", "Jewellery1">> \o DATA_ATTR_ORDER
                   \o TRAILING_COLUMNS \o AUDIT_BLOCK_COLUMNS
ColumnOf(h, n) == SetToSortSeq({i \in DOMAIN TallHeadersOf : TallHeadersOf[i] = h}, <)[n]
NetFormula(kind, at) ==
  CASE kind = "none" -> Value(<<"net", at>>)
    [] kind = "row" -> Formula(<<<<ColumnOf("Gross Wt.", 2), at>>, <<ColumnOf("Stone Wt.", 1), at>>>>)
    [] kind = "above" -> Formula(<<<<ColumnOf("Gross Wt.", 2), at - 1>>>>)
    [] kind = "loan" -> Formula(<<<<ColumnOf("Loan No.", 1), at>>>>)
Filled(sizes, kind) ==
  LET rows == FlattenSeq([l \in DOMAIN sizes |-> [i \in 1..sizes[l] |-> <<l, i>>]])
      ofLoan(p, c) == IF p[2] = 1 THEN c ELSE Nothing
  IN Sheet(TallHeadersOf,
       [n \in DOMAIN rows |->
          LET p == rows[n] IN
          <<ofLoan(p, Value(<<"sr", p[1]>>)), ofLoan(p, Value(<<"A">>)), ofLoan(p, Value(<<"loan", p[1]>>)),
            Value(<<"Jewellery", n>>), Value(<<"ring", p[1], p[2]>>)>>
            \o Cells("", DATA_ATTR_ORDER, p[1], p[2])
            \o <<ofLoan(p, Value(<<"manager", p[1]>>)), ofLoan(p, Value(<<"packet", p[1]>>)),
                 Value(<<"Count of Ornament", p[1], p[2]>>), Value(<<"audit gross", p[1], p[2]>>),
                 NetFormula(kind, FIRST_DATA_ROW + n - 1)>>])
RebuildInputs ==
  {Filled(sizes, kind) :
     sizes \in UNION {[1..n -> 1..MAX_ORNAMENTS] : n \in 1..3},
     kind \in {"none", "row", "above", "loan"}}

(* Sheets whose loans name their branch or leave it to the loan above. *)
Branched(names) ==
  Sheet(<<"Branch", "Loan No.">>, [r \in DOMAIN names |-> <<names[r], Value(<<"loan", r>>)>>])
BranchCells == {Nothing, Value(<<"A/B">>), Value(<<"A_B">>), Value(<<"B">>)}
PdfInputs == {Branched(names) : names \in [1..4 -> BranchCells]}

(* Columns of three cells; purities in both scales, codes that look like     *)
(* numbers, karats with letters and in halves.                               *)
ColumnCells(kind) ==
  CASE kind = "percent" -> {BlankCell, Num(0), Num(916), Num(91600), Num(1000), Num(750), Typed(75000), Text("n", FALSE)}
    [] kind = "karat" -> {BlankCell, Num(22 * One), Num(22400), Typed(22 * One), Text("k", FALSE), Text("k", TRUE)}
    [] OTHER -> {BlankCell, Num(2 * One), Num(1234567 * One), Num(1234568 * One), Num(2503), Typed(2503), Text("n", TRUE)}
ColumnInputs == UNION {{[kind |-> k, column |-> c] : c \in [1..3 -> ColumnCells(k)]} : k \in Kinds}

-----------------------------------------------------------------------------
(* IDFC masters of three rows: codes as numbers, decimals and texts, names   *)
(* that clean to the same, a sheet before it that does not fit, a heading in *)
(* capitals and one that comes twice.                                        *)
IdfcHeaders == <<"PROSPECTNO", "currentbranch", "currentbranchname", "tareweight", "", "tareweight", "CUID", "state">>
IdfcCodes == {Number(1, "int"), Number(1, "float"), Number(1, "text"), Number(2, "text")}
IdfcNames == {Words("Main Rd."), Words("Main Rd"), Words("B"), Blanked}
IdfcRow(r, code, name) == <<Number(r, "int"), code, name, Blanked, Words("note"), Number(5, "float"), Blanked, Blanked>>
IdfcInputs ==
  {[book |-> <<[headers |-> Front(IdfcHeaders), rows |-> <<>>],
               [headers |-> IdfcHeaders,
                rows |-> <<IdfcRow(1, c[1], n[1]), IdfcRow(2, c[2], n[2]),
                           <<Blanked, Blanked, Blanked, Blanked, Words("note"), Blanked, Blanked, Blanked>>,
                           IdfcRow(3, c[3], n[3])>>]>>,
    pattern |-> p] :
     c \in {f \in [1..3 -> IdfcCodes] : f[1].no = 1 /\ f[1].as # "text"}, n \in [1..3 -> IdfcNames], p \in {"{branch}_{type}", "{type}"}}

(* Equitas books: two pairs, or one whose JSR sheet is missing; loans typed   *)
(* as numbers and texts, with none, one or two packets, some of no branch, of *)
(* two branches that are one file and of another.                             *)
Loan(n, t) == [no |-> n, text |-> t]
BranchAt(n) == [place |-> n, file |-> IF n = 3 THEN "B" ELSE "A_"]
NormalSheets == {[base |-> b, jsr |-> FALSE, rows |-> <<[loan |-> Loan(1, t), branch |-> x], [loan |-> Loan(n, FALSE), branch |-> y]>>] :
                   b \in {"p", "q"}, t \in BOOLEAN, n \in {1, 2},
                   x \in {BranchAt(1), BranchAt(3), NoBranch}, y \in {BranchAt(k) : k \in 1..3}}
JsrSheets == {[base |-> b, jsr |-> TRUE, rows |-> rows] :
                b \in {"p", "q"},
                rows \in {<<>>, <<[loan |-> Loan(1, FALSE), packet |-> 11]>>,
                          <<[loan |-> Loan(2, FALSE), packet |-> 21], [loan |-> Loan(1, FALSE), packet |-> 11],
                            [loan |-> Loan(2, FALSE), packet |-> 22]>>,
                          <<[loan |-> Loan(1, TRUE), packet |-> 11]>>}}
Books == {<<n, j, m, k>> : n \in NormalSheets, j \in JsrSheets,
                           m \in {s \in NormalSheets : s.base = "q" /\ s.rows[1].branch.place = 1 /\ s.rows[2].loan.no = 2},
                           k \in {s \in JsrSheets : s.base = "q"}}
(* Every book without a failure; those with three packets in each format,     *)
(* cancelled before a branch and with failures of either file.                *)
Stage1Run(book, format, until, fails) == [book |-> book, format |-> format, until |-> until, fails |-> fails]
Fine == [pdf |-> {}, excel |-> {}]
Failing == {Fine, [Fine EXCEPT !.pdf = {BranchAt(1)}], [Fine EXCEPT !.excel = {BranchAt(3)}],
            [pdf |-> {BranchAt(3)}, excel |-> {BranchAt(2)}]}
FullBook(b) ==
  \A s \in DOMAIN b : IF b[s].jsr THEN Len(b[s].rows) = 3 ELSE b[s].rows[1].loan # b[s].rows[2].loan
MasterInputs ==
  {run \in {Stage1Run(b, format, until, fails) :
               b \in Books, format \in {"PDF ONLY", "EXCEL ONLY", "BOTH"}, until \in {2, 4}, fails \in Failing} :
     FullBook(run.book) \/ (run.format = "BOTH" /\ run.until = 4 /\ run.fails = Fine)}
PackInputs == {"PDF ONLY", "EXCEL ONLY", "BOTH"} \X PackModes \X BOOLEAN
FilledCells == {[k |-> "num", n |-> 1500], [k |-> "diff", n |-> 250], [k |-> "text", n |-> 0]}
FilledRows == {[account |-> a, bank |-> b, actual |-> c, remark |-> r, packet |-> p, carat |-> [k |-> "num", n |-> 22]] :
                 a \in {"x", "y", ""}, b \in FilledCells, c \in FilledCells, r \in {Ok, "", "short"}, p \in {"", "n1"}}
ConsolidateInputs ==
  {<<r, s, t>> : r \in {f \in FilledRows : f.account = "x" /\ f.packet = "" /\ f.remark # "short"},
                 s \in {f \in FilledRows : f.account # "x" \/ f.packet = "n1"}, t \in {f \in FilledRows : f.bank = f.actual /\ f.packet = "n1" /\ f.remark # "short"}}

(* Branch workbooks of three packets, one loan perhaps without, as an        *)
(* auditor fills them in.                                                    *)
AuditInputs ==
  {[rows |-> [r \in 1..3 |-> [account |-> a[r], packet |-> IF r = 1 THEN p ELSE 10 + r, gross |-> 1000 * r, carat |-> 20 + r]],
    entries |-> [r \in 1..3 |-> [actual |-> IF w[r] = NoEntry THEN NoEntry ELSE Entered(1000 * r + w[r].n),
                                  carat |-> IF c[r] = NoEntry THEN NoEntry ELSE Entered(20 + r + c[r].n)]]] :
     a \in {f \in [1..3 -> {"x", "y"}] : f[1] = "x"}, p \in {NoPacket, 11},
     w \in [1..3 -> {NoEntry, Entered(0), Entered(-200)}], c \in [1..3 -> {NoEntry, Entered(0), Entered(-2)}]}

(* Rows to lay out: accounts that come twice, none, of another length, with   *)
(* references to the row itself, absolute or not, and to another; a PDF that  *)
(* lists them, others like them and numbers before and after.                 *)
Accounts == {0, 1, 2, 3}
Relative(r) == [row |-> r, absolute |-> FALSE]
Absolute(r) == [row |-> r, absolute |-> TRUE]
LayoutInputs ==
  {[rows |-> [r \in 1..3 |-> [account |-> a[r], digits |-> IF a[r] = 3 THEN 12 ELSE 15,
                              refs |-> <<Relative(r), Absolute(r), Relative(IF r = 3 THEN 2 ELSE 3), Absolute(1)>>]],
    numbers |-> [i \in 1..3 |-> [account |-> p[i], digits |-> IF p[i] \in {3, 4} THEN 12 ELSE 15]]] :
     a \in [1..3 -> Accounts], p \in [1..3 -> {1, 2, 3, 4, 5}]}

(* Packets of one series, one of them typed untidily, and holders of a name. *)
PacketOf(n, d, tidy) == [series |-> "S", digits |-> d, number |-> n, tidy |-> tidy]
PacketRow(p, name, status, remark) == [packet |-> p, name |-> name, status |-> status, remark |-> remark]
SmallSheets ==
  {<<PacketRow(p[1], "x", "", s[1]), PacketRow(p[2], "x", "", s[2]), PacketRow(p[3], n[1], c, ""),
     PacketRow(p[4], n[2], "", "")>> :
     p \in {f \in [1..4 -> {NoNumber, PacketOf(1, 7, TRUE), PacketOf(1, 7, FALSE), PacketOf(2, 7, TRUE)}] :
             f[1] # NoNumber},
     s \in [1..2 -> {"", "top up"}], n \in [1..2 -> {"", "x", "y"}], c \in {"", "closed"}}
Series == [r \in 1..8 |-> PacketRow(PacketOf(100 + r, IF r <= 5 THEN 7 ELSE 8, TRUE), "z", "", "")]
LongSheets ==
  {Series \o [i \in 1..3 |-> PacketRow(p[i], "y", "", "")] :
     p \in [1..3 -> {NoNumber, PacketOf(1, 7, FALSE), PacketOf(2, 9, TRUE), PacketOf(3, 0, TRUE),
                     [PacketOf(4, 5, TRUE) EXCEPT !.series = "M"], [PacketOf(5, 6, TRUE) EXCEPT !.series = "M"]}]}
PacketInputs == SmallSheets \cup LongSheets

(* Rows to validate: every weight equal, near and far, the differences as     *)
(* numbers and formulas, right, stale and missing; then everything else.      *)
PlainRow ==
  [status |-> "fresh", taf |-> "POA", remark |-> "", renewed |-> "text", magnet |-> "OK",
   tampered |-> "NO", gdrNo |-> "no", state |-> "GUJARAT", marks |-> <<>>, outliers |-> {},
   gdrGross |-> Figure(9000), actGross |-> Figure(9000), tare |-> Figure(9500), grossDiff |-> Figure(0),
   gdrNet |-> Figure(8000), actNet |-> Figure(8000), netDiff |-> Figure(0),
   spurCount |-> Figure(0), caratCount |-> Figure(0), uncommonCount |-> Figure(0), spurWeight |-> Figure(0), spurPct |-> Figure(0),
   ornGdr |-> Figure(2), ornActual |-> Figure(2), ornDiff |-> Figure(0)]
GrossDiffs == {None, Figure(0), Figure(40), Figure(130), Calculated("gdrGross-actGross", 130), Uncomputed("gdrGross-actGross")}
NetDiffs == {Figure(0), Calculated("gdrNet-actNet", 1200), Uncomputed("gdrNet-actNet")}
WeightRows ==
  {[PlainRow EXCEPT !.taf = t, !.status = s, !.remark = r, !.actGross = g, !.grossDiff = d,
                    !.actNet = n, !.netDiff = e] :
     t \in {"POA", "TAF", ""}, s \in {"fresh", "verified", "already verified", "closed"},
     r \in {"", "gross", "net", "both", "top up"},
     g \in {None, Figure(0), Figure(9000), Figure(8870), Figure(9130), Figure(6000)}, d \in GrossDiffs,
     n \in {Figure(8000), Figure(7920), Figure(9300), Calculated("other", 8000)}, e \in NetDiffs}
OtherRows ==
  {[PlainRow EXCEPT !.taf = t, !.status = s, !.remark = r, !.tare = w, !.magnet = m,
                    !.tampered = IF m = "OK" THEN "NO" ELSE "YES", !.state = IF m = "OK" THEN "GUJARAT" ELSE "UNKNOWN",
                    !.renewed = IF m = "" THEN "" ELSE "text",
                    !.outliers = IF m = "OK" THEN {} ELSE {"verification", "renewed"}, !.spurWeight = p[1], !.spurPct = p[2],
                    !.ornActual = o[1], !.ornDiff = o[2], !.ornGdr = o[3]] :
     t \in {"POA", "TAF"}, s \in {"fresh", "verified", "closed"}, r \in {"", "top up"},
     w \in {NA, Figure(0), Figure(8500), Figure(9500)}, m \in {"OK", "BAD", "", "TEST NOT DONE"},
     p \in {<<Figure(0), Figure(0)>>, <<Figure(3000), Figure(3333)>>, <<Figure(3000), None>>,
            <<Figure(3000), Calculated("percent", 0)>>},
     o \in {Figure(2), Figure(1), None, Calculated("other", 3)} \X {Figure(0), None, Calculated("ornActual-ornGdr", 1)}
             \X {Figure(2), Figure(0)}}

-----------------------------------------------------------------------------
(* Workbooks of up to three sheets: clear and weak payments and masters, one  *)
(* without headings, notes, and a sheet that is never read.                  *)
Column(heading, kind, n) == [heading |-> heading, kind |-> kind, n |-> n]
SheetFrom(name, columns) ==
  [name |-> name, headings |-> [c \in DOMAIN columns |-> columns[c].heading],
   rows |-> <<[c \in DOMAIN columns |-> [kind |-> columns[c].kind, n |-> columns[c].n]],
              [c \in DOMAIN columns |-> [kind |-> columns[c].kind, n |-> 2 * columns[c].n]]>>]
ClearPayments == <<Column(<<"assayer", "name">>, "text", 1), Column(<<"total", "pay">>, "amount", 5),
                   Column(<<"pan", "number">>, "pan", 1), Column(<<"ifsc", "code">>, "ifsc", 1)>>
WeakPayments == <<Column(<<"assayer", "name">>, "text", 1), Column(<<"bank", "name">>, "text", 1),
                  Column(<<"ifsc", "code">>, "ifsc", 1)>>
ClearMaster == <<Column(<<"branch">>, "text", 1), Column(<<"zone">>, "zone", 1), Column(<<"sol", "id">>, "sol_id", 1)>>
WeakMaster == <<Column(<<"branch">>, "text", 1), Column(<<"zone">>, "zone", 1)>>
Mixed == <<Column(<<"vendor", "name">>, "text", 1), Column(<<"client", "fee">>, "amount", 1),
           Column(<<"total", "pay">>, "amount", 1), Column(<<"no", "of", "visits">>, "amount", 1)>>
Bare == <<Column(<<"x">>, "pan", 1), Column(<<"y">>, "sol_id", 1), Column(<<"z">>, "date", 1)>>
Sheets == {SheetFrom("other", c) : c \in {ClearPayments, WeakPayments, ClearMaster, WeakMaster, Mixed, Bare, <<>>}}
            \cup {SheetFrom("payments", WeakMaster), SheetFrom("ignored", ClearPayments), SheetFrom("master", WeakPayments)}
WorkbookInputs == UNION {[1..n -> Sheets] : n \in 1..3}

(* Payments: any of the columns beside the usual ones, a total that is       *)
(* stated or not, a phone number where the PAN should be; a row without a    *)
(* serial number and one of totals are in every sheet.                       *)
Optional(columns) == {SetToSeq(S) : S \in SUBSET columns}
PaymentColumns ==
  {Column(<<"no", "of", "visits", "1">>, "amount", 2), Column(<<"total", "pay", "base", "1">>, "amount", 10),
   Column(<<"accommodation", "charges", "if", "any">>, "amount", 200), Column(<<"missed", "audits">>, "amount", 3000),
   Column(<<"branch", "cancellation", "charges">>, "amount", 40000),
   Column(<<"additional", "cost", "if", "any">>, "amount", 7000000)}
PaymentSheet(columns) ==
  [name |-> "payments", headings |-> [c \in DOMAIN columns |-> columns[c].heading],
   rows |-> <<[c \in DOMAIN columns |-> [kind |-> columns[c].kind, n |-> columns[c].n]],
              [c \in DOMAIN columns |-> IF c = 1 THEN Empty ELSE Rupees(1)],
              [c \in DOMAIN columns |-> IF c = 1 THEN [kind |-> "total", n |-> 0] ELSE Rupees(c)]>>]
PaymentInputs ==
  {[sheet |-> PaymentSheet(<<Column(<<"s", "no">>, "amount", 1), Column(<<"no", "of", "visits">>, "amount", 3),
                             Column(<<"base", "audit", "fee">>, "amount", 7), Column(<<"total", "pay", "base">>, "amount", 21),
                             Column(<<"travel", "charges", "if", "any">>, "amount", 100), deduction>>
                             \o cancelled \o total \o pans \o more),
    known |-> [r \in DOMAIN PtNames |-> IF r = "totalPay" THEN hint ELSE NothingKnown]] :
     deduction \in {Column(<<"error", "deduction">>, "amount", 5), Column(<<"deduction">>, "amount", 5)},
     cancelled \in {<<>>, <<Column(<<"cancelled", "visits">>, "amount", 500000)>>},
     total \in {<<>>, <<Column(<<"total", "pay">>, "amount", 0)>>, <<Column(<<"total", "pay">>, "amount", 77)>>},
     pans \in {<<Column(<<"assayer", "pan">>, "phone", 9), Column(<<"pan">>, "pan", 8)>>,
               <<Column(<<"assayer", "pan">>, "pan", 9)>>, <<Column(<<"assayer", "pan">>, "phone", 9)>>},
     more \in Optional(PaymentColumns),
     hint \in {NothingKnown, [source |-> <<"total", "pay">>, position |-> 4], [source |-> <<"total">>, position |-> 1]}}

(* Masters: fees under one name or another, visits, cancellations and their  *)
(* status, with a serial number or without.                                  *)
MasterColumns(visits) ==
  {Column(<<"assayer", "fee", "1">>, "amount", 900), Column(<<"no", "of", "visits">>, "amount", visits),
   Column(<<"client", "fee">>, "amount", 50), Column(<<"cancelled">>, "amount", 11),
   Column(<<"cancelled", "client", "fee">>, "amount", 13), Column(<<"no", "of", "packets", "audited">>, "amount", 6)}
AuditSheets ==
  {SheetFrom("master", serial \o <<Column(<<"branch">>, "text", 1), fee, status>> \o more) :
     serial \in {<<>>, <<Column(<<"sr", "no">>, "amount", 1)>>},
     fee \in {Column(<<f[1], f[2]>>, "amount", n) :
                f \in {<<"assayer", "fee">>, <<"audit", "fee">>, <<"auditor", "payment">>}, n \in {0, 20}},
     status \in {Column(<<"audit", "status">>, k, 0) : k \in {"text", "cancelled"}},
     more \in Optional(MasterColumns(3)) \cup Optional(MasterColumns(0))}

(* Two workbooks of one client or two, whose payments name their zone, some  *)
(* of them or none, and whose masters name one or none.                      *)
ZoneCells == {Empty, [kind |-> "zone", n |-> 1], [kind |-> "zone", n |-> 2]}
WorkbookOf(client, zones, master) ==
  [client |-> client,
   sheets |-> <<[name |-> "payments", headings |-> <<<<"s", "no">>, <<"assayer", "name">>, <<"total", "pay">>, <<"zone">>>>,
                 rows |-> [r \in 1..2 |-> <<Rupees(r), [kind |-> "text", n |-> 3 - r], Rupees(10 * client + r), zones[r]>>]],
                [name |-> "master", headings |-> <<<<"sr", "no">>, <<"branch">>, <<"zone">>>>,
                 rows |-> [r \in 1..2 |-> <<Rupees(r), [kind |-> "text", n |-> 1], master[r]>>]]>>]
TrackerInputs ==
  {<<WorkbookOf(1, <<p[1], p[2]>>, <<m[1], m[2]>>), WorkbookOf(c, <<p[3], p[1]>>, <<m[2], m[3]>>)>> :
     c \in {1, 2}, p \in [1..3 -> ZoneCells], m \in [1..3 -> {z \in ZoneCells : z.n < 2}]}

-----------------------------------------------------------------------------
MCInputs(name) ==
  CASE name = "merge" -> MergeInputs
    [] name = "flatten" -> FlattenInputs
    [] name = "convert" -> ConvertInputs
    [] name = "rebuild" -> RebuildInputs
    [] name = "pdfs" -> PdfInputs
    [] name = "normalize" -> ColumnInputs
    [] name = "idfc" -> IdfcInputs
    [] name = "stage 1" -> MasterInputs
    [] name = "pack" -> PackInputs
    [] name = "lay out" -> LayoutInputs
    [] name = "packets" -> PacketInputs
    [] name = "rows" -> WeightRows \cup OtherRows
    [] name = "audit" -> AuditInputs
    [] name = "stage 2" -> ConsolidateInputs
    [] name = "sheets" -> WorkbookInputs
    [] name = "payments" -> PaymentInputs
    [] name = "audits" -> AuditSheets
    [] name = "tracker" -> TrackerInputs

=============================================================================
