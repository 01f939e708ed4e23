-------------------------------- MODULE Arvog --------------------------------
(***************************************************************************)
(* The Arvog reports: the wide master of a branch is exploded into one row *)
(* per ornament (services/arvog.py), the auditor fills in a block, and the *)
(* sheet is folded back into a wide master (arvog_rebuild.py).  Columns    *)
(* are located by their headings (arvog_layout.py).                        *)
(*                                                                         *)
(* A sheet is its headings, normalised, and its rows of cells; of each     *)
(* group of headings the model keeps a few.  A cell is nothing, a value    *)
(* named by where the branch or the auditor wrote it, or a formula, which  *)
(* is the cells it refers to.                                              *)
(***************************************************************************)
EXTENDS Naturals, Sequences, FiniteSets, SequencesExt, FiniteSetsExt, Functions, Lists

LEADING_COLUMNS == <<"SR No.", "Branch", "Loan No.">>
TRAILING_COLUMNS == <<"Cluster Manager", "Packets Number">>
DATA_ATTR_ORDER == <<"Gross Wt.", "Stone Wt.", "Karat">>
AUDIT_BLOCK_COLUMNS == <<"Count of Ornament", "Gross Wt.", "Net Weight">>
REQUIRED_COLUMNS ==
  Range(LEADING_COLUMNS) \cup Range(DATA_ATTR_ORDER)
    \cup {"Jewellery No.", "Jewellery1", "Packets Number"}
MAX_ORNAMENTS == 3
Anchor(i) == <<"Jewellery1", "Jewellery2", "Jewellery3", "Jewellery4">>[i]
Numbers == 1..4

Nothing == [k |-> "none", of |-> <<>>, refs |-> <<>>]
Value(of) == [k |-> "value", of |-> of, refs |-> <<>>]
(* The references of a formula, <<column, row>>, in their order. *)
Formula(refs) == [k |-> "formula", of |-> <<>>, refs |-> refs]
Dash == Value(<<"-">>)
Blank(c) == c = Nothing
IsSheetCell(c) == c \in {Nothing, Value(c.of), Formula(c.refs)}

Sheet(headers, rows) == [headers |-> headers, rows |-> rows]
CellAt(row, c) == IF c \in DOMAIN row THEN row[c] ELSE Nothing
Blanks(n) == [i \in 1..n |-> Nothing]

-----------------------------------------------------------------------------
(* index_of: the first column with a heading, or 0. *)
IndexOf(headers, h) ==
  IF h \in Range(headers) THEN Min({i \in DOMAIN headers : headers[i] = h}) ELSE 0

(* Where the branch's figures end and the auditor's begin. *)
SplitAt(headers, first, last) ==
  LET at == {i \in first..last : headers[i] = AUDIT_BLOCK_COLUMNS[1]}
  IN IF at = {} THEN last + 1 ELSE Min(at)

(* The first column of each heading in a part of the row, by heading. *)
FirstOf(headers, names, first, last) ==
  [h \in {n \in names : \E i \in first..last : headers[i] = n} |->
     Min({i \in first..last : headers[i] = h})]

(* Mutant: every ornament occupies as many columns as the first. *)
FixedStride(headers) ==
  LET anchors == {i \in DOMAIN headers : \E n \in Numbers : headers[i] = Anchor(n)}
      first == Min(anchors)
      stride == 2 + Len(DATA_ATTR_ORDER)
  IN [p \in 1..Cardinality(anchors) |->
        [number |-> p, name |-> first + (p - 1) * stride,
         data |-> [h \in Range(DATA_ATTR_ORDER) |->
                     first + (p - 1) * stride + (CHOOSE j \in DOMAIN DATA_ATTR_ORDER : DATA_ATTR_ORDER[j] = h)],
         audit |-> <<>>]]

(* map_ornaments: each block is anchored on its own heading and runs to the *)
(* next; blocks beyond the cap are ignored.                                 *)
Anchors(headers) == {i \in DOMAIN headers : \E n \in Numbers : headers[i] = Anchor(n)}
BlockOf(headers, a, last) ==
  LET split == SplitAt(headers, a + 1, last)
  IN [number |-> CHOOSE n \in Numbers : headers[a] = Anchor(n),
      name |-> a,
      data |-> FirstOf(headers, Range(DATA_ATTR_ORDER), a + 1, split - 1),
      audit |-> FirstOf(headers, Range(AUDIT_BLOCK_COLUMNS), split, last)]
BlocksOf(headers) ==
  LET at == InOrder(Anchors(headers))
  IN [p \in DOMAIN at |->
        BlockOf(headers, at[p], IF p < Len(at) THEN at[p + 1] - 1 ELSE Len(headers))]
MapOrnaments(headers) ==
  LET blocks == BlocksOf(headers)
  IN Kept(blocks, {b \in Range(blocks) : b.number <= MAX_ORNAMENTS})

(* detect_raw_excel: both first ornaments among the first three rows, and    *)
(* find_header_row: all the required headings among the first ten.  A sheet  *)
(* has its headings below "above" rows of a title or banner.                 *)
IsRaw(sheet, above) == above < 3 /\ {"Jewellery1", "Jewellery2"} \subseteq Range(sheet.headers)
IsTall(sheet, above) == above < 10 /\ REQUIRED_COLUMNS \subseteq Range(sheet.headers)

(* A workbook as a sequence of sheets with their "above": the one that is    *)
(* read (process_excel, detect_tall_sheet), the raw ones first.              *)
Detected(book) ==
  LET raw == {i \in DOMAIN book : IsRaw(book[i].sheet, book[i].above)}
      tall == {i \in DOMAIN book : IsTall(book[i].sheet, book[i].above)}
  IN IF raw # {} THEN [kind |-> "raw", at |-> Min(raw)]
     ELSE IF tall # {} THEN [kind |-> "tall", at |-> Min(tall)]
     ELSE [kind |-> "none", at |-> 0]

-----------------------------------------------------------------------------
Present(cols, headers) == Kept(cols, Range(headers))
TallHeaders(headers) ==
  Present(LEADING_COLUMNS, headers)
    \o <<"Jewellery No.", "Jewellery1">> \o DATA_ATTR_ORDER
    \o Present(TRAILING_COLUMNS, headers)

(* The manager configured for the region, when the row names none. *)
DefaultManager == Value(<<"manager">>)

(* The loan's own cells go to the row of its first ornament. *)
LoanCells(headers, row, cols, first) ==
  [j \in DOMAIN cols |->
     LET c == CellAt(row, IndexOf(headers, cols[j]))
     IN IF ~first THEN Nothing
        ELSE IF cols[j] = "Cluster Manager" /\ Blank(c) THEN DefaultManager
        ELSE c]

IsOrnament(row, block) == ~Blank(CellAt(row, block.name)) /\ CellAt(row, block.name) # Dash

(* convert_raw_to_tall: a row per ornament; rows with neither a loan number  *)
(* nor a serial number are skipped, and so are blank and "-" ornaments.      *)
IsLoan(headers, row) ==
  ~Blank(CellAt(row, IndexOf(headers, "Loan No."))) \/ ~Blank(CellAt(row, IndexOf(headers, "SR No.")))
Figures(row, block) ==
  [j \in DOMAIN DATA_ATTR_ORDER |->
     LET h == DATA_ATTR_ORDER[j]
     IN IF h \in DOMAIN block.data THEN CellAt(row, block.data[h]) ELSE Nothing]
Explode(headers, row) ==
  LET blocks == MapOrnaments(headers)
      found == Kept(blocks, {b \in Range(blocks) : IsOrnament(row, b)})
  IN [k \in DOMAIN found |->
        LoanCells(headers, row, Present(LEADING_COLUMNS, headers), k = 1)
          \o <<Value(<<Anchor(found[k].number)>>), CellAt(row, found[k].name)>>
          \o Figures(row, found[k])
          \o LoanCells(headers, row, Present(TRAILING_COLUMNS, headers), k = 1)]
Convert(sheet) ==
  LET hs == sheet.headers
  IN Sheet(TallHeaders(hs),
           FlattenSeq([r \in DOMAIN sheet.rows |->
                         IF IsLoan(hs, sheet.rows[r]) THEN Explode(hs, sheet.rows[r]) ELSE <<>>]))

(* append_audit_block: the hand-fill columns close the sheet, once. *)
Closes(block, headers) ==
  Len(headers) >= Len(block) /\ SubSeq(headers, Len(headers) - Len(block) + 1, Len(headers)) = block
AppendAuditBlock(sheet) ==
  IF Closes(AUDIT_BLOCK_COLUMNS, sheet.headers) THEN sheet
  ELSE Sheet(sheet.headers \o AUDIT_BLOCK_COLUMNS,
             [r \in DOMAIN sheet.rows |-> sheet.rows[r] \o Blanks(Len(AUDIT_BLOCK_COLUMNS))])

-----------------------------------------------------------------------------
(* The PDFs of process_excel: one for each branch, a blank branch being that *)
(* of the row above; rows above the first branch are in none.                *)
BranchCell(sheet, r) == CellAt(sheet.rows[r], IndexOf(sheet.headers, "Branch"))

BranchOf(sheet, r) ==
  LET named == {q \in 1..r : ~Blank(BranchCell(sheet, q))}
  IN IF named = {} THEN Nothing ELSE BranchCell(sheet, Max(named))

(* A "/" in the name of a branch becomes "_" in the file's. *)
FileName(branch) == IF branch = Value(<<"A/B">>) THEN Value(<<"A_B">>) ELSE branch

Pdfs(sheet) ==
  LET branches == {BranchOf(sheet, r) : r \in DOMAIN sheet.rows} \ {Nothing}
      rows(b) == {r \in DOMAIN sheet.rows : BranchOf(sheet, r) = b}
      (* groupby keeps the order of appearance: the last branch of a file name *)
      (* overwrites the others.                                                *)
      winner(f) == CHOOSE b \in branches :
                     /\ FileName(b) = f
                     /\ \A d \in branches : FileName(d) = f => Min(rows(d)) <= Min(rows(b))
  IN [f \in {FileName(b) : b \in branches} |-> [branch |-> winner(f), rows |-> rows(winner(f))]]

-----------------------------------------------------------------------------
FIRST_DATA_ROW == 3   (* below the banner and the headings, in both sheets *)

(* Mutant: the row is not looked at. *)
RemapColumnsOnly(refs, src, dst, map) ==
  IF \A i \in DOMAIN refs : refs[i][1] \in DOMAIN map
  THEN [i \in DOMAIN refs |-> <<map[refs[i][1]], dst>>] ELSE <<>>

(* remap_formula: nothing when a reference leaves the row or the ornament. *)
RemapFormula(refs, src, dst, map) ==
  IF \A i \in DOMAIN refs : refs[i][2] = src /\ refs[i][1] \in DOMAIN map
  THEN [i \in DOMAIN refs |-> <<map[refs[i][1]], dst>>] ELSE <<>>

(* What Excel last computed for a formula: the values it refers to. *)
Computed(cell) == [cell EXCEPT !.k = "computed"]

(* _loan_rows: a row with any loan-level value starts a loan, and so does the *)
(* first row; blank rows go.                                                 *)
LoanRows(rows, leadCols) ==
  LET written == {r \in DOMAIN rows : \E c \in DOMAIN rows[r] : ~Blank(rows[r][c])}
      starts == InOrder({r \in written : \/ \E c \in leadCols : ~Blank(CellAt(rows[r], c))
                                        \/ \A q \in written : r <= q})
  IN [l \in DOMAIN starts |->
        InOrder({r \in written : r >= starts[l] /\ (l < Len(starts) => r < starts[l + 1])})]

GroupWidth == 2 + Len(DATA_ATTR_ORDER) + Len(AUDIT_BLOCK_COLUMNS)

(* _build_headers *)
GroupHeadings(i) == <<"Jewellery No.", Anchor(i)>> \o DATA_ATTR_ORDER \o AUDIT_BLOCK_COLUMNS
BuildHeaders(lead, trail, widest) ==
  lead \o FlattenSeq([i \in 1..widest |-> GroupHeadings(i)]) \o trail

(* The columns an ornament's figures and the auditor's are read from, or 0. *)
Sources(block) ==
  LET column(found, h) == IF h \in DOMAIN found THEN found[h] ELSE 0
  IN [j \in DOMAIN DATA_ATTR_ORDER |-> column(block.data, DATA_ATTR_ORDER[j])]
       \o [j \in DOMAIN AUDIT_BLOCK_COLUMNS |-> column(block.audit, AUDIT_BLOCK_COLUMNS[j])]

(* column_map: where they end up in the group that begins after a column. *)
ColumnMap(block, start) ==
  LET from == Sources(block)
  IN [c \in Range(from) \ {0} |-> start + 2 + Max({j \in DOMAIN from : from[j] = c})]

(* _value: the cell of row r as it is in row l; a formula is repointed or     *)
(* replaced by what it computed.                                             *)
Moved(sheet, r, l, map, c) ==
  LET cell == CellAt(sheet.rows[r], c)
      refs == RemapFormula(cell.refs, FIRST_DATA_ROW + r - 1, FIRST_DATA_ROW + l - 1, map)
  IN IF cell.k # "formula" THEN cell
     ELSE IF refs # <<>> THEN Formula(refs) ELSE Computed(cell)

(* Row r as the i-th ornament of row l. *)
Group(sheet, r, l, i) ==
  LET block == MapOrnaments(sheet.headers)[1]
      from == Sources(block)
      map == ColumnMap(block, Len(Present(LEADING_COLUMNS, sheet.headers)) + (i - 1) * GroupWidth)
  IN <<Value(<<Anchor(i)>>), Moved(sheet, r, l, map, block.name)>>
       \o [j \in DOMAIN from |-> Moved(sheet, r, l, map, from[j])]

(* The cells of a loan are copied as they are. *)
CopiedCells(headers, row, cols) == [j \in DOMAIN cols |-> CellAt(row, IndexOf(headers, cols[j]))]

(* rebuild_wide_workbook: the loans of the sheet, each folded into a row.    *)
Rebuild(sheet) ==
  LET hs == sheet.headers
      lead == Present(LEADING_COLUMNS, hs)
      trail == Present(TRAILING_COLUMNS, hs)
      loans == LoanRows(sheet.rows, {IndexOf(hs, h) : h \in Range(lead)})
      capped(l) == IF Len(loans[l]) > MAX_ORNAMENTS THEN MAX_ORNAMENTS ELSE Len(loans[l])
      widest == Max({capped(l) : l \in DOMAIN loans})
  IN [ok |-> loans # <<>>,
      sheet |-> Sheet(BuildHeaders(lead, trail, widest),
                  [l \in DOMAIN loans |->
                     CopiedCells(hs, sheet.rows[loans[l][1]], lead)
                       \o FlattenSeq([i \in 1..capped(l) |-> Group(sheet, loans[l][i], l, i)])
                       \o Blanks((widest - capped(l)) * GroupWidth)
                       \o CopiedCells(hs, sheet.rows[loans[l][1]], trail)])]

-----------------------------------------------------------------------------
(* What is checked of them. *)

(* Rows without the ornament's number, which a fold counts anew. *)
Content(sheet) ==
  [r \in DOMAIN sheet.rows |->
     [c \in DOMAIN sheet.rows[r] |->
        IF sheet.headers[c] = "Jewellery No." THEN Nothing ELSE sheet.rows[r][c]]]

(* A wide master: each heading of an ornament's name comes once, in the      *)
(* order of their numbers; below it is the ornament, nothing or "-", and     *)
(* beside it, before the next name and the auditor's block, are its own      *)
(* figures.  The figures are the ornaments of the loans up to the cap, in    *)
(* the order of the sheet.                                                   *)
Earlier(p, q) == p[1] < q[1] \/ (p[1] = q[1] /\ p[2] < q[2])
HasRing(sheet, a, r, n) == CellAt(sheet.rows[r], a) = Value(<<"ring", r, n>>)
HasFigure(sheet, a, n, h) ==
  \E c \in DOMAIN sheet.headers :
    /\ a < c /\ sheet.headers[c] = h
    /\ \A i \in (a + 1)..(c - 1) :
         /\ i \notin Anchors(sheet.headers)
         /\ sheet.headers[i] # AUDIT_BLOCK_COLUMNS[1] /\ sheet.headers[i] # h
    /\ \A r \in DOMAIN sheet.rows :
         HasRing(sheet, a, r, n) => CellAt(sheet.rows[r], c) = Value(<<h, r, n>>)
IsWide(sheet, figures) ==
  LET hs == sheet.headers IN
  /\ IsSequence(hs) /\ IsSequence(sheet.rows) /\ IsSequence(figures)
  /\ \A a, b \in DOMAIN hs, m, n \in Numbers :
       hs[a] = Anchor(m) /\ hs[b] = Anchor(n) /\ a < b => m < n
  /\ \A a \in DOMAIN hs, n \in Numbers : hs[a] = Anchor(n) =>
       /\ \A r \in DOMAIN sheet.rows :
            HasRing(sheet, a, r, n) \/ CellAt(sheet.rows[r], a) \in {Nothing, Dash}
       /\ \A h \in Range(DATA_ATTR_ORDER) : HasFigure(sheet, a, n, h)
  /\ Range(figures) =
       {p \in (DOMAIN sheet.rows) \X (1..MAX_ORNAMENTS) :
          /\ IsLoan(hs, sheet.rows[p[1]])
          /\ \E a \in DOMAIN hs : hs[a] = Anchor(p[2]) /\ HasRing(sheet, a, p[1], p[2])}
  /\ \A i, j \in DOMAIN figures : i < j => Earlier(figures[i], figures[j])

(* Every ornament of the master is a row of the audit sheet, with its own    *)
(* figures and in its order, whether or not the master carries audit blocks; *)
(* the block the auditor fills in closes the sheet once.                     *)
EveryOrnament(figures, converted) ==
  LET tall == AppendAuditBlock(converted)
      c(h) == IndexOf(tall.headers, h)
      row(r) == tall.rows[r]
  IN /\ AppendAuditBlock(tall) = tall
     /\ [r \in DOMAIN tall.rows |-> row(r)[c("Jewellery1")].of]
          = [r \in DOMAIN figures |-> <<"ring", figures[r][1], figures[r][2]>>]
     /\ \A r \in DOMAIN figures, h \in Range(DATA_ATTR_ORDER) :
          row(r)[c(h)] = Value(<<h, figures[r][1], figures[r][2]>>)

(* An audit sheet an auditor filled in: the headings of a converted sheet and *)
(* the auditor's block, a row for each ornament, the loan's cells in that of *)
(* its first one only, no loan with more than the cap.  Formulas are in the  *)
(* auditor's block and refer, within their row, to figures.                  *)
IsAuditSheet(sheet) ==
  LET hs == sheet.headers
      rows == sheet.rows
      width == Len(hs) - Len(AUDIT_BLOCK_COLUMNS)
      ofLoan == {c \in 1..width : hs[c] \in Range(LEADING_COLUMNS) \cup Range(TRAILING_COLUMNS)}
  IN
  /\ hs = TallHeaders(hs) \o AUDIT_BLOCK_COLUMNS /\ REQUIRED_COLUMNS \subseteq Range(hs)
  /\ IsSequence(rows) /\ rows # <<>>
  /\ \A r \in DOMAIN rows :
       /\ IsSequence(rows[r]) /\ Len(rows[r]) = Len(hs)
       /\ \E q \in DOMAIN rows : IsLoan(hs, rows[q]) /\ q <= r /\ r < q + MAX_ORNAMENTS
       /\ \A c \in ofLoan : IF IsLoan(hs, rows[r]) THEN hs[c] = "Cluster Manager" => ~Blank(rows[r][c])
                             ELSE Blank(rows[r][c])
       /\ LET ring == rows[r][IndexOf(hs, "Jewellery1")] IN
            /\ ring = Value(<<"ring", ring.of[2], ring.of[3]>>)
            /\ rows[r][width + 1] = Value(<<"Count of Ornament", ring.of[2], ring.of[3]>>)
       /\ \A c \in DOMAIN hs : IsSheetCell(rows[r][c])
       /\ \A c \in DOMAIN hs : rows[r][c].k = "formula" =>
            LET refs == rows[r][c].refs IN
            /\ c > width /\ IsSequence(refs) /\ refs # <<>>
            /\ \A i \in DOMAIN refs :
                 /\ refs[i] = <<refs[i][1], refs[i][2]>>
                 /\ refs[i][2] = FIRST_DATA_ROW + r - 1 /\ refs[i][1] \in DOMAIN hs
                      => rows[r][refs[i][1]].k # "formula"

(* Exploding and folding are inverse: the folded master is found again as    *)
(* what it is and reads back as the same ornaments of the same loans, and    *)
(* what the auditor wrote of an ornament is beside it.                       *)
RoundTrip(filled, folded) ==
  LET kind == Detected(<<[sheet |-> folded, above |-> 1]>>).kind
      (* as far as the branch's columns: what closes the rows is the audit block *)
      width == Len(filled.headers) - Len(AUDIT_BLOCK_COLUMNS)
      back == Convert(folded)
      blocks == MapOrnaments(folded.headers)
      audit(l, i) == [j \in DOMAIN AUDIT_BLOCK_COLUMNS |->
                        IF AUDIT_BLOCK_COLUMNS[j] \in DOMAIN blocks[i].audit
                        THEN folded.rows[l][blocks[i].audit[AUDIT_BLOCK_COLUMNS[j]]] ELSE Nothing]
  IN /\ kind = IF Len(blocks) >= 2 THEN "raw" ELSE "tall"
     /\ Content(back) = [r \in DOMAIN filled.rows |->
                           SubSeq(Content(filled)[r], 1, width)]
     /\ \A l \in DOMAIN folded.rows, i \in DOMAIN blocks :
          LET name == folded.rows[l][blocks[i].name] IN
          name # Nothing =>
            audit(l, i)[1] = Value(<<"Count of Ornament", name.of[2], name.of[3]>>)

(* A formula that was repointed refers to the cells that now hold what it    *)
(* referred to; the others were replaced by what they had computed.          *)
FormulasMeanTheSame(filled, folded) ==
  LET at(sheet, ref) ==
        LET r == (ref[2] + 1) - FIRST_DATA_ROW
        IN IF r \in DOMAIN sheet.rows THEN CellAt(sheet.rows[r], ref[1]) ELSE Nothing
      cells(sheet) == {p \in (DOMAIN sheet.rows) \X (1..Len(sheet.headers)) :
                         CellAt(sheet.rows[p[1]], p[2]).k = "formula"}
      values(sheet, p) == LET refs == sheet.rows[p[1]][p[2]].refs
                          IN [i \in DOMAIN refs |-> at(sheet, refs[i])]
  IN \A p \in cells(folded) :
       \E q \in cells(filled) :
         /\ values(folded, p) = values(filled, q)
         /\ folded.headers[p[2]] = filled.headers[q[2]]

(* Every ornament is in one PDF, that of the last branch named above it, when *)
(* the first row names one and no two branches share a file name.             *)
PdfForEachOrnament(sheet) ==
  LET pdfs == Pdfs(sheet)
      named == {r \in DOMAIN sheet.rows : ~Blank(BranchCell(sheet, r))}
  IN (1 \in named
        /\ \A q, r \in named : FileName(BranchCell(sheet, q)) = FileName(BranchCell(sheet, r))
                                  => BranchCell(sheet, q) = BranchCell(sheet, r))
     => \A r \in DOMAIN sheet.rows :
          \E q \in named :
            /\ q <= r /\ (q + 1)..r \cap named = {}
            /\ {f \in DOMAIN pdfs : r \in pdfs[f].rows} = {FileName(BranchCell(sheet, q))}

=============================================================================
