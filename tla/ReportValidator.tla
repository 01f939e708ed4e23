--------------------------- MODULE ReportValidator ---------------------------
(***************************************************************************)
(* What the report validation does to the rows of a "Purity Verification   *)
(* Format" sheet (services/report_validator.py): the rows are laid out in  *)
(* the order of a PDF, the packet numbers are tidied, compared and         *)
(* completed, and then pass after pass corrects or colours a row.          *)
(*                                                                         *)
(* Weights are in thousandths of a gram.  A cell is empty, a text, "NA", a *)
(* number, or a formula with the value Excel last computed for it.  A      *)
(* colour is put on a cell once: the first pass to colour it wins.         *)
(***************************************************************************)
EXTENDS Integers, Lists, SequencesExt, FiniteSetsExt, Functions

-----------------------------------------------------------------------------
(* The layout.  A row is its account, as digits or 0 for none, and the       *)
(* references of its formula: I26 is [row |-> 26, absolute |-> FALSE], I$26  *)
(* an absolute one.                                                          *)

(* The positions in the PDF of accounts the sheet has. *)
MatchedAt(rows, pdf) == {i \in DOMAIN pdf : pdf[i] # 0 /\ \E r \in DOMAIN rows : rows[r].account = pdf[i]}

(* What the PDF lists before the first of them and after the last is not a   *)
(* list of accounts.                                                          *)
Trimmed(rows, pdf) ==
  LET at == MatchedAt(rows, pdf)
  IN IF at = {} THEN pdf ELSE SubSeq(pdf, Min(at), Max(at))

RowsOf(rows, a) == InOrder({i \in DOMAIN rows : rows[i].account = a})
Others(rows, listed) == InOrder(DOMAIN rows \ Range(listed))
Gap == 0

(* Mutant: an account that is missing takes no row. *)
SlotsWithoutGaps(rows, pdf) ==
  LET listed == FlattenSeq([i \in DOMAIN pdf |-> RowsOf(rows, pdf[i])])
  IN listed \o Others(rows, listed)

(* One slot for a row, a gap for an account the sheet does not have, and the *)
(* rows the PDF does not mention after them.                                  *)
Slots(rows, pdf) ==
  LET listed == FlattenSeq([i \in DOMAIN pdf |->
                  IF RowsOf(rows, pdf[i]) = <<>> THEN <<Gap>> ELSE RowsOf(rows, pdf[i])])
  IN listed \o Others(rows, listed)

(* retarget_formula: what refers to the row it stood in, unless absolutely.  *)
Retarget(refs, old, new) ==
  [i \in DOMAIN refs |->
     IF refs[i].row = old /\ ~refs[i].absolute THEN [row |-> new, absolute |-> FALSE] ELSE refs[i]]

(* rearrange_rows_by_pdf: the rows as they come to lie. *)
Rearrange(rows, pdf) ==
  LET slots == Slots(rows, Trimmed(rows, pdf))
  IN [n \in DOMAIN slots |->
        IF slots[n] = Gap THEN [account |-> 0, from |-> Gap, refs |-> <<>>]
        ELSE [account |-> rows[slots[n]].account, from |-> slots[n],
              refs |-> Retarget(rows[slots[n]].refs, slots[n], n)]]

(* extract_accounts_from_pdf: the numbers of the shape of an account, each   *)
(* at its first place.                                                        *)
Extracted(numbers, rows) ==
  LET shape == {rows[r].digits : r \in {q \in DOMAIN rows : rows[q].account # 0}}
      found == Kept(numbers, {x \in Range(numbers) : x.digits \in shape})
      first == InOrder({i \in DOMAIN found : \A j \in 1..(i - 1) : found[j].account # found[i].account})
  IN [k \in DOMAIN first |-> found[first[k]].account]

(* validate_workbook: laid out when the PDF lists a number like an account,  *)
(* one of the sheet or not.                                                   *)
LayOut(rows, numbers) == Rearrange(rows, Extracted(numbers, rows))

-----------------------------------------------------------------------------
(* Packet numbers: letters, a number of a number of digits, and whether they *)
(* were typed tidily; digits 0 is a text of another form.                     *)
NoNumber == [series |-> "", digits |-> 0, number |-> 0, tidy |-> TRUE]
MIN_PACKET_FAMILY == 3
MIN_PACKETS_FOR_PATTERNS == 10

(* normalize_packet *)
Tidied(p) == [p EXCEPT !.tidy = TRUE]

Paint(marks, key, colour) == IF key \in DOMAIN marks THEN marks
                             ELSE [k \in DOMAIN marks \cup {key} |-> IF k = key THEN colour ELSE marks[k]]
TopUp(remark) == remark \in {"top up", "resolved"}

(* Passes 0 and 1: every packet tidied, then those that come twice coloured. *)
DuplicatePackets(rows) ==
  LET tidy == [r \in DOMAIN rows |-> [rows[r] EXCEPT !.packet = Tidied(@)]]
      green(r) == IF tidy[r] # rows[r] THEN Paint(<<>>, "packet", "green") ELSE <<>>
      twice(r) == /\ tidy[r].packet # NoNumber
                  /\ \E s \in DOMAIN rows : s # r /\ tidy[s].packet = tidy[r].packet
  IN [r \in DOMAIN rows |->
        IF ~twice(r) THEN [row |-> tidy[r], marks |-> green(r), note |-> "none"]
        ELSE IF TopUp(tidy[r].remark)
        THEN [row |-> tidy[r], marks |-> Paint(green(r), "packet", "light blue"), note |-> "topup"]
        ELSE [row |-> tidy[r], marks |-> Paint(green(r), "packet", "dark red"), note |-> "duplicate"]]

(* The rows of the applicant that hold a packet, resolved ones included. *)
Candidates(sheet, r) ==
  {s \in DOMAIN sheet : sheet[s].row.packet # NoNumber /\ sheet[s].row.name = sheet[r].row.name}

(* Pass 2, one row without a packet. *)
ResolveRow(sheet, r) ==
  LET row == sheet[r].row
      found == Candidates(sheet, r)
      flagged(why) == [sheet EXCEPT ![r].marks = Paint(@, "packet", "orange"), ![r].note = why]
  IN IF row.packet # NoNumber THEN sheet
     ELSE IF row.status = "closed" THEN [sheet EXCEPT ![r].note = "closed"]
     ELSE IF row.name = "" THEN flagged("no name")
     ELSE IF Cardinality(found) = 1
     THEN LET s == CHOOSE s \in found : TRUE
          IN [sheet EXCEPT ![r].row = [row EXCEPT !.packet = sheet[s].row.packet, !.remark = "resolved"],
                           ![r].note = "resolved"]
     ELSE flagged(IF found = {} THEN "no match" ELSE "several")

ResolvePackets(sheet) ==
  LET upTo[n \in 0..Len(sheet)] == IF n = 0 THEN sheet ELSE ResolveRow(upTo[n - 1], n)
  IN upTo[Len(sheet)]

(* Pass 2b, learn_packet_families, _established_digit_counts, check_packet:  *)
(* the packets of some letters, and of them those of a length.               *)
WithPacket(sheet) == {r \in DOMAIN sheet : sheet[r].row.packet # NoNumber}
OfSeries(sheet, series) == {r \in WithPacket(sheet) : sheet[r].row.packet.series = series}
Family(sheet, p) == {r \in OfSeries(sheet, p.series) : sheet[r].row.packet.digits = p.digits}
Established(sheet, series) ==
  {sheet[r].row.packet.digits : r \in {q \in OfSeries(sheet, series) :
      Cardinality(Family(sheet, sheet[q].row.packet)) >= MIN_PACKET_FAMILY}}

BreaksSeries(sheet, p) ==
  LET known == Established(sheet, p.series) \ {0}
  IN p.digits = 0 \/ (known # {} /\ p.digits \notin known)

CheckPackets(sheet) ==
  IF Cardinality(WithPacket(sheet)) < MIN_PACKETS_FOR_PATTERNS THEN sheet
  ELSE [r \in DOMAIN sheet |->
          IF sheet[r].row.packet # NoNumber /\ BreaksSeries(sheet, sheet[r].row.packet)
          THEN [sheet[r] EXCEPT !.marks = Paint(@, "packet", "orange")] ELSE sheet[r]]

Packets(rows) == CheckPackets(ResolvePackets(DuplicatePackets(rows)))

-----------------------------------------------------------------------------
(* The passes over one row. *)
None == [k |-> "none", n |-> 0, f |-> ""]
NA == [None EXCEPT !.k = "NA"]
Figure(n) == [k |-> "num", n |-> n, f |-> ""]
Calculated(f, n) == [k |-> "formula", n |-> n, f |-> f]     (* with its cached value *)
Uncomputed(f) == [k |-> "uncached", n |-> 0, f |-> f]     (* without one *)

(* num_or_none of a cell's own value, and of the cached one of a formula. *)
NumberIn(c) == IF c.k = "num" THEN {c.n} ELSE {}
Cached(c) == IF c.k \in {"num", "formula"} THEN {c.n} ELSE {}

Abs(n) == IF n < 0 THEN -n ELSE n
(* round(x, 1) *)
Tenth(n) == IF n < 0 THEN -(((50 - n) \div 100) * 100) ELSE ((n + 50) \div 100) * 100

Set(row, f, c) == [row EXCEPT ![f] = c]
Mark(row, f, colour) == [row EXCEPT !.marks = Paint(@, f, colour)]
Marked(row, f, colour, when) == IF when THEN Mark(row, f, colour) ELSE row

Weights == {"gdrGross", "actGross", "tare", "gdrNet", "actNet", "spurWeight"}
Counts == {"grossDiff", "netDiff", "ornGdr", "ornActual", "ornDiff", "spurCount", "spurPct", "caratCount", "uncommonCount"}

Closed(row) == row.status = "closed"
Cleaned(row) == Closed(row) \/ TopUp(row.remark)

(* Pass 3: what a closed or top-up row does not have is set to its default. *)
Reset(row) ==
  LET texts == [magnet |-> IF Closed(row) THEN "TEST NOT DONE" ELSE "OK", tampered |-> "NO",
                gdrNo |-> IF Closed(row) THEN row.gdrNo ELSE ""]
      wrong == {f \in Weights \cup Counts : NumberIn(row[f]) # {0}}
                 \cup {f \in DOMAIN texts : row[f] # texts[f]}
      cleared == [f \in DOMAIN row |->
                    IF f \notin wrong THEN row[f]
                    ELSE IF f \in DOMAIN texts THEN texts[f] ELSE Figure(0)]
  IN IF ~Cleaned(row) THEN row
     ELSE [cleared EXCEPT !.marks = [k \in DOMAIN @ \cup wrong |->
                                       IF k \in DOMAIN @ THEN @[k] ELSE "green"]]

(* Passes 3b and 3c: dates as dates, and none of renewal on a POA row. *)
Dates(row) ==
  LET date == IF row.renewed = "text" THEN "date" ELSE row.renewed
  IN Set(row, "renewed", IF ~Cleaned(row) /\ row.taf = "POA" THEN "" ELSE date)

(* Pass 4: the dates of a month other than most rows have, which it reads    *)
(* from all the rows; here a row knows which of its dates are of none such.  *)
DateOutliers(row) ==
  LET late == {f \in row.outliers : f = "renewed" => row.renewed # ""}
  IN [row EXCEPT !.marks = [k \in DOMAIN @ \cup late |-> IF k \in DOMAIN @ THEN @[k] ELSE "yellow"]]

(* Passes 4b to 6. *)
Magnet(row) == Marked(row, "magnet", "orange", ~Cleaned(row) /\ row.magnet # "OK")
Suspicions(row) ==
  LET state == Marked(row, "state", "orange", row.state = "UNKNOWN")
      tampered == Marked(state, "tampered", "orange", ~Cleaned(row) /\ row.tampered = "YES")
  IN Marked(Magnet(tampered), "actGross", "orange",
            ~Cleaned(row) /\ row.status = "fresh" /\ NumberIn(row.actGross) = {0})

WEIGHT_MATCH_TOLERANCE == 200
Close(row, gdr, actual) ==
  \E g \in NumberIn(row[gdr]), a \in NumberIn(row[actual]) : g # a /\ Abs(g - a) <= WEIGHT_MATCH_TOLERANCE

(* amend_discrepancy_remark: a remark is what it names, of "gross" and "net". *)
Amended(remark, fixed) ==
  CASE remark = "both" -> IF fixed = {"gross", "net"} THEN "ok"
                          ELSE IF fixed = {"gross"} THEN "net" ELSE "gross"
    [] remark \in {"gross", "net"} -> IF remark \in fixed THEN "ok" ELSE remark
    [] OTHER -> remark

(* Mutant: the remark goes by the gross weight alone. *)
AlignGrossRemark(row) ==
  LET gross == Close(row, "gdrGross", "actGross")
  IN IF Cleaned(row) \/ row.taf # "POA" \/ ~gross THEN row
     ELSE Mark([row EXCEPT !.actGross = row.gdrGross, !.remark = "ok"], "actGross", "green")

(* Pass 6b: a small difference of a POA row is weighing noise. *)
Align(row) ==
  LET gross == Close(row, "gdrGross", "actGross")
      net == Close(row, "gdrNet", "actNet")
      fixed == (IF gross THEN {"gross"} ELSE {}) \cup (IF net THEN {"net"} ELSE {})
      one == IF gross THEN Mark(Set(row, "actGross", row.gdrGross), "actGross", "green") ELSE row
      both == IF net THEN Mark(Set(one, "actNet", row.gdrNet), "actNet", "green") ELSE one
  IN IF Cleaned(row) \/ row.taf # "POA" \/ fixed = {} THEN row
     ELSE Set(both, "remark", Amended(row.remark, fixed))

(* A difference that should be "want", by a formula: set when it is missing, *)
(* set and coloured when it is wrong by what the cell last showed.           *)
Corrected(row, f, formula, want) ==
  IF Cached(row[f]) = {}
  THEN IF row[f].k = "uncached" THEN row ELSE Set(row, f, Uncomputed(formula))
  ELSE IF \E n \in Cached(row[f]) : Abs(Tenth(want) - Tenth(n)) > 50
  THEN Mark(Set(row, f, Uncomputed(formula)), f, "yellow") ELSE row

Fix(row, f, formula, a, b) ==
  IF NumberIn(row[a]) = {} \/ NumberIn(row[b]) = {} THEN row
  ELSE Corrected(row, f, formula, row[a].n - row[b].n)

(* Pass 7. *)
GrossDiff(row) ==
  CASE Cleaned(row) \/ row.taf = "TAF" -> row
    [] ~Cleaned(row) /\ (row.taf = "POA" \/ (row.taf = "" /\ row.status = "fresh")) ->
         Fix(row, "grossDiff", "gdrGross-actGross", "gdrGross", "actGross")
    [] ~Cleaned(row) /\ row.taf = "" /\ row.status \in {"verified", "already verified"} ->
         Fix(row, "grossDiff", "gdrGross-tare", "gdrGross", "tare")
    [] OTHER -> row

(* Pass 8: only an account that was verified before has no net difference.   *)
NetDiff(row) ==
  CASE Cleaned(row) \/ row.taf = "TAF" -> row
    [] ~Cleaned(row) /\ (row.taf = "POA" \/ (row.taf = "" /\ row.status = "fresh")) ->
         Fix(row, "netDiff", "gdrNet-actNet", "gdrNet", "actNet")
    [] ~Cleaned(row) /\ row.taf = "" /\ row.status = "already verified" ->
         IF Cached(row.netDiff) = {} THEN Corrected(row, "netDiff", "0", 0)
         ELSE IF \E n \in Cached(row.netDiff) : Abs(n) > 10
         THEN Mark(Set(row, "netDiff", Uncomputed("0")), "netDiff", "yellow") ELSE row
    [] OTHER -> row

(* Pass 9, in hundredths of a percent. *)
Percent(sw, gg) == (sw * 10000 + gg \div 2) \div gg
SpuriousPercent(row) ==
  IF ~Cleaned(row) /\ \E s \in NumberIn(row.spurWeight), g \in NumberIn(row.gdrGross) :
       g > 0 /\ Abs(Percent(s, g) - (IF Cached(row.spurPct) = {} THEN 0 ELSE row.spurPct.n)) > 50
  THEN Mark(Set(row, "spurPct", Uncomputed("percent")), "spurPct", "yellow") ELSE row

(* Pass 10, the TAF rows after it, and pass 11. *)
OrnamentDiff(row) ==
  IF row.taf = "TAF" THEN IF Cached(row.ornDiff) = {0} THEN row ELSE Set(row, "ornDiff", Figure(0))
  ELSE IF Cached(row.ornGdr) = {} \/ Cached(row.ornActual) = {} THEN row
  ELSE LET want == row.ornActual.n - row.ornGdr.n
           set == IF Cached(row.ornDiff) = {want} THEN row
                  ELSE Set(row, "ornDiff", Uncomputed("ornActual-ornGdr"))
           shown == Marked(set, "ornDiff", "yellow", want # 0)
           gdr == Marked(shown, "ornGdr", "yellow", want # 0 /\ row.taf # "POA")
       IN Marked(gdr, "ornActual", "yellow", want # 0 /\ row.taf # "POA")
Ornaments(row) ==
  IF Cleaned(row) THEN row
  ELSE LET diff == OrnamentDiff(row)
       IN Marked(diff, "ornGdr", "yellow", \E n \in NumberIn(row.ornGdr) : n <= 0)

(* Passes 13 to 16. *)
TareNumber(row) == IF row.tare = NA THEN Set(row, "tare", Figure(0)) ELSE row

Less(row, a, b) == \E m \in NumberIn(row[a]), n \in NumberIn(row[b]) : m < n
Plausible(row) ==
  LET odd == {f \in {"gdrGross", "actGross", "tare", "gdrNet", "actNet"} :
                \E n \in NumberIn(row[f]) : n > 5000000 \/ n < 0}
      light == UNION {{p[1], p[2]} : p \in {q \in {<<"gdrGross", "gdrNet">>, <<"actGross", "actNet">>} :
                                              Less(row, q[1], q[2])}}
      tare == IF Cleaned(row) \/ ~\E t \in NumberIn(row.tare) : t > 0 THEN {}
              ELSE UNION {{"tare", f} : f \in {g \in {"gdrGross", "gdrNet"} : Less(row, "tare", g)}}
  IN [row EXCEPT !.marks = [k \in DOMAIN @ \cup odd \cup light \cup tare |->
                              IF k \in DOMAIN @ THEN @[k] ELSE "yellow"]]

(* run_validation, from pass 3. *)
ValidateRow(row) ==
  Plausible(TareNumber(Ornaments(SpuriousPercent(NetDiff(GrossDiff(
    Align(Suspicions(DateOutliers(Dates(Reset(row)))))))))))

(* The saved workbook as Excel shows it, which recalculates it (external). *)
Amount(c) == IF c.k \in {"num", "formula"} THEN c.n ELSE 0
Gives(row, formula) ==
  CASE formula = "gdrGross-actGross" -> Amount(row.gdrGross) - Amount(row.actGross)
    [] formula = "gdrGross-tare" -> Amount(row.gdrGross) - Amount(row.tare)
    [] formula = "gdrNet-actNet" -> Amount(row.gdrNet) - Amount(row.actNet)
    [] formula = "ornActual-ornGdr" -> Amount(row.ornActual) - Amount(row.ornGdr)
    [] formula = "percent" -> Percent(Amount(row.spurWeight), Amount(row.gdrGross))
    [] formula = "0" -> 0
Evaluated(row, c) ==
  IF c.k \in {"formula", "uncached"} /\ c.f # "other" THEN Calculated(c.f, Gives(row, c.f)) ELSE c
Recalculates == {"grossDiff", "netDiff", "spurPct", "ornDiff"}
Recalculated(row) ==
  [f \in DOMAIN row |-> IF f \in Recalculates
                        THEN Evaluated(row, row[f]) ELSE row[f]]

-----------------------------------------------------------------------------
(* The layout keeps every row once; a relative reference to the own row is   *)
(* one to the row it comes to lie in, an absolute one and one to another row *)
(* are left as written (retarget_formula).  When the PDF lists an account of *)
(* the sheet and the sheet no account twice, each row of the PDF's span is   *)
(* at its place in it, the rest follow in their order (rearrange_rows_by_pdf: *)
(* "every later row keeps lining up with the PDF's position").               *)
RowsFollowPdf(rows, numbers, out) ==
  LET pdf == Trimmed(rows, Extracted(numbers, rows))
      placed(r) == CHOOSE n \in DOMAIN out : out[n].from = r
      unique == \A i, j \in DOMAIN rows : i # j /\ rows[i].account # 0 => rows[i].account # rows[j].account
      listed(r) == rows[r].account \in Range(pdf) /\ rows[r].account # 0
  IN /\ \A r \in DOMAIN rows : Cardinality({n \in DOMAIN out : out[n].from = r}) = 1
     /\ \A n \in DOMAIN out : out[n].from # Gap =>
          LET r == out[n].from
              written == rows[r].refs
              own == {i \in DOMAIN written : written[i].row = r /\ ~written[i].absolute}
          IN /\ DOMAIN out[n].refs = DOMAIN written
             /\ \A i \in own : out[n].refs[i].row = n /\ ~out[n].refs[i].absolute
             /\ \A i \in DOMAIN written \ own : out[n].refs[i] = written[i]
     /\ MatchedAt(rows, Extracted(numbers, rows)) # {} /\ unique =>
          /\ \A r \in DOMAIN rows : listed(r) => pdf[placed(r)] = rows[r].account
          /\ \A q, r \in DOMAIN rows : ~listed(r) /\ (listed(q) \/ q < r) => placed(q) < placed(r)

(* Two rows that end with one packet number are coloured as duplicates, or   *)
(* were tidied to it, or one took it from the other as the only holder of    *)
(* that name at first; a row that ends without one is closed or coloured.    *)
PacketsAccounted(rows, out) ==
  /\ \A q, r \in DOMAIN rows :
       /\ q # r /\ out[q].row.packet = out[r].row.packet /\ out[q].row.packet # NoNumber
       /\ out[q].note # "resolved" /\ out[r].note # "resolved"
       => {q, r} \subseteq {s \in DOMAIN rows : "packet" \in DOMAIN out[s].marks}
          /\ {out[q].note, out[r].note} \subseteq {"duplicate", "topup"}
  /\ \A r \in DOMAIN rows :
       out[r].note = "resolved" =>
         /\ \E s \in DOMAIN rows : /\ Tidied(rows[s].packet) = out[r].row.packet
                                   /\ rows[s].name = rows[r].name
         /\ \A s \in DOMAIN rows : out[s].note = "resolved" /\ rows[s].name = rows[r].name => s = r
  /\ \A r \in DOMAIN rows : out[r].row.packet = NoNumber =>
       rows[r].status = "closed" \/ "packet" \in DOMAIN out[r].marks

(* A packet of a length that three of its letters have is never called a     *)
(* break of the series, nor is the only packet of rare letters                *)
(* (check_packet: "Deliberately narrow").                                     *)
SeriesAreKept(rows, out) ==
  LET like(p) == {s \in DOMAIN rows : out[s].row.packet.series = p.series
                                       /\ out[s].row.packet.digits = p.digits}
      same(p) == {s \in DOMAIN rows : out[s].row.packet.series = p.series}
  IN \A r \in DOMAIN rows :
       LET p == out[r].row.packet IN
         /\ p # NoNumber /\ p.digits # 0 /\ out[r].note \in {"none", "resolved"}
         /\ rows[r].packet.tidy
         /\ (Cardinality(like(p)) >= MIN_PACKET_FAMILY \/ Cardinality(same(p)) < MIN_PACKET_FAMILY)
         => "packet" \notin DOMAIN out[r].marks

(* What the sheet and the PDF list, and the packets as they are entered. *)
IsLayout(rows, numbers) ==
  /\ IsSequence(rows) /\ IsSequence(numbers)
  /\ \A i \in DOMAIN numbers : numbers[i].account # 0
IsPacketRow(row) ==
  /\ row = [packet |-> row.packet, name |-> row.name, status |-> row.status, remark |-> row.remark]
  /\ row.packet \in [series : STRING, digits : Nat, number : Nat, tidy : BOOLEAN]
IsPacketSheet(rows) == IsSequence(rows) /\ \A r \in DOMAIN rows : IsPacketRow(rows[r])

(* What a row is made of, when the passes over it begin. *)
Formulas == {"gdrGross-actGross", "gdrGross-tare", "gdrNet-actNet", "ornActual-ornGdr", "percent", "0", "other"}
TextCells == {"status", "taf", "remark", "renewed", "magnet", "tampered", "gdrNo", "state"}
IsFigure(c) ==
  \/ c \in {None, NA}
  \/ c \in [k : {"num"}, n : Int, f : {""}]
  \/ c \in [k : {"formula"}, n : Int, f : Formulas]
  \/ c \in [k : {"uncached"}, n : {0}, f : Formulas]
IsRow(row) ==
  /\ row = [f \in Weights \cup Counts \cup TextCells \cup {"outliers", "marks"} |-> row[f]]
  /\ \A f \in Weights \cup Counts : IsFigure(row[f])
  /\ row.outliers \subseteq {"sanction", "verification", "renewed"}
  /\ row.marks = [f \in DOMAIN row.marks |-> row.marks[f]]

(* The formula a pass writes for a difference of the row. *)
Due(row, f) ==
  CASE f = "grossDiff" -> IF row.taf = "" /\ row.status \in {"verified", "already verified"}
                          THEN "gdrGross-tare" ELSE "gdrGross-actGross"
    [] f = "netDiff" -> IF row.taf = "" /\ row.status = "already verified" THEN "0" ELSE "gdrNet-actNet"
    [] f = "spurPct" -> "percent"
    [] f = "ornDiff" -> IF row.taf = "TAF" THEN "" ELSE "ornActual-ornGdr"

(* A formula of another kind that is left in place shows what it gives: Excel *)
(* computed it when the workbook was saved.                                   *)
OthersAreFresh(row, out) ==
  \A f \in Recalculates : out[f] = row[f] /\ row[f].k = "formula" =>
    row[f].f \in {Due(row, f), "other"} \/ Evaluated(out, row[f]) = row[f]

(* A closed or top-up row ends with the defaults, whatever it held, and no   *)
(* later pass changes or colours them (cleaned_rows), but for an unknown     *)
(* state and a date of another month than the rest; a closed row keeps its    *)
(* date and its GDR number.                                                   *)
ClosedRowsStayReset(row, out) ==
  Cleaned(row) =>
    /\ \A f \in Weights \cup Counts : out[f] = Figure(0) \/ (out[f] = row[f] /\ NumberIn(row[f]) = {0})
    /\ \A f \in DOMAIN out.marks \ DOMAIN row.marks : out.marks[f] = "green" \/ f \in {"state"} \cup row.outliers
    /\ out.magnet \in {"OK", "TEST NOT DONE"} /\ out.tampered = "NO"
    /\ (row.renewed = "") <=> (out.renewed = "")
    /\ Closed(row) => out.gdrNo = row.gdrNo

(* What Excel shows as a difference on a row that is physically verified is  *)
(* the difference of the weights beside it, to the tenth that is compared,   *)
(* after the weights were aligned; so a remark that says there is none is     *)
(* never beside a difference that the remark had named.                       *)
DifferencesAgree(row, out) ==
  LET shown == Recalculated(out)
      agrees(f, a, b) == \A m \in NumberIn(out[a]), n \in NumberIn(out[b]) :
                           out[f].k # "uncached" \/ row[f].k # "uncached" =>
                             Abs(Amount(shown[f]) - (m - n)) <= 100
      named(r, w) == r.remark \in {w, "both"}
  IN row.taf = "POA" /\ ~Cleaned(row) /\ OthersAreFresh(row, out) =>
       /\ agrees("grossDiff", "gdrGross", "actGross") /\ agrees("netDiff", "gdrNet", "actNet")
       /\ \A w \in {<<"gross", "gdrGross", "actGross">>, <<"net", "gdrNet", "actNet">>} :
            named(row, w[1]) /\ ~named(out, w[1]) =>
              \A m \in NumberIn(out[w[2]]), n \in NumberIn(out[w[3]]) : m = n

(* The report of a report: validated again as Excel saved it, a row changes  *)
(* no more, save for a formula nobody had computed and a tare that was "NA"   *)
(* when the difference by it was asked for.                                   *)
StaysValid(row, out) ==
  LET saved == Recalculated([out EXCEPT !.marks = <<>>])
      again == Recalculated([ValidateRow(saved) EXCEPT !.marks = <<>>])
  IN (\A f \in Counts : row[f].k # "uncached") /\ row.tare # NA /\ OthersAreFresh(row, out)
       => again = saved

=============================================================================
