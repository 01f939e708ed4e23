--------------------------- MODULE ConsolidateRows ---------------------------
(***************************************************************************)
(* How the consolidator reads payment workbooks                            *)
(* (consolidator/consolidate.py): which sheet lists the payments and which *)
(* the audits, which column holds what, the rows it writes and the tracker *)
(* it puts together.                                                       *)
(*                                                                         *)
(* A heading is the sequence of its words; the headings met contain a name *)
(* only as whole words and differ in more than punctuation.  A sheet is    *)
(* [name, headings, rows], a cell [kind, n], an amount in rupees.          *)
(***************************************************************************)
EXTENDS Integers, Sequences, FiniteSets, SequencesExt, FiniteSetsExt, Functions, Lists

Empty == [kind |-> "blank", n |-> 0]
Rupees(n) == [kind |-> "amount", n |-> n]

(* safe_float: numbers, and texts that are numbers. *)
Float(cell) == IF cell.kind \in {"amount", "phone", "sol_id"} THEN cell.n ELSE 0

GENERIC_TOKENS == {"date", "fee", "fees", "type", "no", "number", "code", "name", "total",
                   "status", "charges", "details"}

Within(name, heading) ==
  \E i \in 1..(Len(heading) - Len(name) + 1) : SubSeq(heading, i, i + Len(name) - 1) = name

(* Half of the name's words; one word only if it says something. *)
Overlaps(name, heading) ==
  LET ct == Range(name)
      overlap == ct \cap Range(heading)
  IN IF Cardinality(ct) >= 2
     THEN /\ Cardinality(overlap) >= 2 \/ (Cardinality(overlap) = 1 /\ overlap \cap GENERIC_TOKENS = {})
          /\ 2 * Cardinality(overlap) >= Cardinality(ct)
     ELSE Cardinality(Range(heading)) <= 2 /\ overlap # {} /\ overlap \cap GENERIC_TOKENS = {}

(* The pairs met whose letters agree enough (a ratio of rapidfuzz). *)
Alike == {{"visit", "visits"}, {"fee", "fees"}, {"deduction", "deduciton"}, {"asayer", "assayer"}}
Similar(name, heading) ==
  /\ Len(name) = Len(heading)
  /\ \A i \in DOMAIN name : name[i] = heading[i] \/ {name[i], heading[i]} \in Alike

Fits(strategy, name, heading) ==
  CASE strategy = 1 -> name = heading
    [] strategy = 2 -> Within(name, heading)
    [] strategy = 3 -> Overlaps(name, heading)
    [] strategy = 4 -> Similar(name, heading)

(* find_column: a strategy is tried on every name before the next one is. *)
FindColumn(names, headings) ==
  LET hits == {p \in (1..4) \X (DOMAIN names) \X (DOMAIN headings) :
                 Fits(p[1], names[p[2]], headings[p[3]])}
      before(p, q) == \/ p[1] < q[1]
                      \/ p[1] = q[1] /\ (p[2] < q[2] \/ (p[2] = q[2] /\ p[3] <= q[3]))
  IN IF hits = {} THEN 0 ELSE (CHOOSE p \in hits : \A q \in hits : before(p, q))[3]

-----------------------------------------------------------------------------
(* build_content_map: what the first 30 cells of a column that hold something *)
(* look like (10 of them for a date); two states or zones suffice, half of   *)
(* the cells for the rest.                                                   *)
ContentKinds == <<"pan", "ifsc", "phone", "state", "zone", "sol_id", "date">>
Leading(s, n) == SubSeq(s, 1, IF Len(s) < n THEN Len(s) ELSE n)
LooksLike(kind, cells) ==
  LET filled == Leading(SelectSeq(cells, LAMBDA c : c.kind # "blank"), 30)
      some == IF kind = "date" THEN Leading(filled, 10) ELSE filled
      n == Len(some)
      m == Len(SelectSeq(some, LAMBDA c : c.kind = kind))
  IN /\ Len(filled) >= 2
     /\ CASE kind \in {"pan", "ifsc", "phone", "date"} -> m >= 2 /\ 2 * m >= n
          [] kind = "state" -> m >= 3 \/ 10 * m >= 3 * n
          [] kind = "zone" -> m >= 2 \/ 10 * m >= 3 * n
          [] kind = "sol_id" -> m >= 3 \/ 2 * m >= n
ColumnKind(sheet, c) ==
  LET cells == [r \in DOMAIN sheet.rows |-> sheet.rows[r][c]]
      fits == {i \in DOMAIN ContentKinds : LooksLike(ContentKinds[i], cells)}
  IN IF fits = {} THEN "none" ELSE ContentKinds[Min(fits)]
ContentColumn(sheet, kind) ==
  LET at == {c \in DOMAIN sheet.headings : ColumnKind(sheet, c) = kind}
  IN IF at = {} THEN 0 ELSE Min(at)

(* identify_sheets: one point for each kind of heading a sheet has; of the    *)
(* PAN, the IFSC and the SOL ID it must be the heading itself.               *)
PanHeadings == {<<"pan", "number">>, <<"assayer", "pan">>, <<"payee", "pan">>}
IfscHeadings == {<<"ifsc", "code">>, <<"ifsc">>}
SolHeadings == {<<"sol", "id">>}
AccountHeadings == {<<"a", "c", "number">>, <<"account", "no">>}
PtFeatures ==
  {{<<"total", "pay">>}, PanHeadings, IfscHeadings, AccountHeadings, {<<"bank">>}, {<<"visits">>, <<"audits", "done">>},
   {<<"base", "audit", "fee">>, <<"base", "audit", "fees">>},
   {<<"assayer", "name">>, <<"auditor", "name">>, <<"name", "of", "auditor">>}}
MdFeatures ==
  {{<<"branch">>}, SolHeadings, {<<"schedule">>}, {<<"audit", "status">>}, {<<"client", "fee">>},
   {<<"zone">>}, {<<"distance">>}, {<<"base", "location">>}, {<<"vendor">>}, {<<"pouch">>, <<"packet">>}}
Has(sheet, feature) ==
  \E name \in feature, c \in DOMAIN sheet.headings :
    IF feature \in {PanHeadings, IfscHeadings, SolHeadings} THEN name = sheet.headings[c]
    ELSE Within(name, sheet.headings[c])
Points(sheet, features) == Cardinality({f \in features : Has(sheet, f)})

(* A sheet no heading of which says anything is judged by its first 15 rows. *)
Shows(sheet, kind) ==
  /\ Points(sheet, PtFeatures) = 0 /\ Points(sheet, MdFeatures) = 0
  /\ ContentColumn([sheet EXCEPT !.rows = Leading(@, 15)], kind) # 0
PtScore(sheet) ==
  LET pt == Points(sheet, PtFeatures)
      shows(kind) == Shows(sheet, kind)
  IN pt + (IF shows("pan") \/ shows("ifsc") THEN 4 ELSE 0) + (IF shows("phone") THEN 1 ELSE 0)
        + (CASE sheet.name = "payments" -> 5 [] sheet.name = "payment" -> 3 [] OTHER -> 0)
MdScore(sheet) ==
  LET md == Points(sheet, MdFeatures)
      shows(kind) == Shows(sheet, kind)
      amc == /\ Has(sheet, {<<"vendor">>}) /\ Has(sheet, {<<"client", "fee">>})
             /\ ~Has(sheet, IfscHeadings) /\ ~Has(sheet, AccountHeadings)
  IN md + (IF shows("sol_id") THEN 4 ELSE 0) + (IF shows("zone") \/ shows("state") THEN 1 ELSE 0)
        + (IF sheet.name = "master" THEN 3 ELSE 0) + (IF amc THEN 2 ELSE 0)

Score(role, sheet) == IF role = "payments" THEN PtScore(sheet) ELSE MdScore(sheet)
Weak(role) == IF role = "payments" THEN 3 ELSE 2
Suits(role, sheet) ==
  /\ sheet.name # "ignored"
  /\ Score(role, sheet) >= Weak(role)
  /\ IF role = "payments" THEN PtScore(sheet) >= MdScore(sheet) ELSE MdScore(sheet) > PtScore(sheet)

(* The last clear sheet of a role, or else the first that just suits. *)
Take(book, role) ==
  LET all == {i \in DOMAIN book : Suits(role, book[i])}
      clear == {i \in all : Score(role, book[i]) > Weak(role)}
  IN IF clear # {} THEN Max(clear) ELSE IF all # {} THEN Min(all) ELSE 0
IdentifySheets(book) ==
  LET pt == Take(book, "payments")
      md == Take(book, "master")
  IN [pt |-> IF pt = 0 /\ md = 0 /\ Len(book) = 1 THEN 1 ELSE pt, md |-> md]

-----------------------------------------------------------------------------
(* Names of the payment columns that amounts and payees are read from. *)
PtNames ==
  [assayer |-> <<<<"assayer", "name">>, <<"name", "of", "auditor">>, <<"auditor", "name">>>>,
   phone |-> <<<<"assayer", "phone">>, <<"payee", "phone">>, <<"phone">>>>,
   zone |-> <<<<"zone">>, <<"region">>>>,
   visits |-> <<<<"no", "of", "visits">>, <<"no", "of", "audits", "done">>>>,
   baseFee |-> <<<<"base", "audit", "fee">>, <<"base", "audit", "fees">>>>,
   totalBase |-> <<<<"total", "pay", "base">>, <<"total", "base", "fee">>, <<"total", "base">>>>,
   travel |-> <<<<"travel", "charges", "if", "any">>, <<"base", "travel">>, <<"travel", "fee">>>>,
   cancelled |-> <<<<"cancelled", "visits">>, <<"audit", "cancellation", "fees">>, <<"cancelled", "branch">>,
                   <<"cancelled">>>>,
   branchCancel |-> <<<<"branch", "cancellation", "charges">>>>,
   andaman |-> <<<<"andaman", "nicobar", "branch", "expenses">>>>,
   error |-> <<<<"error", "deduction">>, <<"deduction">>, <<"error", "deduct", "money">>>>,
   totalPay |-> <<<<"total", "pay">>, <<"total">>>>,
   pan |-> <<<<"pan", "number">>, <<"assayer", "pan">>, <<"payee", "pan">>>>,
   bank |-> <<<<"bank", "name">>>>,
   ifsc |-> <<<<"ifsc", "code">>, <<"ifsc">>>>]
Intents == {"phone", "pan", "ifsc"}
NothingKnown == [source |-> <<>>, position |-> 0]

(* name_hint: a heading of an earlier run that is none of the names goes     *)
(* before them.                                                              *)
WithHint(names, source) == IF source \in {<<>>} \cup Range(names) THEN names ELSE <<source>> \o names

(* gc: by the heading of an earlier run and by name, by content, and where   *)
(* an earlier run found it.                                                  *)
PtColumn(sheet, role, known) ==
  LET hint == known[role]
      named == FindColumn(WithHint(PtNames[role], hint.source), sheet.headings)
      shown == IF role \in Intents THEN ContentColumn(sheet, role) ELSE 0
  IN IF named # 0 THEN named ELSE IF shown # 0 THEN shown
     ELSE IF hint.position \in DOMAIN sheet.headings THEN hint.position ELSE 0

(* g: the column headed by the first of these names that is a heading, and    *)
(* the last such column.                                                     *)
ColumnOfAny(sheet, names) ==
  LET found == {i \in DOMAIN names : names[i] \in Range(sheet.headings)}
  IN IF found = {} THEN 0 ELSE Max({c \in DOMAIN sheet.headings : sheet.headings[c] = names[Min(found)]})
MoreVisits == {<<<<"no", "of", "visits", "1">>>>, <<<<"no", "of", "visits", "2">>>>,
               <<<<"no", "of", "visits", "2nd", "branch", "in", "day">>>>,
               <<<<"no", "of", "visits", "no", "payment", "2nd", "branch">>>>}
MoreBase == {<<<<"total", "pay", "base", "1">>>>, <<<<"total", "pay", "base", "2">>>>}
MoreTravel == {<<<<"accommodation", "charges", "if", "any">>>>,
               <<<<"additional", "cost", "courier", "charges">>, <<"additional", "cost", "if", "any">>>>}
MoreErrors == {<<<<"error", "recovery", "sep", "2024">>>>}
SaysCancelled(heading) == Range(heading) \cap {"missed", "cancelled", "cancellation"} # {}

(* Mutant: the columns found by name are added again. *)
AllCancelled(sheet, cols) == {c \in DOMAIN sheet.headings : SaysCancelled(sheet.headings[c])}

(* Other columns that say "missed" or "cancelled" are added. *)
OtherCancelled(sheet, cols) ==
  {c \in DOMAIN sheet.headings : SaysCancelled(sheet.headings[c])} \ {cols.cancelled, cols.branchCancel}

IsTotal(cell) == cell.kind = "total"
SerialNames == <<<<"s", "no">>, <<"sl", "no">>, <<"s", "n">>, <<"sr", "no">>>>

(* The rows of the sheet: those that have a serial number and are no total. *)
PtKept(sheet) ==
  LET sno == ColumnOfAny(sheet, SerialNames)
  IN InOrder({r \in DOMAIN sheet.rows :
                /\ sno # 0 /\ sheet.rows[r][sno].kind # "blank" /\ ~IsTotal(sheet.rows[r][sno])
                /\ ~(r > 1 /\ IsTotal(sheet.rows[r][1]))})

(* Amounts of a row, of the columns there are. *)
FloatAt(row, c) == IF c \in DOMAIN row THEN Float(row[c]) ELSE 0
FloatsAt(row, cols) == AddedAt([c \in DOMAIN row |-> Float(row[c])], cols)

(* The amounts of one row; a pay that is stated is taken as it is. *)
PtAmounts(sheet, cols, row) ==
  LET at(c) == FloatAt(row, c)
      extra(groups) == FloatsAt(row, {ColumnOfAny(sheet, g) : g \in groups})
      visits == at(cols.visits) + extra(MoreVisits)
      fee == at(cols.baseFee)
      base == (IF cols.totalBase # 0 THEN at(cols.totalBase) ELSE IF fee > 0 THEN visits * fee ELSE 0)
                + extra(MoreBase)
      travel == at(cols.travel) + extra(MoreTravel)
      cancelled == at(cols.cancelled) + FloatsAt(row, OtherCancelled(sheet, cols))
      error == at(cols.error) + extra(MoreErrors)
  IN [visits |-> visits, base |-> base, travel |-> travel, cancelled |-> cancelled, error |-> error,
      pay |-> IF at(cols.totalPay) # 0 THEN at(cols.totalPay)
              ELSE base + travel + cancelled + at(cols.branchCancel) + at(cols.andaman) - error]

PhoneInPan(heading, cell) == heading = <<"assayer", "pan">> /\ cell.kind \notin {"blank", "pan"}

(* Who is paid.  A column "Assayer PAN" that holds something else holds the  *)
(* phone number; the PAN is then the first there is in another such column.  *)
PtPayee(sheet, cols, row) ==
  LET of(role) == IF cols[role] \in DOMAIN row THEN row[cols[role]] ELSE Empty
      swapped == cols.pan # 0 /\ PhoneInPan(sheet.headings[cols.pan], of("pan"))
      others == {c \in DOMAIN sheet.headings :
                   c # cols.pan /\ "pan" \in Range(sheet.headings[c]) /\ row[c].kind # "blank"}
  IN [name |-> of("assayer").n, zone |-> of("zone").n, bank |-> of("bank"), ifsc |-> of("ifsc"),
      phone |-> IF swapped THEN of("pan") ELSE of("phone"),
      pan |-> IF ~swapped THEN of("pan") ELSE IF others = {} THEN Empty ELSE row[Min(others)]]

(* normalize_pt_sheet: a row of the tracker for each row kept. *)
PtRows(sheet, client, known) ==
  LET cols == [role \in DOMAIN PtNames |-> PtColumn(sheet, role, known)]
      kept == PtKept(sheet)
  IN [i \in DOMAIN kept |->
        [client |-> client, row |-> kept[i],
         amounts |-> PtAmounts(sheet, cols, sheet.rows[kept[i]]),
         payee |-> PtPayee(sheet, cols, sheet.rows[kept[i]])]]

-----------------------------------------------------------------------------
(* Names of the columns of a master that fees, counts and zones come from. *)
MdNames ==
  [sr |-> <<<<"s", "no">>, <<"sr", "no">>, <<"sl", "no">>, <<"s", "n">>>>,
   zone |-> <<<<"zone">>>>,
   assayer |-> <<<<"assayer", "name">>, <<"auditor", "name">>, <<"vendor", "name">>>>,
   accounts |-> <<<<"total", "no", "of", "a", "cs">>, <<"account">>, <<"accounts", "list">>>>,
   packets |-> <<<<"no", "of", "packets", "audited">>, <<"account", "audited">>>>,
   status |-> <<<<"audit", "status">>, <<"status", "of", "the", "activity">>>>,
   clientFee |-> <<<<"client", "fee">>, <<"client", "fees">>>>,
   assayerFee |-> <<<<"assayer", "fee">>, <<"assayer", "fees">>, <<"auditor", "payment">>,
                  <<"sumeru", "auditor", "fee">>, <<"base", "audit", "fees", "in", "inr">>, <<"audit", "fee">>>>,
   fee1 |-> <<<<"assayer", "fee", "1">>, <<"final", "assayer", "fees">>, <<"assayer", "fees", "1">>,
              <<"final", "assayer", "fee">>, <<"assayer", "fee", "final">>>>,
   visits |-> <<<<"no", "of", "visit">>, <<"no", "of", "visits">>>>,
   cancelled |-> <<<<"cancellation">>, <<"cancelled">>, <<"cancelled", "fee">>, <<"branch", "cancellation", "charged">>,
                 <<"cancelled", "branches", "travelling", "amount">>>>,
   cancelledClient |-> <<<<"cancelled", "fee">>, <<"cancelled">>, <<"cancellation">>>>]

(* vc: as above, without content for these names; "#" is a name of the serial *)
(* number and, having no letters, is found in the first heading there is.    *)
MdColumn(sheet, role, known) ==
  LET hint == known[role]
      named == FindColumn(MdNames[role] \o (IF hint.source = <<>> THEN <<>> ELSE <<hint.source>>), sheet.headings)
      shown == IF role = "zone" THEN ContentColumn(sheet, "zone") ELSE 0
  IN IF named # 0 THEN named ELSE IF shown # 0 THEN shown
     ELSE IF hint.position \in DOMAIN sheet.headings THEN hint.position
     ELSE IF role = "sr" THEN 1 ELSE 0

PerVisit(fee, visits) == IF visits > 0 THEN fee * visits ELSE fee

(* The fees of an audit; a cancelled one costs what the sheet says, or else  *)
(* its fee once its status says so.                                          *)
MdAmounts(sheet, cols, row) ==
  LET at(c) == FloatAt(row, c)
      fee == at(cols.assayerFee)
      visits == at(cols.visits)
      inferred == IF fee > 0 THEN fee ELSE visits * at(cols.clientFee)
      cancelled == IF cols.cancelled # 0 THEN at(cols.cancelled)
                   ELSE IF cols.status # 0 /\ row[cols.status].kind = "cancelled" THEN inferred ELSE 0
  IN [fee |-> fee, visits |-> visits,
      fee1 |-> IF cols.fee1 # 0 THEN at(cols.fee1) ELSE PerVisit(fee, visits),
      cancelled |-> cancelled,
      cancelledClient |-> IF cols.cancelledClient \notin {0, cols.cancelled} THEN at(cols.cancelledClient) ELSE cancelled,
      accounts |-> IF cols.accounts = 0 THEN at(cols.packets) ELSE at(cols.accounts)]

(* normalize_md_sheet: a row without a serial number is left out. *)
MdRows(sheet, client, known) ==
  LET cols == [role \in DOMAIN MdNames |-> MdColumn(sheet, role, known)]
      kept == InOrder({r \in DOMAIN sheet.rows :
                /\ sheet.rows[r][cols.sr].kind # "blank" /\ ~IsTotal(sheet.rows[r][cols.sr])
                /\ ~(r > 1 /\ IsTotal(sheet.rows[r][1]))})
      value(r, c) == IF c = 0 THEN 0 ELSE sheet.rows[r][c].n
  IN [i \in DOMAIN kept |->
        [client |-> client, row |-> kept[i], name |-> value(kept[i], cols.assayer), zone |-> value(kept[i], cols.zone),
         amounts |-> MdAmounts(sheet, cols, sheet.rows[kept[i]])]]

-----------------------------------------------------------------------------

(* The first zone the master gives for the client. *)
MasterZone(client, rows) ==
  LET zoned == {r \in DOMAIN rows : rows[r].client = client /\ rows[r].zone # 0}
  IN IF zoned = {} THEN 0 ELSE rows[Min(zoned)].zone

(* The rows of the sheet of a role in every workbook, one after the other. *)
PaymentsOf(books, known) ==
  FlattenSeq([b \in DOMAIN books |->
    LET i == IdentifySheets(books[b].sheets).pt
    IN IF i = 0 THEN <<>> ELSE PtRows(books[b].sheets[i], books[b].client, known)])
AuditsOf(books, known) ==
  FlattenSeq([b \in DOMAIN books |->
    LET i == IdentifySheets(books[b].sheets).md
    IN IF i = 0 THEN <<>> ELSE MdRows(books[b].sheets[i], books[b].client, known)])

(* Where one row of a client lacks a zone all of them get the master's. *)
Zoned(row, payments, audits) ==
  LET lacking == \E r \in DOMAIN payments : payments[r].client = row.client /\ payments[r].payee.zone = 0
      given == MasterZone(row.client, audits)
  IN IF lacking /\ given # 0 THEN [row EXCEPT !.payee.zone = given] ELSE row

(* sort_values: by client and name, the rows of one name as they come. *)
ByClient(rows) ==
  {p \in (DOMAIN rows) \X (DOMAIN rows) :
     LET q == rows[p[1]]
         r == rows[p[2]]
     IN \/ q.client < r.client
        \/ q.client = r.client /\ q.payee.name < r.payee.name
        \/ q.client = r.client /\ q.payee.name = r.payee.name /\ p[1] < p[2]}

(* consolidate_in_memory: the rows of every workbook, sorted, and their pay. *)
Tracker(books, known) ==
  LET pt == PaymentsOf(books, known)
      md == AuditsOf(books, known)
      order == InThisOrder(Len(pt), ByClient(pt))
  IN [payments |-> [n \in DOMAIN order |-> Zoned(pt[order[n]], pt, md)],
      audits |-> md,
      total |-> Added([r \in DOMAIN pt |-> pt[r].amounts.pay])]

-----------------------------------------------------------------------------
ClearSheets(book, role) ==
  {i \in DOMAIN book : Suits(role, book[i]) /\ Score(role, book[i]) > Weak(role)}

(* Wherever it stands and whatever sheets qualify weakly beside it, the only *)
(* sheet that clearly lists payments is read as the payments, and the only   *)
(* clear master as the master; no sheet is read as both.                     *)
ClearSheetsAreRead(book, out) ==
  /\ Cardinality(ClearSheets(book, "payments")) = 1 => out.pt \in ClearSheets(book, "payments")
  /\ Cardinality(ClearSheets(book, "master")) = 1 => out.md \in ClearSheets(book, "master")
  /\ out.pt # 0 => out.pt # out.md

Named(sheet, heading) == \E c \in DOMAIN sheet.headings : sheet.headings[c] = heading
AllNamed(sheet, names) == {c \in DOMAIN sheet.headings : sheet.headings[c] \in names}
SharesTwo(sheet, words) ==
  \E c \in DOMAIN sheet.headings : \E x, y \in words \cap Range(sheet.headings[c]) : x # y

(* Sheets with a column for each usual amount.  For the others they have one, *)
(* or no heading that could be taken for it; a heading remembered is a name.  *)
Remembered(known, role) == known[role].source \in {<<>>} \cup Range(PtNames[role])
HasAmount(sheet, known, role, name) == Named(sheet, name) /\ Remembered(known, role)
LacksAmount(sheet, known, role, words) == ~SharesTwo(sheet, words) /\ known[role] = NothingKnown
HasAmounts(sheet, known) ==
  /\ HasAmount(sheet, known, "totalPay", <<"total", "pay">>)
  /\ HasAmount(sheet, known, "totalBase", <<"total", "pay", "base">>)
  /\ HasAmount(sheet, known, "travel", <<"travel", "charges", "if", "any">>)
  /\ HasAmount(sheet, known, "cancelled", <<"cancelled", "visits">>)
  /\ HasAmount(sheet, known, "error", <<"error", "deduction">>)
  /\ \/ HasAmount(sheet, known, "branchCancel", <<"branch", "cancellation", "charges">>)
     \/ LacksAmount(sheet, known, "branchCancel", {"branch", "cancellation", "charges"})
  /\ \/ HasAmount(sheet, known, "andaman", <<"andaman", "nicobar", "branch", "expenses">>)
     \/ LacksAmount(sheet, known, "andaman", {"andaman", "nicobar", "branch", "expenses"})
  /\ \/ ~Named(sheet, <<"additional", "cost", "courier", "charges">>)
     \/ ~Named(sheet, <<"additional", "cost", "if", "any">>)

(* A payment whose total is not stated is the sum of every amount of the row, *)
(* each column counted once, less the deductions.                             *)
PayAddsUp(sheet, known, rows) ==
  LET paid == AllNamed(sheet, {<<"total", "pay", "base">>, <<"total", "pay", "base", "1">>,
                               <<"total", "pay", "base", "2">>, <<"travel", "charges", "if", "any">>,
                               <<"accommodation", "charges", "if", "any">>,
                               <<"additional", "cost", "courier", "charges">>,
                               <<"additional", "cost", "if", "any">>,
                               <<"andaman", "nicobar", "branch", "expenses">>})
                \cup {c \in DOMAIN sheet.headings : SaysCancelled(sheet.headings[c])}
      taken == AllNamed(sheet, {<<"error", "deduction">>, <<"error", "recovery", "sep", "2024">>})
      total == AllNamed(sheet, {<<"total", "pay">>})
      sum(i, S) == FloatsAt(sheet.rows[rows[i].row], S)
  IN HasAmounts(sheet, known) =>
     \A i \in DOMAIN rows :
       rows[i].amounts.pay = IF sum(i, total) # 0 THEN sum(i, total) ELSE sum(i, paid) - sum(i, taken)

(* A payee's PAN is a PAN or nothing: a phone number under "Assayer PAN" is  *)
(* never passed on as one, and is not lost; unless the PANs have a column of *)
(* their own name, or another such column has a phone number too.            *)
PanIsAPan(sheet, known, rows) ==
  LET own == <<"assayer", "pan">>
      row(i) == sheet.rows[rows[i].row]
  IN ~Named(sheet, <<"pan", "number">>) /\ Remembered(known, "pan") =>
     \A i \in DOMAIN rows, c \in DOMAIN sheet.headings :
       /\ sheet.headings[c] = own /\ row(i)[c].kind = "phone"
       /\ \A d \in DOMAIN sheet.headings : d # c /\ "pan" \in Range(sheet.headings[d]) => row(i)[d].kind # "phone"
       => rows[i].payee.pan.kind # "phone" /\ rows[i].payee.phone = row(i)[c]

(* An auditor who is paid by the visit, where no heading could be taken for   *)
(* the final fee or the fee of one, is paid for every visit, and once when   *)
(* none is counted.                                                          *)
VisitsArePaid(sheet, rows) ==
  LET value(i, heading) == FloatsAt(sheet.rows[rows[i].row], AllNamed(sheet, {heading}))
  IN /\ Named(sheet, <<"audit", "fee">>) /\ Named(sheet, <<"no", "of", "visits">>)
     /\ ~SharesTwo(sheet, {"assayer", "asayer", "fee", "fees", "final", "1"})
     /\ \A other \in {<<"auditor", "payment">>, <<"sumeru", "auditor", "fee">>,
                      <<"base", "audit", "fees", "in", "inr">>, <<"no", "of", "visit">>} : ~Named(sheet, other)
     => \A i \in DOMAIN rows :
          LET fee == value(i, <<"audit", "fee">>)
              visits == value(i, <<"no", "of", "visits">>)
          IN rows[i].amounts.fee1 = IF visits > 0 THEN fee * visits ELSE fee

(* Every payment of a workbook's payment sheet ("payments", by workbook) is   *)
(* in the tracker once and counted in the total; a client whose master names *)
(* a zone has one in every row, and a client all of whose payments name      *)
(* their zone keeps them.                                                    *)
TrackerComplete(books, payments, out) ==
  LET read == FlattenSeq(payments)
      named(client) == \A r \in DOMAIN read : read[r].client = client => read[r].payee.zone # 0
      zoned(client) == \E r \in DOMAIN out.audits : out.audits[r].client = client /\ out.audits[r].zone # 0
      times(rows, row) == Cardinality({r \in DOMAIN rows : rows[r] = row})
  IN /\ Len(out.payments) = Len(read)
     /\ out.total = Added([r \in DOMAIN out.payments |-> out.payments[r].amounts.pay])
     /\ \A b \in DOMAIN books :
          /\ named(books[b].client) => \A r \in DOMAIN payments[b] :
               times(out.payments, payments[b][r]) = times(read, payments[b][r])
          /\ zoned(books[b].client) => \A r \in DOMAIN out.payments :
               out.payments[r].client = books[b].client => out.payments[r].payee.zone # 0

(* The rows of every workbook's one sheet that clearly lists payments. *)
PaidFrom(book) == CHOOSE s \in DOMAIN book : ClearSheets(book, "payments") = {s}
PaymentsRead(books, known) ==
  [b \in DOMAIN books |-> PtRows(books[b].sheets[PaidFrom(books[b].sheets)], books[b].client, known)]

(* A sheet as pandas reads it: headings met twice are numbered, every row has *)
(* a cell under each.                                                         *)
IsSheet(sheet) ==
  /\ IsSequence(sheet.headings) /\ \A c \in DOMAIN sheet.headings : IsSequence(sheet.headings[c])
  /\ \A c, d \in DOMAIN sheet.headings : sheet.headings[c] = sheet.headings[d] => c = d
  /\ IsSequence(sheet.rows)
  /\ \A r \in DOMAIN sheet.rows :
       /\ IsSequence(sheet.rows[r]) /\ Len(sheet.rows[r]) = Len(sheet.headings)
       /\ \A c \in DOMAIN sheet.rows[r] : sheet.rows[r][c].n \in Int

(* Workbooks with one sheet that clearly lists payments. *)
IsWorkbook(book) ==
  /\ book.client \in Int /\ IsSequence(book.sheets)
  /\ \E s \in DOMAIN book.sheets : ClearSheets(book.sheets, "payments") = {s}
  /\ \A i \in DOMAIN book.sheets : IsSheet(book.sheets[i])

=============================================================================
