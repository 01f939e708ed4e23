---------------------------- MODULE ArvogColumns ----------------------------
(***************************************************************************)
(* How the cells of an Arvog column are normalised and shown               *)
(* (services/arvog_columns.py).                                            *)
(*                                                                         *)
(* A cell is blank, a number, a number typed as text or another text.      *)
(* Numbers are whole thousandths; a text is a word with its case.           *)
(***************************************************************************)
EXTENDS Integers, Sequences, FiniteSets, SequencesExt, FiniteSetsExt, Functions

One == 1000
BlankCell == [k |-> "blank", n |-> 0, word |-> "", upper |-> FALSE]
Num(n) == [BlankCell EXCEPT !.k = "num", !.n = n]
Typed(n) == [BlankCell EXCEPT !.k = "typed", !.n = n]
Text(word, upper) == [BlankCell EXCEPT !.k = "text", !.word = word, !.upper = upper]

Kinds == {"text", "identifier", "integer", "weight", "karat", "percent", "money"}
Whole(n) == n % One = 0
IsNumber(cell) == cell.k \in {"num", "typed"}
Magnitude(n) == IF n < 0 THEN -n ELSE n

(* n to the nearest multiple of unit; inputs are never half way. *)
Nearest(n, unit) == IF n < 0 THEN -(((-n + unit \div 2) \div unit) * unit)
                    ELSE ((n + unit \div 2) \div unit) * unit

-----------------------------------------------------------------------------
(* The largest unit of six significant digits. *)
SixDigits(n) == CHOOSE u \in {1, 10, 100, 1000, 10000} :
                  /\ Magnitude(n) \div u < 1000000
                  /\ u > 1 => Magnitude(n) \div u >= 100000

(* normalize_identifier: whole numbers keep their digits, others six. *)
Identifier(cell) ==
  CASE cell.k = "num" /\ Whole(cell.n) -> Typed(cell.n)
    [] cell.k = "num" /\ ~Whole(cell.n) -> Typed(Nearest(cell.n, SixDigits(cell.n)))
    [] OTHER -> cell

(* normalize_integer, _weight, _money and _karat: what reads as a number    *)
(* becomes one, other text is kept.                                         *)
Quantity(cell) == IF IsNumber(cell) THEN Num(cell.n) ELSE cell
Karat(cell) == IF cell.k = "text" THEN [cell EXCEPT !.upper = TRUE] ELSE Quantity(cell)

(* Mutant: the first number of the column tells. *)
PercentByFirst(column) ==
  LET numbers == {j \in DOMAIN column : IsNumber(column[j])}
      percents == numbers # {} /\ column[Min(numbers)].n > One + One \div 2
  IN [i \in DOMAIN column |->
        IF ~IsNumber(column[i]) THEN column[i]
        ELSE Num(IF percents THEN column[i].n \div 100 ELSE column[i].n)]

(* normalize_percent_series: the largest number of the column tells whether *)
(* it is in percents.                                                       *)
PercentSeries(column) ==
  LET numbers == {Magnitude(column[i].n) : i \in {j \in DOMAIN column : IsNumber(column[j])}}
      percents == numbers # {} /\ Max(numbers) > One + One \div 2
  IN [i \in DOMAIN column |->
        IF ~IsNumber(column[i]) THEN column[i]
        ELSE Num(IF percents THEN column[i].n \div 100 ELSE column[i].n)]

(* normalize_dataframe, of one column of a declared kind. *)
NormalizeColumn(kind, column) ==
  IF kind = "percent" THEN PercentSeries(column)
  ELSE [i \in DOMAIN column |->
          CASE kind = "text" -> column[i]
            [] kind = "identifier" -> Identifier(column[i])
            [] kind = "karat" -> Karat(column[i])
            [] kind \in {"integer", "weight", "money"} -> Quantity(column[i])]

-----------------------------------------------------------------------------
(* excel_format_for: a column of karats or counts that holds any text is    *)
(* formatted as text.                                                       *)
ExcelFormat(kind, column) ==
  IF kind \in {"integer", "karat"}
     /\ \E i \in DOMAIN column : column[i] # BlankCell /\ column[i].k # "num"
  THEN "text" ELSE kind

(* What Excel shows of a cell under a format (external). *)
ExcelShows(format, cell) ==
  IF cell.k # "num" THEN cell
  ELSE CASE format \in {"text", "identifier"} -> Typed(cell.n)
         [] format \in {"integer", "karat"} -> Typed(Nearest(cell.n, One))
         [] format \in {"weight", "money"} -> Typed(Nearest(cell.n, One \div 100))
         [] format = "percent" -> Typed(cell.n)   (* two decimals of a percent *)

(* display_value: what the PDF shows. *)
DisplayValue(kind, cell) ==
  IF ~IsNumber(cell) THEN cell
  ELSE CASE kind \in {"weight", "money"} -> Typed(Nearest(cell.n, One \div 100))
         [] OTHER -> Typed(cell.n)

-----------------------------------------------------------------------------
(* What a column is made of.  A purity is no less than nothing, and as a     *)
(* fraction it is whole thousandths too, whichever scale it is written in;    *)
(* typed as text it has no thousands separator, which pd.to_numeric would     *)
(* not read although _to_number does.                                         *)
IsCell(c) == c.n \in Int /\ c \in {BlankCell, Num(c.n), Typed(c.n), Text(c.word, c.upper)}
IsColumn(kind, column) ==
  /\ kind \in Kinds /\ Len(column) \in Nat /\ column = [i \in 1..Len(column) |-> column[i]]
  /\ \A i \in DOMAIN column : IsCell(column[i])
  /\ kind = "percent" => \A i \in DOMAIN column :
       IsNumber(column[i]) => column[i].n \in Nat /\ (column[i].n > One => column[i].n % 100 = 0)

(* Two loans, packets or customers whose codes differ are not given one     *)
(* code, whole numbers or text (the module's docstring: "Normalisation      *)
(* never rounds a stored value").                                           *)
CodesStayApart(column, normal) ==
  \A i, j \in DOMAIN column :
    (/\ \A c \in {column[i], column[j]} : IsNumber(c) => Whole(c.n)
     /\ normal[i] = normal[j])
    => \/ column[i] = column[j]
       \/ IsNumber(column[i]) /\ IsNumber(column[j]) /\ column[i].n = column[j].n

(* A column of purities means the same afterwards, whichever of the two     *)
(* scales its branch writes, and a second normalisation (the tall sheet is  *)
(* read back) leaves it.  A column that mixes the scales, a fineness of 916 *)
(* or a percentage below one and a half is beyond this rule.                *)
PurityOnOneScale(column, normal) ==
  LET numbers == {column[i].n : i \in {j \in DOMAIN column : IsNumber(column[j])}}
      fractions == \A n \in numbers : n <= One
      percents == \A n \in numbers : n = 0 \/ (One + One \div 2 < n /\ n <= 100 * One)
      scale == IF fractions THEN 1 ELSE 100
  IN fractions \/ percents
     => /\ \A i \in DOMAIN column :
             IF IsNumber(column[i]) THEN normal[i].n * scale = column[i].n
             ELSE normal[i] = column[i]
        /\ NormalizeColumn("percent", normal) = normal

(* The workbook and the PDF of a run show the same for a cell               *)
(* (display_value's docstring), a karat or a count in fractions apart.      *)
OutputsAgree(kind, normal) ==
  \A i \in DOMAIN normal :
    (kind \in {"integer", "karat"} /\ IsNumber(normal[i]) => Whole(normal[i].n))
    => ExcelShows(ExcelFormat(kind, normal), normal[i]) = DisplayValue(kind, normal[i])

=============================================================================
