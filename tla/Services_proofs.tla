--------------------------- MODULE Services_proofs ---------------------------
(***************************************************************************)
(* Services, proved for every row, column, PDF and master: what the passes *)
(* over a row settle, what normalisation keeps of a column, what a merge   *)
(* keeps of the branches, what a flattened PDF accounts for, that the      *)
(* reports of a master have each of its accounts and packets once, that    *)
(* the tracker adds up whatever its sheets' headings, and, with            *)
(* Arvog_proofs, that no ornament is lost on the way to and fro.           *)
(***************************************************************************)
EXTENDS Services, Arvog_proofs

Fields == Weights \cup Counts \cup TextCells \cup {"outliers", "marks"}
Shaped(z) == z = [f \in Fields |-> z[f]]

(* A pass that leaves all but some cells as they are; colours are apart.     *)
Keeps(x, z, S) == Shaped(x) /\ \A f \in Fields \ (S \cup {"marks"}) : x[f] = z[f]

LEMMA KeepsMore ==
  ASSUME NEW x, NEW y, NEW z, NEW S, NEW T, Keeps(y, z, S), Keeps(x, y, T)
  PROVE  Keeps(x, z, S \cup T)
BY DEF Keeps

LEMMA SetField ==
  ASSUME NEW z, Shaped(z), NEW f \in Fields, NEW c
  PROVE  Keeps(Set(z, f, c), z, {f}) /\ Set(z, f, c)[f] = c
<1> DEFINE x == Set(z, f, c)
<1>1. x = [g \in Fields |-> IF g = f THEN c ELSE z[g]]
  BY DEF Set, Shaped
<1>2. Shaped(x)
  BY <1>1 DEF Shaped
<1> HIDE DEF x
<1>3. \A g \in Fields : x[g] = IF g = f THEN c ELSE z[g]
  BY <1>1
<1>4. QED
  BY <1>2, <1>3 DEF Keeps, x

LEMMA MarksField ==
  ASSUME NEW z, Shaped(z), NEW m, NEW x, x = [z EXCEPT !.marks = m]
  PROVE  Keeps(x, z, {}) /\ x.marks = m
<1>0. "marks" \in Fields
  BY DEF Fields
<1>1. x = [g \in Fields |-> IF g = "marks" THEN m ELSE z[g]]
  BY <1>0 DEF Shaped
<1>2. Shaped(x)
  BY <1>1 DEF Shaped
<1>3. \A g \in Fields : x[g] = IF g = "marks" THEN m ELSE z[g]
  BY <1>1
<1>4. QED
  BY <1>0, <1>2, <1>3 DEF Keeps

LEMMA MarkField ==
  ASSUME NEW z, Shaped(z), NEW f, NEW colour
  PROVE  Keeps(Mark(z, f, colour), z, {})
BY MarksField DEF Mark

LEMMA MarkedField ==
  ASSUME NEW z, Shaped(z), NEW f, NEW colour, NEW when
  PROVE  Keeps(Marked(z, f, colour, when), z, {})
<1>1. Keeps(z, z, {})
  BY DEF Keeps
<1>2. QED
  BY <1>1, MarkField DEF Marked

-----------------------------------------------------------------------------
(* What each pass may change.                                                *)
LEMMA DatesPass ==
  ASSUME NEW z, Shaped(z)
  PROVE  /\ Keeps(Dates(z), z, {"renewed"})
         /\ Dates(z).renewed = IF ~Cleaned(z) /\ z.taf = "POA" THEN ""
                               ELSE IF z.renewed = "text" THEN "date" ELSE z.renewed
<1>1. "renewed" \in Fields
  BY DEF Fields, TextCells
<1>2. QED
  BY <1>1, SetField DEF Dates

LEMMA DateOutliersPass ==
  ASSUME NEW z, Shaped(z)
  PROVE  /\ Keeps(DateOutliers(z), z, {})
         /\ \E late \in SUBSET z.outliers :
              DateOutliers(z).marks = [k \in DOMAIN z.marks \cup late |->
                                         IF k \in DOMAIN z.marks THEN z.marks[k] ELSE "yellow"]
<1> DEFINE late == {f \in z.outliers : f = "renewed" => z.renewed # ""}
           m == [k \in DOMAIN z.marks \cup late |-> IF k \in DOMAIN z.marks THEN z.marks[k] ELSE "yellow"]
<1>1. late \in SUBSET z.outliers
  OBVIOUS
<1> HIDE DEF late
<1>2. DateOutliers(z) = [z EXCEPT !.marks = m]
  BY DEF DateOutliers, late
<1> HIDE DEF m
<1>3. Keeps(DateOutliers(z), z, {}) /\ DateOutliers(z).marks = m
  BY <1>2, MarksField
<1>4. QED
  BY <1>1, <1>3 DEF m

LEMMA SuspicionsPass ==
  ASSUME NEW z, Shaped(z)
  PROVE  Keeps(Suspicions(z), z, {})
<1> DEFINE a == Marked(z, "state", "orange", z.state = "UNKNOWN")
           b == Marked(a, "tampered", "orange", ~Cleaned(z) /\ z.tampered = "YES")
           c == Magnet(b)
           d == Marked(c, "actGross", "orange", ~Cleaned(z) /\ z.status = "fresh" /\ NumberIn(z.actGross) = {0})
<1>1. Keeps(a, z, {})
  BY MarkedField
<1>2. Keeps(b, a, {})
  BY <1>1, MarkedField DEF Keeps
<1>3. Keeps(c, b, {})
  BY <1>2, MarkedField DEF Keeps, Magnet
<1>4. Keeps(d, c, {})
  BY <1>3, MarkedField DEF Keeps
<1>5. Suspicions(z) = d
  BY DEF Suspicions
<1> HIDE DEF a, b, c, d
<1>6. QED
  BY <1>1, <1>2, <1>3, <1>4, <1>5 DEF Keeps

LEMMA AlignPass ==
  ASSUME NEW z, Shaped(z)
  PROVE  /\ Keeps(Align(z), z, {"actGross", "actNet", "remark"})
         /\ (Cleaned(z) \/ z.taf # "POA") => Align(z) = z
         /\ ~Cleaned(z) /\ z.taf = "POA" =>
              /\ Align(z).actGross = IF Close(z, "gdrGross", "actGross") THEN z.gdrGross ELSE z.actGross
              /\ Align(z).actNet = IF Close(z, "gdrNet", "actNet") THEN z.gdrNet ELSE z.actNet
              /\ Align(z).remark = IF ~Close(z, "gdrGross", "actGross") /\ ~Close(z, "gdrNet", "actNet") THEN z.remark
                                   ELSE Amended(z.remark, (IF Close(z, "gdrGross", "actGross") THEN {"gross"} ELSE {})
                                                          \cup (IF Close(z, "gdrNet", "actNet") THEN {"net"} ELSE {}))
<1> DEFINE gross == Close(z, "gdrGross", "actGross")
           net == Close(z, "gdrNet", "actNet")
           fixed == (IF gross THEN {"gross"} ELSE {}) \cup (IF net THEN {"net"} ELSE {})
           one == IF gross THEN Mark(Set(z, "actGross", z.gdrGross), "actGross", "green") ELSE z
           both == IF net THEN Mark(Set(one, "actNet", z.gdrNet), "actNet", "green") ELSE one
           all == Set(both, "remark", Amended(z.remark, fixed))
<1>0. {"actGross", "actNet", "remark", "gdrGross", "gdrNet"} \subseteq Fields \ {"marks"}
  BY DEF Fields, Weights, TextCells
<1>1. Keeps(one, z, {"actGross"}) /\ one.actGross = IF gross THEN z.gdrGross ELSE z.actGross
  <2>1. CASE gross
    <3> DEFINE s == Set(z, "actGross", z.gdrGross)
    <3>1. Keeps(s, z, {"actGross"}) /\ s.actGross = z.gdrGross
      BY <1>0, SetField
    <3>2. Keeps(Mark(s, "actGross", "green"), s, {})
      BY <3>1, MarkField DEF Keeps
    <3> HIDE DEF s
    <3>3. Keeps(Mark(s, "actGross", "green"), z, {"actGross"}) /\ Mark(s, "actGross", "green").actGross = z.gdrGross
      BY <1>0, <3>1, <3>2 DEF Keeps
    <3>4. QED
      BY <2>1, <3>3 DEF s
  <2>2. CASE ~gross
    BY <2>2 DEF Keeps
  <2>3. QED
    BY <2>1, <2>2
<1> HIDE DEF one, gross, net
<1>2. Keeps(both, one, {"actNet"}) /\ both.actNet = IF net THEN z.gdrNet ELSE one.actNet
  <2>1. CASE net
    <3> DEFINE s == Set(one, "actNet", z.gdrNet)
    <3>0. Shaped(one)
      BY <1>1 DEF Keeps
    <3>1. Keeps(s, one, {"actNet"}) /\ s.actNet = z.gdrNet
      BY <1>0, <3>0, SetField
    <3>2. Keeps(Mark(s, "actNet", "green"), s, {})
      BY <3>1, MarkField DEF Keeps
    <3> HIDE DEF s
    <3>3. Keeps(Mark(s, "actNet", "green"), one, {"actNet"}) /\ Mark(s, "actNet", "green").actNet = z.gdrNet
      BY <1>0, <3>1, <3>2 DEF Keeps
    <3>4. QED
      BY <2>1, <3>3 DEF s
  <2>2. CASE ~net
    BY <2>2, <1>1 DEF Keeps
  <2>3. QED
    BY <2>1, <2>2
<1> HIDE DEF both
<1>3. Keeps(all, both, {"remark"}) /\ all.remark = Amended(z.remark, fixed)
  <2>1. Shaped(both)
    BY <1>2 DEF Keeps
  <2>2. QED
    BY <1>0, <2>1, SetField
<1> HIDE DEF all
<1>4. /\ Keeps(all, z, {"actGross", "actNet", "remark"})
      /\ all.actGross = IF gross THEN z.gdrGross ELSE z.actGross
      /\ all.actNet = IF net THEN z.gdrNet ELSE z.actNet
  BY <1>0, <1>1, <1>2, <1>3 DEF Keeps
<1>5. fixed = {} <=> ~gross /\ ~net
  OBVIOUS
<1>6. Align(z) = IF Cleaned(z) \/ z.taf # "POA" \/ fixed = {} THEN z ELSE all
  BY DEF Align, all, both, one, gross, net
<1>7. Keeps(z, z, {"actGross", "actNet", "remark"})
  BY DEF Keeps
<1> HIDE DEF fixed
<1>8. CASE Cleaned(z) \/ z.taf # "POA" \/ fixed = {}
  <2>1. Align(z) = z
    BY <1>6, <1>8
  <2>2. QED
    BY <2>1, <1>8, <1>7, <1>5 DEF gross, net
<1>9. CASE ~(Cleaned(z) \/ z.taf # "POA" \/ fixed = {})
  <2>1. Align(z) = all
    BY <1>6, <1>9
  <2>2. QED
    BY <2>1, <1>9, <1>4, <1>3, <1>5 DEF gross, net, fixed
<1>10. QED
  BY <1>8, <1>9

(* Whether a pass replaces what is in a difference's cell. *)
Off(c, want) ==
  IF Cached(c) = {} THEN c.k # "uncached" ELSE \E n \in Cached(c) : Abs(Tenth(want) - Tenth(n)) > 50

LEMMA CorrectedPass ==
  ASSUME NEW z, Shaped(z), NEW f \in Fields \ {"marks"}, NEW formula, NEW want
  PROVE  /\ Keeps(Corrected(z, f, formula, want), z, {f})
         /\ Corrected(z, f, formula, want)[f] = IF Off(z[f], want) THEN Uncomputed(formula) ELSE z[f]
<1> DEFINE s == Set(z, f, Uncomputed(formula))
           m == Mark(s, f, "yellow")
<1>1. Keeps(s, z, {f}) /\ s[f] = Uncomputed(formula)
  BY SetField
<1>2. Keeps(m, s, {})
  BY <1>1, MarkField DEF Keeps
<1>3. Corrected(z, f, formula, want) =
        IF Cached(z[f]) = {} THEN IF z[f].k = "uncached" THEN z ELSE s
        ELSE IF \E n \in Cached(z[f]) : Abs(Tenth(want) - Tenth(n)) > 50 THEN m ELSE z
  BY DEF Corrected
<1> HIDE DEF s, m
<1>4. Keeps(m, z, {f}) /\ m[f] = Uncomputed(formula) /\ Keeps(z, z, {f})
  BY <1>1, <1>2 DEF Keeps
<1>5. QED
  BY <1>1, <1>3, <1>4 DEF Off

(* The two numbers of a difference are there, and the difference is not.     *)
Wrong(z, f, a, b) == NumberIn(z[a]) # {} /\ NumberIn(z[b]) # {} /\ Off(z[f], z[a].n - z[b].n)

LEMMA FixPass ==
  ASSUME NEW z, Shaped(z), NEW f \in Fields \ {"marks"}, NEW formula, NEW a, NEW b
  PROVE  /\ Keeps(Fix(z, f, formula, a, b), z, {f})
         /\ Fix(z, f, formula, a, b)[f] = IF Wrong(z, f, a, b) THEN Uncomputed(formula) ELSE z[f]
<1>1. Keeps(z, z, {f})
  BY DEF Keeps
<1>2. QED
  BY <1>1, CorrectedPass DEF Fix, Wrong

ByWeights(z) == z.taf = "POA" \/ (z.taf = "" /\ z.status = "fresh")
ByTare(z) == z.taf = "" /\ z.status \in {"verified", "already verified"}
ByNothing(z) == z.taf = "" /\ z.status = "already verified"

LEMMA GrossDiffPass ==
  ASSUME NEW z, Shaped(z)
  PROVE  /\ Keeps(GrossDiff(z), z, {"grossDiff"})
         /\ GrossDiff(z).grossDiff =
              IF ~Cleaned(z) /\ ByWeights(z) /\ Wrong(z, "grossDiff", "gdrGross", "actGross")
              THEN Uncomputed("gdrGross-actGross")
              ELSE IF ~Cleaned(z) /\ ByTare(z) /\ Wrong(z, "grossDiff", "gdrGross", "tare")
              THEN Uncomputed("gdrGross-tare") ELSE z.grossDiff
<1> DEFINE x == Fix(z, "grossDiff", "gdrGross-actGross", "gdrGross", "actGross")
           y == Fix(z, "grossDiff", "gdrGross-tare", "gdrGross", "tare")
<1>1. "grossDiff" \in Fields \ {"marks"} /\ Keeps(z, z, {"grossDiff"})
  BY DEF Fields, Counts, Keeps
<1>2. /\ Keeps(x, z, {"grossDiff"})
      /\ x.grossDiff = IF Wrong(z, "grossDiff", "gdrGross", "actGross") THEN Uncomputed("gdrGross-actGross") ELSE z.grossDiff
  BY <1>1, FixPass
<1>3. /\ Keeps(y, z, {"grossDiff"})
      /\ y.grossDiff = IF Wrong(z, "grossDiff", "gdrGross", "tare") THEN Uncomputed("gdrGross-tare") ELSE z.grossDiff
  BY <1>1, FixPass
<1>4. GrossDiff(z) = IF ~Cleaned(z) /\ ByWeights(z) THEN x ELSE IF ~Cleaned(z) /\ ByTare(z) THEN y ELSE z
  BY DEF GrossDiff, ByWeights, ByTare
<1>5. ~(ByWeights(z) /\ ByTare(z))
  BY DEF ByWeights, ByTare
<1> HIDE DEF x, y
<1>6. QED
  BY <1>1, <1>2, <1>3, <1>4, <1>5

(* A row of no kind that was verified before should show no net difference.  *)
NetIsOff(z) == IF Cached(z.netDiff) = {} THEN z.netDiff.k # "uncached" ELSE \E n \in Cached(z.netDiff) : Abs(n) > 10

LEMMA NetDiffPass ==
  ASSUME NEW z, Shaped(z)
  PROVE  /\ Keeps(NetDiff(z), z, {"netDiff"})
         /\ NetDiff(z).netDiff =
              IF ~Cleaned(z) /\ ByWeights(z) /\ Wrong(z, "netDiff", "gdrNet", "actNet")
              THEN Uncomputed("gdrNet-actNet")
              ELSE IF ~Cleaned(z) /\ ByNothing(z) /\ NetIsOff(z)
              THEN Uncomputed("0") ELSE z.netDiff
<1> DEFINE x == Fix(z, "netDiff", "gdrNet-actNet", "gdrNet", "actNet")
           c == Corrected(z, "netDiff", "0", 0)
           s == Set(z, "netDiff", Uncomputed("0"))
           m == Mark(s, "netDiff", "yellow")
           y == IF Cached(z.netDiff) = {} THEN c ELSE IF \E n \in Cached(z.netDiff) : Abs(n) > 10 THEN m ELSE z
<1>1. "netDiff" \in Fields \ {"marks"} /\ Keeps(z, z, {"netDiff"})
  BY DEF Fields, Counts, Keeps
<1>2. /\ Keeps(x, z, {"netDiff"})
      /\ x.netDiff = IF Wrong(z, "netDiff", "gdrNet", "actNet") THEN Uncomputed("gdrNet-actNet") ELSE z.netDiff
  BY <1>1, FixPass
<1>3. /\ Keeps(c, z, {"netDiff"})
      /\ Cached(z.netDiff) = {} => c.netDiff = IF NetIsOff(z) THEN Uncomputed("0") ELSE z.netDiff
  <2>1. Keeps(c, z, {"netDiff"}) /\ c.netDiff = IF Off(z.netDiff, 0) THEN Uncomputed("0") ELSE z.netDiff
    BY <1>1, CorrectedPass
  <2>2. Cached(z.netDiff) = {} => (Off(z.netDiff, 0) <=> NetIsOff(z))
    BY DEF NetIsOff, Off
  <2>3. QED
    BY <2>1, <2>2
<1>4. Keeps(s, z, {"netDiff"}) /\ s.netDiff = Uncomputed("0")
  BY <1>1, SetField
<1>5. Keeps(m, s, {})
  BY <1>4, MarkField DEF Keeps
<1>6. NetDiff(z) = IF ~Cleaned(z) /\ ByWeights(z) THEN x ELSE IF ~Cleaned(z) /\ ByNothing(z) THEN y ELSE z
  BY DEF NetDiff, ByWeights, ByNothing
<1>7. ~(ByWeights(z) /\ ByNothing(z))
  BY DEF ByWeights, ByNothing
<1> HIDE DEF x, c, s, m
<1>8. Keeps(m, z, {"netDiff"}) /\ m.netDiff = Uncomputed("0")
  BY <1>1, <1>4, <1>5 DEF Keeps
<1>9. Keeps(y, z, {"netDiff"}) /\ y.netDiff = IF NetIsOff(z) THEN Uncomputed("0") ELSE z.netDiff
  BY <1>1, <1>3, <1>8 DEF NetIsOff
<1> HIDE DEF y
<1>10. QED
  BY <1>1, <1>2, <1>6, <1>7, <1>9, ZenonT(30)

PercentIsOff(z) ==
  \E s \in NumberIn(z.spurWeight), g \in NumberIn(z.gdrGross) :
    g > 0 /\ Abs(Percent(s, g) - (IF Cached(z.spurPct) = {} THEN 0 ELSE z.spurPct.n)) > 50

LEMMA PercentPass ==
  ASSUME NEW z, Shaped(z)
  PROVE  /\ Keeps(SpuriousPercent(z), z, {"spurPct"})
         /\ SpuriousPercent(z).spurPct = IF ~Cleaned(z) /\ PercentIsOff(z) THEN Uncomputed("percent") ELSE z.spurPct
<1> DEFINE s == Set(z, "spurPct", Uncomputed("percent"))
           m == Mark(s, "spurPct", "yellow")
<1>1. "spurPct" \in Fields \ {"marks"} /\ Keeps(z, z, {"spurPct"})
  BY DEF Fields, Counts, Keeps
<1>2. Keeps(s, z, {"spurPct"}) /\ s.spurPct = Uncomputed("percent")
  BY <1>1, SetField
<1>3. Keeps(m, s, {})
  BY <1>2, MarkField DEF Keeps
<1>4. SpuriousPercent(z) = IF ~Cleaned(z) /\ PercentIsOff(z) THEN m ELSE z
  BY Zenon DEF SpuriousPercent, PercentIsOff
<1> HIDE DEF s, m
<1>5. Keeps(m, z, {"spurPct"}) /\ m.spurPct = Uncomputed("percent")
  BY <1>1, <1>2, <1>3 DEF Keeps
<1>6. QED
  BY <1>1, <1>4, <1>5

(* The difference of the counts of ornaments, where there is one to show.    *)
OrnIsOff(z) ==
  IF z.taf = "TAF" THEN Cached(z.ornDiff) # {0}
  ELSE /\ Cached(z.ornGdr) # {} /\ Cached(z.ornActual) # {}
       /\ Cached(z.ornDiff) # {z.ornActual.n - z.ornGdr.n}

LEMMA OrnamentsPass ==
  ASSUME NEW z, Shaped(z)
  PROVE  /\ Keeps(Ornaments(z), z, {"ornDiff"})
         /\ Cleaned(z) => Ornaments(z) = z
         /\ ~Cleaned(z) => Ornaments(z).ornDiff =
              IF ~OrnIsOff(z) THEN z.ornDiff
              ELSE IF z.taf = "TAF" THEN Figure(0) ELSE Uncomputed("ornActual-ornGdr")
<1> DEFINE want == z.ornActual.n - z.ornGdr.n
           zero == Set(z, "ornDiff", Figure(0))
           byFormula == Set(z, "ornDiff", Uncomputed("ornActual-ornGdr"))
           set == IF Cached(z.ornDiff) = {want} THEN z ELSE byFormula
           shown == Marked(set, "ornDiff", "yellow", want # 0)
           gdr == Marked(shown, "ornGdr", "yellow", want # 0 /\ z.taf # "POA")
           act == Marked(gdr, "ornActual", "yellow", want # 0 /\ z.taf # "POA")
           diff == OrnamentDiff(z)
           last == Marked(diff, "ornGdr", "yellow", \E n \in NumberIn(z.ornGdr) : n <= 0)
<1>1. "ornDiff" \in Fields \ {"marks"} /\ Keeps(z, z, {"ornDiff"})
  BY DEF Fields, Counts, Keeps
<1>2. Keeps(zero, z, {"ornDiff"}) /\ zero.ornDiff = Figure(0)
  BY <1>1, SetField
<1>3. Keeps(byFormula, z, {"ornDiff"}) /\ byFormula.ornDiff = Uncomputed("ornActual-ornGdr")
  BY <1>1, SetField
<1> HIDE DEF zero, byFormula, want
<1>4. Keeps(set, z, {"ornDiff"}) /\ set.ornDiff = IF Cached(z.ornDiff) = {want} THEN z.ornDiff ELSE Uncomputed("ornActual-ornGdr")
  BY <1>1, <1>3
<1> HIDE DEF set
<1>5. Keeps(shown, set, {})
  BY <1>4, MarkedField DEF Keeps
<1> HIDE DEF shown
<1>6. Keeps(gdr, shown, {})
  BY <1>5, MarkedField DEF Keeps
<1> HIDE DEF gdr
<1>7. Keeps(act, gdr, {})
  BY <1>6, MarkedField DEF Keeps
<1> HIDE DEF act
<1>8. Keeps(act, z, {"ornDiff"}) /\ act.ornDiff = set.ornDiff
  BY <1>1, <1>4, <1>5, <1>6, <1>7 DEF Keeps
<1>9. diff = IF z.taf = "TAF" THEN IF Cached(z.ornDiff) = {0} THEN z ELSE zero
             ELSE IF Cached(z.ornGdr) = {} \/ Cached(z.ornActual) = {} THEN z ELSE act
  BY DEF OrnamentDiff, zero, act, gdr, shown, set, byFormula, want
<1> HIDE DEF diff
<1>10. /\ Keeps(diff, z, {"ornDiff"})
       /\ diff.ornDiff = IF ~OrnIsOff(z) THEN z.ornDiff
                         ELSE IF z.taf = "TAF" THEN Figure(0) ELSE Uncomputed("ornActual-ornGdr")
  BY <1>1, <1>2, <1>4, <1>8, <1>9 DEF OrnIsOff, want
<1>11. Keeps(last, diff, {})
  <2>1. Shaped(diff)
    BY <1>10 DEF Keeps
  <2>2. \A when : Keeps(Marked(diff, "ornGdr", "yellow", when), diff, {})
    BY <2>1, MarkedField
  <2>3. QED
    BY <2>2, Zenon
<1>12. Ornaments(z) = IF Cleaned(z) THEN z ELSE last
  BY DEF Ornaments, last, diff
<1> HIDE DEF last
<1>13. Keeps(last, z, {"ornDiff"}) /\ last.ornDiff = diff.ornDiff
  BY <1>1, <1>10, <1>11 DEF Keeps
<1>14. QED
  BY <1>1, <1>10, <1>12, <1>13

LEMMA TarePass ==
  ASSUME NEW z, Shaped(z)
  PROVE  /\ Keeps(TareNumber(z), z, {"tare"})
         /\ TareNumber(z).tare = IF z.tare = NA THEN Figure(0) ELSE z.tare
         /\ z.tare # NA => TareNumber(z) = z
<1>1. "tare" \in Fields \ {"marks"} /\ Keeps(z, z, {"tare"})
  BY DEF Fields, Weights, Keeps
<1>2. QED
  BY <1>1, SetField DEF TareNumber

LEMMA PlausiblePass ==
  ASSUME NEW z, Shaped(z)
  PROVE  Keeps(Plausible(z), z, {})
BY MarksField DEF Plausible

LEMMA CleanedPasses ==
  ASSUME NEW z, Cleaned(z)
  PROVE  Align(z) = z /\ GrossDiff(z) = z /\ NetDiff(z) = z /\ SpuriousPercent(z) = z /\ Ornaments(z) = z
<1>1. Align(z) = z /\ SpuriousPercent(z) = z /\ Ornaments(z) = z
  BY DEF Align, SpuriousPercent, Ornaments
<1>2. GrossDiff(z) = z
  BY DEF GrossDiff
<1>3. NetDiff(z) = z
  BY DEF NetDiff
<1>4. QED
  BY <1>1, <1>2, <1>3

(* What a closed or top-up row is reset to. *)
Defaults(z) ==
  /\ \A f \in Weights \cup Counts : NumberIn(z[f]) = {0}
  /\ z.magnet = (IF Closed(z) THEN "TEST NOT DONE" ELSE "OK") /\ z.tampered = "NO"
  /\ ~Closed(z) => z.gdrNo = ""

LEMMA ResetPass ==
  ASSUME NEW z, Shaped(z), Cleaned(z)
  PROVE  /\ Shaped(Reset(z)) /\ Defaults(Reset(z)) /\ Cleaned(Reset(z))
         /\ \A f \in Weights \cup Counts : Reset(z)[f] = Figure(0) \/ (Reset(z)[f] = z[f] /\ NumberIn(z[f]) = {0})
         /\ \A f \in {"status", "taf", "remark", "renewed", "state", "outliers"} : Reset(z)[f] = z[f]
         /\ Closed(z) => Reset(z).gdrNo = z.gdrNo
         /\ \E wrong : Reset(z).marks = [k \in DOMAIN z.marks \cup wrong |-> IF k \in DOMAIN z.marks THEN z.marks[k] ELSE "green"]
         /\ Defaults(z) => Keeps(Reset(z), z, {})
<1> DEFINE texts == [magnet |-> IF Closed(z) THEN "TEST NOT DONE" ELSE "OK", tampered |-> "NO",
                     gdrNo |-> IF Closed(z) THEN z.gdrNo ELSE ""]
           wrong == {f \in Weights \cup Counts : NumberIn(z[f]) # {0}}
                      \cup {f \in DOMAIN texts : z[f] # texts[f]}
           cleared == [f \in DOMAIN z |->
                         IF f \notin wrong THEN z[f]
                         ELSE IF f \in DOMAIN texts THEN texts[f] ELSE Figure(0)]
           m == [k \in DOMAIN z.marks \cup wrong |-> IF k \in DOMAIN z.marks THEN z.marks[k] ELSE "green"]
           x == [cleared EXCEPT !.marks = m]
<1>1. /\ DOMAIN texts = {"magnet", "tampered", "gdrNo"}
      /\ texts["magnet"] = (IF Closed(z) THEN "TEST NOT DONE" ELSE "OK")
      /\ texts["tampered"] = "NO" /\ texts["gdrNo"] = IF Closed(z) THEN z.gdrNo ELSE ""
  OBVIOUS
<1> HIDE DEF texts
<1>2. DOMAIN z = Fields
  BY DEF Shaped
<1>3. Shaped(cleared)
  BY <1>2 DEF Shaped
<1>4. \A f \in Fields : cleared[f] = IF f \notin wrong THEN z[f]
                                     ELSE IF f \in DOMAIN texts THEN texts[f] ELSE Figure(0)
  BY <1>2
<1>5. /\ \A f \in Weights \cup Counts : f \in wrong <=> NumberIn(z[f]) # {0}
      /\ \A f \in DOMAIN texts : f \in wrong <=> z[f] # texts[f]
      /\ \A f \in wrong : f \in Weights \cup Counts \cup DOMAIN texts
  BY <1>1 DEF Weights, Counts
<1>6. cleared.marks = z.marks
  BY <1>1, <1>4, <1>5 DEF Fields, Weights, Counts
<1>7. Reset(z) = x
  <2>1. [cleared EXCEPT !.marks = [k \in DOMAIN @ \cup wrong |-> IF k \in DOMAIN @ THEN @[k] ELSE "green"]] = x
    BY <1>6
  <2>2. QED
    BY <2>1 DEF Reset, texts
<1> HIDE DEF wrong, cleared
<1>8. Keeps(x, cleared, {}) /\ x.marks = m
  BY <1>3, MarksField
<1> HIDE DEF x
<1>9. \A f \in Fields \ {"marks"} : x[f] = IF f \notin wrong THEN z[f]
                                           ELSE IF f \in DOMAIN texts THEN texts[f] ELSE Figure(0)
  BY <1>4, <1>8 DEF Keeps
<1>10. \A f \in Weights \cup Counts : f \in Fields \ {"marks"} /\ f \notin DOMAIN texts
  BY <1>1 DEF Fields, Weights, Counts
<1>11. \A f \in Weights \cup Counts : x[f] = Figure(0) \/ (x[f] = z[f] /\ NumberIn(z[f]) = {0})
  BY <1>5, <1>9, <1>10
<1>12. \A f \in Weights \cup Counts : NumberIn(x[f]) = {0}
  <2>1. NumberIn(Figure(0)) = {0}
    BY DEF NumberIn, Figure
  <2>2. QED
    BY <2>1, <1>11
<1>13. \A f \in {"status", "taf", "remark", "renewed", "state", "outliers"} : x[f] = z[f]
  <2>1. \A f \in {"status", "taf", "remark", "renewed", "state", "outliers"} :
          f \in Fields \ {"marks"} /\ f \notin Weights \cup Counts \cup DOMAIN texts
    BY <1>1 DEF Fields, Weights, Counts, TextCells
  <2>2. QED
    BY <2>1, <1>5, <1>9
<1>14. \A f \in DOMAIN texts : x[f] = texts[f]
  <2>1. DOMAIN texts \subseteq Fields \ {"marks"}
    BY <1>1 DEF Fields, TextCells
  <2>2. QED
    BY <2>1, <1>5, <1>9
<1>15. x.magnet = texts["magnet"] /\ x.tampered = "NO" /\ x.gdrNo = texts["gdrNo"]
  BY <1>1, <1>14
<1>16. (Closed(x) <=> Closed(z)) /\ Cleaned(x)
  BY <1>13 DEF Closed, Cleaned
<1>17. Defaults(x)
  BY <1>1, <1>12, <1>15, <1>16 DEF Defaults
<1>18. ASSUME Defaults(z) PROVE Keeps(x, z, {})
  <2>1. \A f \in DOMAIN texts : z[f] = texts[f]
    BY <1>1, <1>18 DEF Defaults
  <2>2. \A f \in Fields : f \notin wrong
    BY <2>1, <1>5, <1>18 DEF Defaults
  <2>3. QED
    BY <2>2, <1>8, <1>9 DEF Keeps
<1>19. Shaped(x) /\ x.marks = m
  BY <1>8 DEF Keeps
<1>20. (Closed(z) => x.gdrNo = z.gdrNo) /\ (\E w : x.marks = [k \in DOMAIN z.marks \cup w |-> IF k \in DOMAIN z.marks THEN z.marks[k] ELSE "green"])
  BY <1>1, <1>15, <1>19
<1>21. QED
  BY <1>7, <1>11, <1>13, <1>16, <1>17, <1>18, <1>19, <1>20, Zenon

(* A closed or top-up row, through all the passes. *)
LEMMA ClosedRows ==
  ASSUME NEW row, IsRow(row), Cleaned(row)
  PROVE  /\ ClosedRowsStayReset(row, ValidateRow(row))
         /\ Shaped(ValidateRow(row)) /\ Cleaned(ValidateRow(row)) /\ Defaults(ValidateRow(row))
         /\ ValidateRow(row).renewed # "text"
<1> DEFINE a == Reset(row)
           b == Dates(a)
           d == DateOutliers(b)
           c == Suspicions(d)
           out == Plausible(c)
<1>1. Shaped(row) /\ row.marks = [f \in DOMAIN row.marks |-> row.marks[f]]
  BY DEF IsRow, Shaped, Fields
<1>2. /\ Shaped(a) /\ Defaults(a) /\ Cleaned(a)
      /\ \A f \in Weights \cup Counts : a[f] = Figure(0) \/ (a[f] = row[f] /\ NumberIn(row[f]) = {0})
      /\ \A f \in {"status", "taf", "remark", "renewed", "state", "outliers"} : a[f] = row[f]
      /\ Closed(row) => a.gdrNo = row.gdrNo
      /\ \E wrong : a.marks = [k \in DOMAIN row.marks \cup wrong |-> IF k \in DOMAIN row.marks THEN row.marks[k] ELSE "green"]
  BY <1>1, ResetPass
<1>3. /\ \A k \in DOMAIN row.marks : k \in DOMAIN a.marks
      /\ \A k \in DOMAIN a.marks \ DOMAIN row.marks : a.marks[k] = "green"
      /\ a.marks = [k \in DOMAIN a.marks |-> a.marks[k]]
  BY <1>2
<1> HIDE DEF a
<1>4. /\ Keeps(b, a, {"renewed"}) /\ b.marks = a.marks
      /\ b.renewed = IF a.renewed = "text" THEN "date" ELSE a.renewed
  <2>1. {"marks", "renewed"} \subseteq Fields
    BY DEF Fields, TextCells
  <2>2. b.marks = a.marks
    BY <1>2, <2>1 DEF Dates, Set, Shaped
  <2>3. QED
    BY <1>2, <2>2, DatesPass
<1>4a. b.outliers = row.outliers
  BY <1>2, <1>4 DEF Keeps, Fields, Weights, Counts, TextCells
<1> HIDE DEF b
<1>5a. /\ Keeps(d, b, {})
       /\ \A k \in DOMAIN d.marks \ DOMAIN row.marks : d.marks[k] = "green" \/ k \in row.outliers
       /\ d.marks = [k \in DOMAIN d.marks |-> d.marks[k]]
  <2>1. Shaped(b)
    BY <1>4 DEF Keeps
  <2>2. Keeps(d, b, {})
    BY <2>1, DateOutliersPass
  <2>3. PICK late \in SUBSET row.outliers :
          d.marks = [k \in DOMAIN b.marks \cup late |-> IF k \in DOMAIN b.marks THEN b.marks[k] ELSE "yellow"]
    BY <2>1, <1>4a, DateOutliersPass
  <2>4. QED
    BY <2>2, <2>3, <1>3, <1>4
<1>5. Cleaned(d)
  BY <1>2, <1>4, <1>5a DEF Keeps, Cleaned, Closed, Fields, TextCells
<1> HIDE DEF d
<1>6. Keeps(c, d, {}) /\ c.marks \in {d.marks, Paint(d.marks, "state", "orange")}
  <2>1. c = Marked(d, "state", "orange", d.state = "UNKNOWN")
    <3> DEFINE s == Marked(d, "state", "orange", d.state = "UNKNOWN")
    <3>1. Keeps(s, d, {})
      BY <1>5a, MarkedField DEF Keeps
    <3>2. Cleaned(s)
      BY <1>5, <3>1 DEF Keeps, Cleaned, Closed, Fields, TextCells
    <3>3. Magnet(s) = s
      BY <3>2 DEF Magnet, Marked
    <3> HIDE DEF s
    <3>4. QED
      BY <1>5, <3>3 DEF Suspicions, Marked, s
  <2>2. c = d \/ c = [d EXCEPT !.marks = Paint(d.marks, "state", "orange")]
    BY <2>1 DEF Marked, Mark
  <2>3. Shaped(d)
    BY <1>5a DEF Keeps
  <2>4. QED
    BY <2>2, <2>3, MarksField DEF Keeps
<1>7. /\ c.marks = [k \in DOMAIN c.marks |-> c.marks[k]]
      /\ \A k \in DOMAIN c.marks \ DOMAIN row.marks : c.marks[k] = "green" \/ k \in {"state"} \cup row.outliers
  BY <1>5a, <1>6 DEF Paint
<1>8. Cleaned(c) /\ c.tare # NA /\ Defaults(c) /\ Shaped(c)
  <2>1. \A f \in (Weights \cup Counts \cup TextCells) \ {"renewed"} : c[f] = a[f]
    BY <1>4, <1>5a, <1>6 DEF Keeps, Fields, Weights, Counts, TextCells
  <2>2. Cleaned(c) /\ (Closed(c) <=> Closed(a))
    BY <1>2, <2>1 DEF Cleaned, Closed, TextCells
  <2>3. /\ \A f \in Weights \cup Counts : f # "renewed"
        /\ {"magnet", "tampered", "gdrNo"} \subseteq TextCells \ {"renewed"}
    BY DEF Weights, Counts, TextCells
  <2>4. Defaults(c)
    BY <1>2, <2>1, <2>2, <2>3 DEF Defaults
  <2>5. NumberIn(c.tare) = {0}
    BY <2>4 DEF Defaults, Weights
  <2>6. c.tare # NA
    BY <2>5 DEF NA, None, NumberIn
  <2>7. QED
    BY <2>2, <2>4, <2>6, <1>6 DEF Keeps
<1> HIDE DEF c
<1>9. ValidateRow(row) = out
  <2>1. Align(c) = c /\ GrossDiff(c) = c /\ NetDiff(c) = c /\ SpuriousPercent(c) = c /\ Ornaments(c) = c
    BY <1>8, CleanedPasses
  <2>2. TareNumber(c) = c
    BY <1>8, TarePass
  <2>3. QED
    BY <2>1, <2>2 DEF ValidateRow, out, c, d, b, a
<1>10. Keeps(out, c, {}) /\ out.marks = c.marks
  <2> DEFINE odd == {f \in {"gdrGross", "actGross", "tare", "gdrNet", "actNet"} :
                       \E n \in NumberIn(c[f]) : n > 5000000 \/ n < 0}
             light == UNION {{p[1], p[2]} : p \in {q \in {<<"gdrGross", "gdrNet">>, <<"actGross", "actNet">>} :
                                                     Less(c, q[1], q[2])}}
             tare == IF Cleaned(c) \/ ~\E t \in NumberIn(c.tare) : t > 0 THEN {}
                     ELSE UNION {{"tare", f} : f \in {g \in {"gdrGross", "gdrNet"} : Less(c, "tare", g)}}
             m == [k \in DOMAIN c.marks \cup odd \cup light \cup tare |->
                                   IF k \in DOMAIN c.marks THEN c.marks[k] ELSE "yellow"]
  <2>1. \A f \in Weights : NumberIn(c[f]) = {0}
    BY <1>8 DEF Defaults
  <2>2. odd = {}
    BY <2>1 DEF Weights
  <2>3. light = {}
    <3>1. ~Less(c, "gdrGross", "gdrNet") /\ ~Less(c, "actGross", "actNet")
      BY <2>1 DEF Less, Weights
    <3>2. QED
      BY <3>1
  <2>4. tare = {}
    BY <1>8
  <2>5. m = c.marks
    BY <2>2, <2>3, <2>4, <1>7
  <2> HIDE DEF m
  <2>6. out = [c EXCEPT !.marks = m]
    BY DEF Plausible, m
  <2>7. QED
    BY <2>5, <2>6, <1>8, MarksField
<1> HIDE DEF out
<1>11. /\ \A f \in (Weights \cup Counts \cup TextCells) \ {"renewed"} : out[f] = a[f]
       /\ out.renewed = b.renewed
  BY <1>4, <1>5a, <1>6, <1>10 DEF Keeps, Fields, Weights, Counts, TextCells
<1>12. (Weights \cup Counts) \cup {"magnet", "tampered", "gdrNo"} \subseteq (Weights \cup Counts \cup TextCells) \ {"renewed"}
  BY DEF Weights, Counts, TextCells
<1>13. \A f \in Weights \cup Counts : out[f] = Figure(0) \/ (out[f] = row[f] /\ NumberIn(row[f]) = {0})
  BY <1>2, <1>11, <1>12
<1>14. out.magnet \in {"OK", "TEST NOT DONE"} /\ out.tampered = "NO"
  BY <1>2, <1>11, <1>12 DEF Defaults
<1>15. ((row.renewed = "") <=> (out.renewed = "")) /\ (Closed(row) => out.gdrNo = row.gdrNo)
  BY <1>2, <1>4, <1>11, <1>12
<1>16. ClosedRowsStayReset(row, out)
  BY <1>7, <1>10, <1>13, <1>14, <1>15 DEF ClosedRowsStayReset
<1>17. Cleaned(out) /\ (Closed(out) <=> Closed(a))
  <2>1. out.status = a.status /\ out.remark = a.remark
    BY <1>11 DEF TextCells
  <2>2. QED
    BY <2>1, <1>2 DEF Cleaned, Closed
<1>18. Defaults(out)
  <2>1. \A f \in Weights \cup Counts : out[f] = a[f]
    BY <1>11, <1>12
  <2>2. out.magnet = a.magnet /\ out.tampered = a.tampered /\ out.gdrNo = a.gdrNo
    BY <1>11, <1>12
  <2>3. QED
    BY <2>1, <2>2, <1>2, <1>17 DEF Defaults
<1>19. Shaped(out) /\ out.renewed # "text"
  BY <1>4, <1>10, <1>11 DEF Keeps
<1>20. QED
  BY <1>9, <1>16, <1>17, <1>18, <1>19

-----------------------------------------------------------------------------
LEMMA FigureNumber ==
  ASSUME NEW c, IsFigure(c)
  PROVE  c.n \in Int /\ c.k \in {"none", "NA", "num", "formula", "uncached"}
<1>1. NA.k = "NA" /\ NA.n = 0
  BY DEF NA, None
<1>2. None.k = "none" /\ None.n = 0
  BY DEF None
<1>3. ASSUME NEW e \in [k : {"num"}, n : Int, f : {""}]
      PROVE  e.k = "num" /\ e.n \in Int
  OBVIOUS
<1>4. ASSUME NEW e \in [k : {"formula"}, n : Int, f : Formulas]
      PROVE  e.k = "formula" /\ e.n \in Int
  OBVIOUS
<1>5. ASSUME NEW e \in [k : {"uncached"}, n : {0}, f : Formulas]
      PROVE  e.k = "uncached" /\ e.n \in Int
  OBVIOUS
<1>6. CASE c \in {None, NA}
  BY <1>1, <1>2, <1>6
<1>7. CASE c \in [k : {"num"}, n : Int, f : {""}]
  BY <1>3, <1>7
<1>8. CASE c \in [k : {"formula"}, n : Int, f : Formulas]
  BY <1>4, <1>8
<1>9. CASE c \in [k : {"uncached"}, n : {0}, f : Formulas]
  BY <1>5, <1>9
<1>10. QED
  BY <1>6, <1>7, <1>8, <1>9 DEF IsFigure

LEMMA FigureFormula ==
  ASSUME NEW c, IsFigure(c), c.k = "formula"
  PROVE  c.f \in Formulas
<1>1. NA.k = "NA"
  BY DEF NA, None
<1>2. None.k = "none"
  BY DEF None
<1>3. CASE c \in {None, NA}
  BY <1>1, <1>2, <1>3
<1>4. CASE c \in [k : {"num"}, n : Int, f : {""}]
  BY <1>4
<1>5. CASE c \in [k : {"formula"}, n : Int, f : Formulas]
  BY <1>5
<1>6. CASE c \in [k : {"uncached"}, n : {0}, f : Formulas]
  BY <1>6
<1>7. QED
  BY <1>3, <1>4, <1>5, <1>6 DEF IsFigure

(* What Excel computes for a cell. *)
LEMMA EvaluatedIs ==
  ASSUME NEW o, NEW c
  PROVE  /\ c.k \in {"formula", "uncached"} /\ c.f # "other" => Evaluated(o, c) = Calculated(c.f, Gives(o, c.f))
         /\ ~(c.k \in {"formula", "uncached"} /\ c.f # "other") => Evaluated(o, c) = c
         /\ \A f, v : Calculated(f, v).k = "formula" /\ Calculated(f, v).f = f
                     /\ Cached(Calculated(f, v)) = {v} /\ Amount(Calculated(f, v)) = v
BY DEF Evaluated, Calculated, Cached, Amount

LEMMA UncomputedIs ==
  ASSUME NEW due \in Formulas
  PROVE  IsFigure(Uncomputed(due)) /\ Uncomputed(due).k = "uncached" /\ Uncomputed(due).f = due
BY DEF Uncomputed, IsFigure

(* Excel computes a formula the same again. *)
LEMMA EvaluatedTwice ==
  ASSUME NEW o, NEW c
  PROVE  Evaluated(o, Evaluated(o, c)) = Evaluated(o, c)
<1>1. CASE c.k \in {"formula", "uncached"} /\ c.f # "other"
  <2> DEFINE v == Calculated(c.f, Gives(o, c.f))
  <2>1. Evaluated(o, c) = v /\ v.k = "formula" /\ v.f = c.f
    BY <1>1, EvaluatedIs
  <2> HIDE DEF v
  <2>2. Evaluated(o, v) = Calculated(v.f, Gives(o, v.f))
    BY <1>1, <2>1, EvaluatedIs
  <2>3. QED
    BY <2>1, <2>2 DEF v
<1>2. CASE ~(c.k \in {"formula", "uncached"} /\ c.f # "other")
  BY <1>2, EvaluatedIs
<1>3. QED
  BY <1>1, <1>2

LEMMA TenthsNear ==
  ASSUME NEW a \in Int, NEW b \in Int, ~(Abs(Tenth(a) - Tenth(b)) > 50)
  PROVE  Abs(a - b) <= 100
BY DEF Abs, Tenth

LEMMA TenthItself ==
  ASSUME NEW a \in Int
  PROVE  ~(Abs(Tenth(a) - Tenth(a)) > 50)
BY DEF Abs, Tenth

(* A difference that has been looked at is not replaced when it is looked at  *)
(* again as Excel saved it.                                                  *)
LEMMA LookedAt ==
  ASSUME NEW o, NEW c, IsFigure(c), c.k # "uncached", NEW want \in Int, NEW due, due # "other",
         Gives(o, due) = want,
         NEW d, d = IF Off(c, want) THEN Uncomputed(due) ELSE c,
         d = c /\ c.k = "formula" => c.f \in {due, "other"} \/ Evaluated(o, c) = c
  PROVE  ~Off(Evaluated(o, d), want) /\ Abs(Amount(Evaluated(o, d)) - want) <= 100
<1> DEFINE v == Calculated(due, want)
<1>1. Cached(v) = {want} /\ v.k = "formula" /\ Amount(v) = want
  BY EvaluatedIs
<1> HIDE DEF v
<1>2. ~Off(v, want)
  BY <1>1, TenthItself DEF Off
<1>20. Abs(Amount(v) - want) <= 100
  BY <1>1 DEF Abs
<1>3. CASE Off(c, want)
  <2>1. Uncomputed(due).k = "uncached" /\ Uncomputed(due).f = due
    BY DEF Uncomputed
  <2>2. Evaluated(o, d) = v
    BY <1>3, <2>1, EvaluatedIs DEF v
  <2>3. QED
    BY <1>2, <1>20, <2>2
<1>4. CASE ~Off(c, want)
  <2>1. d = c /\ Cached(c) # {}
    BY <1>4 DEF Off
  <2>2. Evaluated(o, c) = c \/ Evaluated(o, c) = v
    <3>1. CASE c.k = "formula"
      BY <2>1, <3>1, EvaluatedIs DEF v
    <3>2. CASE c.k # "formula"
      BY <3>2, EvaluatedIs
    <3>3. QED
      BY <3>1, <3>2
  <2>3. Abs(Amount(c) - want) <= 100
    <3>1. c.k \in {"num", "formula"} /\ Cached(c) = {c.n} /\ Amount(c) = c.n
      BY <2>1 DEF Cached, Amount
    <3>2. c.n \in Int
      BY FigureNumber
    <3>3. ~(Abs(Tenth(want) - Tenth(c.n)) > 50)
      BY <1>4, <3>1 DEF Off
    <3>4. Abs(want - c.n) <= 100
      BY <3>2, <3>3, TenthsNear
    <3>5. Abs(c.n - want) <= 100
      BY <3>2, <3>4 DEF Abs
    <3>6. QED
      BY <3>1, <3>5
  <2>4. QED
    BY <1>2, <1>20, <1>4, <2>1, <2>2, <2>3
<1>5. QED
  BY <1>3, <1>4

-----------------------------------------------------------------------------
(* A row that is neither closed nor top-up: what it is when its weights are   *)
(* aligned, and what the passes after that make of it.                       *)
Weighed(row) == Align(Suspicions(DateOutliers(Dates(row))))

LEMMA WeighedIs ==
  ASSUME NEW row, Shaped(row), ~Cleaned(row)
  PROVE  /\ Keeps(Weighed(row), row, {"renewed", "actGross", "actNet", "remark"})
         /\ ~Cleaned(Weighed(row))
         /\ Weighed(row).renewed = IF row.taf = "POA" THEN "" ELSE IF row.renewed = "text" THEN "date" ELSE row.renewed
         /\ row.taf # "POA" => /\ Weighed(row).actGross = row.actGross /\ Weighed(row).actNet = row.actNet
                               /\ Weighed(row).remark = row.remark
         /\ row.taf = "POA" =>
              /\ Weighed(row).actGross = IF Close(row, "gdrGross", "actGross") THEN row.gdrGross ELSE row.actGross
              /\ Weighed(row).actNet = IF Close(row, "gdrNet", "actNet") THEN row.gdrNet ELSE row.actNet
              /\ Weighed(row).remark =
                   IF ~Close(row, "gdrGross", "actGross") /\ ~Close(row, "gdrNet", "actNet") THEN row.remark
                   ELSE Amended(row.remark, (IF Close(row, "gdrGross", "actGross") THEN {"gross"} ELSE {})
                                              \cup (IF Close(row, "gdrNet", "actNet") THEN {"net"} ELSE {}))
<1> DEFINE a == Dates(row)
           d == DateOutliers(a)
           b == Suspicions(d)
           z == Align(b)
<1>2. Keeps(a, row, {"renewed"}) /\ a.renewed = IF row.taf = "POA" THEN "" ELSE IF row.renewed = "text" THEN "date" ELSE row.renewed
  BY DatesPass
<1> HIDE DEF a
<1>3. Keeps(b, a, {})
  <2>1. Keeps(d, a, {})
    BY <1>2, DateOutliersPass DEF Keeps
  <2> HIDE DEF d
  <2>2. Keeps(b, d, {})
    BY <2>1, SuspicionsPass DEF Keeps
  <2>3. QED
    BY <2>1, <2>2 DEF Keeps
<1> HIDE DEF b
<1>4. {"renewed", "actGross", "actNet", "remark", "gdrGross", "gdrNet", "status", "taf"} \subseteq Fields \ {"marks"}
  BY DEF Fields, Weights, TextCells
<1>5. /\ Keeps(b, row, {"renewed"}) /\ b.renewed = a.renewed
      /\ \A f \in {"actGross", "actNet", "remark", "gdrGross", "gdrNet", "status", "taf"} : b[f] = row[f]
  BY <1>2, <1>3, <1>4 DEF Keeps
<1>6. /\ ~Cleaned(b)
      /\ Close(b, "gdrGross", "actGross") <=> Close(row, "gdrGross", "actGross")
      /\ Close(b, "gdrNet", "actNet") <=> Close(row, "gdrNet", "actNet")
  BY <1>5 DEF Cleaned, Closed, Close
<1>7. /\ Keeps(z, b, {"actGross", "actNet", "remark"})
      /\ b.taf # "POA" => z = b
      /\ b.taf = "POA" =>
           /\ z.actGross = IF Close(b, "gdrGross", "actGross") THEN b.gdrGross ELSE b.actGross
           /\ z.actNet = IF Close(b, "gdrNet", "actNet") THEN b.gdrNet ELSE b.actNet
           /\ z.remark = IF ~Close(b, "gdrGross", "actGross") /\ ~Close(b, "gdrNet", "actNet") THEN b.remark
                         ELSE Amended(b.remark, (IF Close(b, "gdrGross", "actGross") THEN {"gross"} ELSE {})
                                                    \cup (IF Close(b, "gdrNet", "actNet") THEN {"net"} ELSE {}))
  <2>1. Shaped(b)
    BY <1>5 DEF Keeps
  <2>2. QED
    BY <2>1, <1>6, AlignPass
<1> HIDE DEF z
<1>8. Keeps(z, row, {"renewed", "actGross", "actNet", "remark"}) /\ z.renewed = a.renewed
  BY <1>4, <1>5, <1>7 DEF Keeps
<1>9. row.taf # "POA" => z.actGross = row.actGross /\ z.actNet = row.actNet /\ z.remark = row.remark
  BY <1>5, <1>7
<1>10. row.taf = "POA" =>
              /\ z.actGross = IF Close(row, "gdrGross", "actGross") THEN row.gdrGross ELSE row.actGross
              /\ z.actNet = IF Close(row, "gdrNet", "actNet") THEN row.gdrNet ELSE row.actNet
              /\ z.remark =
                   IF ~Close(row, "gdrGross", "actGross") /\ ~Close(row, "gdrNet", "actNet") THEN row.remark
                   ELSE Amended(row.remark, (IF Close(row, "gdrGross", "actGross") THEN {"gross"} ELSE {})
                                              \cup (IF Close(row, "gdrNet", "actNet") THEN {"net"} ELSE {}))
  <2>1. \A f \in {"actGross", "actNet", "remark", "gdrGross", "gdrNet", "taf"} : b[f] = row[f]
    BY <1>5
  <2>2. b.actGross = row.actGross /\ b.actNet = row.actNet /\ b.remark = row.remark
        /\ b.gdrGross = row.gdrGross /\ b.gdrNet = row.gdrNet /\ b.taf = row.taf
    BY <2>1
  <2> HIDE <2>1
  <2>3. QED
    BY <2>2, <1>6, <1>7, ZenonT(30)
<1>11. ~Cleaned(z)
  <2>1. \A r, fixed : ~TopUp(r) => ~TopUp(Amended(r, fixed))
    BY DEF TopUp, Amended
  <2>2. ~TopUp(row.remark)
    BY DEF Cleaned
  <2>3. ~TopUp(z.remark)
    BY <2>1, <2>2, <1>9, <1>10
  <2>4. z.status = row.status
    BY <1>4, <1>8 DEF Keeps
  <2>5. QED
    BY <2>3, <2>4 DEF Cleaned, Closed
<1>12. Weighed(row) = z
  BY DEF Weighed, z, b, d, a
<1>13. QED
  BY <1>2, <1>8, <1>9, <1>10, <1>11, <1>12

LastPasses(z) == Plausible(TareNumber(Ornaments(SpuriousPercent(NetDiff(GrossDiff(z))))))

LEMMA LastPassesAre ==
  ASSUME NEW z, Shaped(z), ~Cleaned(z)
  PROVE  /\ Keeps(LastPasses(z), z, {"grossDiff", "netDiff", "spurPct", "ornDiff", "tare"})
         /\ LastPasses(z).grossDiff =
              IF ByWeights(z) /\ Wrong(z, "grossDiff", "gdrGross", "actGross") THEN Uncomputed("gdrGross-actGross")
              ELSE IF ByTare(z) /\ Wrong(z, "grossDiff", "gdrGross", "tare") THEN Uncomputed("gdrGross-tare")
              ELSE z.grossDiff
         /\ LastPasses(z).netDiff =
              IF ByWeights(z) /\ Wrong(z, "netDiff", "gdrNet", "actNet") THEN Uncomputed("gdrNet-actNet")
              ELSE IF ByNothing(z) /\ NetIsOff(z) THEN Uncomputed("0") ELSE z.netDiff
         /\ LastPasses(z).spurPct = IF PercentIsOff(z) THEN Uncomputed("percent") ELSE z.spurPct
         /\ LastPasses(z).ornDiff =
              IF ~OrnIsOff(z) THEN z.ornDiff
              ELSE IF z.taf = "TAF" THEN Figure(0) ELSE Uncomputed("ornActual-ornGdr")
         /\ LastPasses(z).tare = IF z.tare = NA THEN Figure(0) ELSE z.tare
<1> DEFINE a == GrossDiff(z)
           b == NetDiff(a)
           c == SpuriousPercent(b)
           d == Ornaments(c)
           e == TareNumber(d)
           out == Plausible(e)
<1> DEFINE Read == {"status", "taf", "remark", "gdrGross", "actGross", "tare", "gdrNet", "actNet", "spurWeight",
                    "grossDiff", "netDiff", "spurPct", "ornGdr", "ornActual", "ornDiff"}
<1>0. Read \subseteq Fields \ {"marks"}
  BY DEF Fields, Weights, Counts, TextCells
<1>1. /\ Keeps(a, z, {"grossDiff"})
      /\ a.grossDiff = IF ByWeights(z) /\ Wrong(z, "grossDiff", "gdrGross", "actGross") THEN Uncomputed("gdrGross-actGross")
                       ELSE IF ByTare(z) /\ Wrong(z, "grossDiff", "gdrGross", "tare") THEN Uncomputed("gdrGross-tare")
                       ELSE z.grossDiff
  BY GrossDiffPass
<1> HIDE DEF a
<1>2. \A f \in Read \ {"grossDiff"} : a[f] = z[f]
  BY <1>0, <1>1 DEF Keeps
<1>3. /\ ~Cleaned(a)
      /\ ByWeights(a) <=> ByWeights(z)
      /\ ByNothing(a) <=> ByNothing(z)
      /\ Wrong(a, "netDiff", "gdrNet", "actNet") <=> Wrong(z, "netDiff", "gdrNet", "actNet")
      /\ NetIsOff(a) <=> NetIsOff(z)
      /\ a.netDiff = z.netDiff
  BY <1>2 DEF Cleaned, Closed, ByWeights, ByNothing, Wrong, NetIsOff
<1>4. /\ Keeps(b, a, {"netDiff"})
      /\ b.netDiff = IF ByWeights(z) /\ Wrong(z, "netDiff", "gdrNet", "actNet") THEN Uncomputed("gdrNet-actNet")
                     ELSE IF ByNothing(z) /\ NetIsOff(z) THEN Uncomputed("0") ELSE z.netDiff
  <2>1. Shaped(a)
    BY <1>1 DEF Keeps
  <2>2. QED
    BY <2>1, <1>3, NetDiffPass
<1> HIDE DEF b
<1>5. \A f \in Read \ {"grossDiff", "netDiff"} : b[f] = z[f]
  BY <1>0, <1>2, <1>4 DEF Keeps
<1>6. ~Cleaned(b) /\ (PercentIsOff(b) <=> PercentIsOff(z)) /\ b.spurPct = z.spurPct
  BY <1>5 DEF Cleaned, Closed, PercentIsOff
<1>7. Keeps(c, b, {"spurPct"}) /\ c.spurPct = IF PercentIsOff(z) THEN Uncomputed("percent") ELSE z.spurPct
  <2>1. Shaped(b)
    BY <1>4 DEF Keeps
  <2>2. QED
    BY <2>1, <1>6, PercentPass
<1> HIDE DEF c
<1>8. \A f \in Read \ {"grossDiff", "netDiff", "spurPct"} : c[f] = z[f]
  BY <1>0, <1>5, <1>7 DEF Keeps
<1>9. ~Cleaned(c) /\ (OrnIsOff(c) <=> OrnIsOff(z)) /\ c.ornDiff = z.ornDiff /\ c.taf = z.taf
  BY <1>8 DEF Cleaned, Closed, OrnIsOff
<1>10. /\ Keeps(d, c, {"ornDiff"})
       /\ d.ornDiff = IF ~OrnIsOff(z) THEN z.ornDiff
                      ELSE IF z.taf = "TAF" THEN Figure(0) ELSE Uncomputed("ornActual-ornGdr")
  <2>1. Shaped(c)
    BY <1>7 DEF Keeps
  <2>2. QED
    BY <2>1, <1>9, OrnamentsPass
<1> HIDE DEF d
<1>11. d.tare = z.tare
  BY <1>0, <1>8, <1>10 DEF Keeps
<1>12. Keeps(e, d, {"tare"}) /\ e.tare = IF z.tare = NA THEN Figure(0) ELSE z.tare
  <2>1. Shaped(d)
    BY <1>10 DEF Keeps
  <2>2. QED
    BY <2>1, <1>11, TarePass
<1> HIDE DEF e
<1>13. Keeps(out, e, {})
  <2>1. Shaped(e)
    BY <1>12 DEF Keeps
  <2>2. QED
    BY <2>1, PlausiblePass
<1> HIDE DEF out
<1>14. LastPasses(z) = out
  BY DEF LastPasses, out, e, d, c, b, a
<1>15. Keeps(out, z, {"grossDiff", "netDiff", "spurPct", "ornDiff", "tare"})
  BY <1>1, <1>4, <1>7, <1>10, <1>12, <1>13 DEF Keeps
<1>16. /\ out.grossDiff = a.grossDiff /\ out.netDiff = b.netDiff /\ out.spurPct = c.spurPct
       /\ out.ornDiff = d.ornDiff /\ out.tare = e.tare
  BY <1>0, <1>4, <1>7, <1>10, <1>12, <1>13 DEF Keeps
<1>17. QED
  BY <1>1, <1>4, <1>7, <1>10, <1>12, <1>14, <1>15, <1>16

(* What becomes of such a row, by the cells it ends with. *)
LEMMA OpenRow ==
  ASSUME NEW row, Shaped(row), ~Cleaned(row), NEW out, out = ValidateRow(row)
  PROVE  /\ Keeps(out, row, {"renewed", "actGross", "actNet", "remark", "tare"} \cup Recalculates)
         /\ ~Cleaned(out)
         /\ out.renewed = IF row.taf = "POA" THEN "" ELSE IF row.renewed = "text" THEN "date" ELSE row.renewed
         /\ row.tare # NA => out.tare = row.tare
         /\ row.taf # "POA" => out.actGross = row.actGross /\ out.actNet = row.actNet /\ out.remark = row.remark
         /\ row.taf = "POA" =>
              /\ out.actGross = IF Close(row, "gdrGross", "actGross") THEN row.gdrGross ELSE row.actGross
              /\ out.actNet = IF Close(row, "gdrNet", "actNet") THEN row.gdrNet ELSE row.actNet
              /\ out.remark =
                   IF ~Close(row, "gdrGross", "actGross") /\ ~Close(row, "gdrNet", "actNet") THEN row.remark
                   ELSE Amended(row.remark, (IF Close(row, "gdrGross", "actGross") THEN {"gross"} ELSE {})
                                              \cup (IF Close(row, "gdrNet", "actNet") THEN {"net"} ELSE {}))
         /\ ByWeights(row) =>
              /\ out.grossDiff = IF /\ NumberIn(out.gdrGross) # {} /\ NumberIn(out.actGross) # {}
                                    /\ Off(row.grossDiff, out.gdrGross.n - out.actGross.n)
                                 THEN Uncomputed("gdrGross-actGross") ELSE row.grossDiff
              /\ out.netDiff = IF /\ NumberIn(out.gdrNet) # {} /\ NumberIn(out.actNet) # {}
                                  /\ Off(row.netDiff, out.gdrNet.n - out.actNet.n)
                               THEN Uncomputed("gdrNet-actNet") ELSE row.netDiff
         /\ ByTare(row) =>
              out.grossDiff = IF Wrong(row, "grossDiff", "gdrGross", "tare")
                              THEN Uncomputed("gdrGross-tare") ELSE row.grossDiff
         /\ ByNothing(row) =>
              out.netDiff = IF NetIsOff(row) THEN Uncomputed("0") ELSE row.netDiff
         /\ ~ByWeights(row) /\ ~ByTare(row) => out.grossDiff = row.grossDiff
         /\ ~ByWeights(row) /\ ~ByNothing(row) => out.netDiff = row.netDiff
         /\ out.spurPct = IF PercentIsOff(row) THEN Uncomputed("percent") ELSE row.spurPct
         /\ out.ornDiff = IF ~OrnIsOff(row) THEN row.ornDiff
                          ELSE IF row.taf = "TAF" THEN Figure(0) ELSE Uncomputed("ornActual-ornGdr")
<1> DEFINE z == Weighed(row)
           Same == {"status", "taf", "gdrGross", "tare", "gdrNet", "spurWeight",
                    "grossDiff", "netDiff", "spurPct", "ornGdr", "ornActual", "ornDiff"}
           Held == {"status", "taf", "gdrGross", "actGross", "gdrNet", "actNet", "renewed", "remark"}
<1>0. Same \cup Held \subseteq Fields \ {"marks"}
  BY DEF Fields, Weights, Counts, TextCells
<1>1. Reset(row) = row
  BY DEF Reset
<1>2. out = LastPasses(z)
  BY <1>1 DEF ValidateRow, LastPasses, Weighed
<1>3. /\ Keeps(z, row, {"renewed", "actGross", "actNet", "remark"})
      /\ ~Cleaned(z)
  BY WeighedIs
<1>4. /\ z.renewed = IF row.taf = "POA" THEN "" ELSE IF row.renewed = "text" THEN "date" ELSE row.renewed
      /\ row.taf # "POA" => z.actGross = row.actGross /\ z.actNet = row.actNet /\ z.remark = row.remark
      /\ row.taf = "POA" =>
              /\ z.actGross = IF Close(row, "gdrGross", "actGross") THEN row.gdrGross ELSE row.actGross
              /\ z.actNet = IF Close(row, "gdrNet", "actNet") THEN row.gdrNet ELSE row.actNet
              /\ z.remark =
                   IF ~Close(row, "gdrGross", "actGross") /\ ~Close(row, "gdrNet", "actNet") THEN row.remark
                   ELSE Amended(row.remark, (IF Close(row, "gdrGross", "actGross") THEN {"gross"} ELSE {})
                                              \cup (IF Close(row, "gdrNet", "actNet") THEN {"net"} ELSE {}))
  BY WeighedIs
<1> HIDE DEF z
<1>5. Shaped(z)
  BY <1>3 DEF Keeps
<1>6. \A f \in Same : z[f] = row[f]
  BY <1>0, <1>3 DEF Keeps
<1>7. Keeps(out, z, {"grossDiff", "netDiff", "spurPct", "ornDiff", "tare"})
  BY <1>2, <1>3, <1>5, LastPassesAre
<1>8. \A f \in Held : out[f] = z[f]
  BY <1>0, <1>7 DEF Keeps
<1>9. Keeps(out, row, {"renewed", "actGross", "actNet", "remark", "tare"} \cup Recalculates)
  BY <1>3, <1>7 DEF Keeps, Recalculates
<1>10. ~Cleaned(out)
  BY <1>3, <1>8 DEF Cleaned, Closed
<1>11. out.renewed = z.renewed /\ out.actGross = z.actGross /\ out.actNet = z.actNet /\ out.remark = z.remark
  BY <1>8
<1>12. /\ ByWeights(z) <=> ByWeights(row)
       /\ ByTare(z) <=> ByTare(row)
       /\ ByNothing(z) <=> ByNothing(row)
       /\ Wrong(z, "grossDiff", "gdrGross", "tare") <=> Wrong(row, "grossDiff", "gdrGross", "tare")
       /\ NetIsOff(z) <=> NetIsOff(row)
       /\ PercentIsOff(z) <=> PercentIsOff(row)
       /\ OrnIsOff(z) <=> OrnIsOff(row)
       /\ z.taf = row.taf /\ z.tare = row.tare /\ z.grossDiff = row.grossDiff /\ z.netDiff = row.netDiff
       /\ z.spurPct = row.spurPct /\ z.ornDiff = row.ornDiff
  BY <1>6 DEF ByWeights, ByTare, ByNothing, Wrong, NetIsOff, PercentIsOff, OrnIsOff
<1>13. /\ Wrong(z, "grossDiff", "gdrGross", "actGross") <=>
            /\ NumberIn(out.gdrGross) # {} /\ NumberIn(out.actGross) # {}
            /\ Off(row.grossDiff, out.gdrGross.n - out.actGross.n)
       /\ Wrong(z, "netDiff", "gdrNet", "actNet") <=>
            /\ NumberIn(out.gdrNet) # {} /\ NumberIn(out.actNet) # {}
            /\ Off(row.netDiff, out.gdrNet.n - out.actNet.n)
  BY <1>8, <1>12 DEF Wrong
<1>14. ~(ByWeights(row) /\ ByTare(row)) /\ ~(ByWeights(row) /\ ByNothing(row))
  BY DEF ByWeights, ByTare, ByNothing
<1>15. /\ ByWeights(row) =>
              /\ out.grossDiff = IF /\ NumberIn(out.gdrGross) # {} /\ NumberIn(out.actGross) # {}
                                    /\ Off(row.grossDiff, out.gdrGross.n - out.actGross.n)
                                 THEN Uncomputed("gdrGross-actGross") ELSE row.grossDiff
              /\ out.netDiff = IF /\ NumberIn(out.gdrNet) # {} /\ NumberIn(out.actNet) # {}
                                  /\ Off(row.netDiff, out.gdrNet.n - out.actNet.n)
                               THEN Uncomputed("gdrNet-actNet") ELSE row.netDiff
       /\ ByTare(row) =>
              out.grossDiff = IF Wrong(row, "grossDiff", "gdrGross", "tare")
                              THEN Uncomputed("gdrGross-tare") ELSE row.grossDiff
       /\ ByNothing(row) =>
              out.netDiff = IF NetIsOff(row) THEN Uncomputed("0") ELSE row.netDiff
       /\ ~ByWeights(row) /\ ~ByTare(row) => out.grossDiff = row.grossDiff
       /\ ~ByWeights(row) /\ ~ByNothing(row) => out.netDiff = row.netDiff
  <2>1. /\ out.grossDiff =
              IF ByWeights(z) /\ Wrong(z, "grossDiff", "gdrGross", "actGross") THEN Uncomputed("gdrGross-actGross")
              ELSE IF ByTare(z) /\ Wrong(z, "grossDiff", "gdrGross", "tare") THEN Uncomputed("gdrGross-tare")
              ELSE z.grossDiff
        /\ out.netDiff =
              IF ByWeights(z) /\ Wrong(z, "netDiff", "gdrNet", "actNet") THEN Uncomputed("gdrNet-actNet")
              ELSE IF ByNothing(z) /\ NetIsOff(z) THEN Uncomputed("0") ELSE z.netDiff
    BY <1>2, <1>3, <1>5, LastPassesAre
  <2>2. QED
    BY <2>1, <1>12, <1>13, <1>14
<1>16. /\ out.spurPct = IF PercentIsOff(row) THEN Uncomputed("percent") ELSE row.spurPct
       /\ out.ornDiff = IF ~OrnIsOff(row) THEN row.ornDiff
                          ELSE IF row.taf = "TAF" THEN Figure(0) ELSE Uncomputed("ornActual-ornGdr")
       /\ row.tare # NA => out.tare = row.tare
  BY <1>2, <1>3, <1>5, <1>12, LastPassesAre
<1>17. QED
  BY <1>4, <1>9, <1>10, <1>11, <1>15, <1>16

-----------------------------------------------------------------------------
(* The difference Excel shows is that of the weights beside it. *)
LEMMA Shown ==
  ASSUME NEW out, Shaped(out), NEW f \in Recalculates
  PROVE  Recalculated(out)[f] = Evaluated(out, out[f])
<1>1. f \in Fields
  BY DEF Fields, Counts, Recalculates
<1>2. QED
  BY <1>1 DEF Recalculated, Shaped

LEMMA NumberOf ==
  ASSUME NEW c
  PROVE  /\ \A m \in NumberIn(c) : m = c.n /\ Amount(c) = c.n /\ c.k = "num"
         /\ NumberIn(c) # {} <=> c.k = "num"
BY DEF NumberIn, Amount

LEMMA DifferenceShown ==
  ASSUME NEW out, Shaped(out), NEW f \in Recalculates, NEW c, IsFigure(c), NEW g, IsFigure(g), NEW h, IsFigure(h),
         NEW due, due # "other", Gives(out, due) = Amount(g) - Amount(h),
         out[f] = IF NumberIn(g) # {} /\ NumberIn(h) # {} /\ Off(c, g.n - h.n) THEN Uncomputed(due) ELSE c,
         out[f] = c /\ c.k = "formula" => c.f \in {due, "other"} \/ Evaluated(out, c) = c,
         NEW m \in NumberIn(g), NEW n \in NumberIn(h), out[f].k # "uncached" \/ c.k # "uncached"
  PROVE  /\ ~Off(Recalculated(out)[f], m - n)
         /\ Abs(Amount(Recalculated(out)[f]) - (m - n)) <= 100
<1> DEFINE want == m - n
           d == out[f]
<1>1. /\ m = g.n /\ Amount(g) = m /\ n = h.n /\ Amount(h) = n
      /\ NumberIn(g) # {} /\ NumberIn(h) # {}
  BY NumberOf
<1>2. want \in Int
  <2>1. m \in Int /\ n \in Int
    BY <1>1, FigureNumber
  <2>2. QED
    BY <2>1
<1>3. d = IF Off(c, want) THEN Uncomputed(due) ELSE c
  BY <1>1
<1>4. c.k # "uncached"
  <2>1. ASSUME c.k = "uncached" PROVE ~Off(c, want)
    BY <2>1 DEF Off, Cached
  <2>2. QED
    BY <1>3, <2>1
<1>5. Gives(out, due) = want
  BY <1>1
<1>6. Recalculated(out)[f] = Evaluated(out, d)
  BY Shown
<1>7. d = c /\ c.k = "formula" => c.f \in {due, "other"} \/ Evaluated(out, c) = c
  OBVIOUS
<1> HIDE DEF want, d
<1>8. ~Off(Evaluated(out, d), want) /\ Abs(Amount(Evaluated(out, d)) - want) <= 100
  BY <1>2, <1>3, <1>4, <1>5, <1>7, LookedAt
<1>9. QED
  BY <1>6, <1>8 DEF want

(* The weights of an open row, when it began as one of a sheet. *)
LEMMA OpenFigures ==
  ASSUME NEW row, IsRow(row), ~Cleaned(row), NEW out, out = ValidateRow(row)
  PROVE  /\ Shaped(out)
         /\ out.gdrGross = row.gdrGross /\ out.gdrNet = row.gdrNet /\ out.spurWeight = row.spurWeight
         /\ out.ornGdr = row.ornGdr /\ out.ornActual = row.ornActual
         /\ out.status = row.status /\ out.taf = row.taf
         /\ \A c \in {out.gdrGross, out.actGross, out.gdrNet, out.actNet, out.spurWeight, out.ornGdr, out.ornActual} :
              IsFigure(c)
         /\ \A f \in Recalculates : IsFigure(row[f])
         /\ IsFigure(row.tare)
<1>0. Shaped(row) /\ \A f \in Weights \cup Counts : IsFigure(row[f])
  BY DEF IsRow, Shaped, Fields
<1>1. /\ Keeps(out, row, {"renewed", "actGross", "actNet", "remark", "tare"} \cup Recalculates)
      /\ out.actGross \in {row.gdrGross, row.actGross}
      /\ out.actNet \in {row.gdrNet, row.actNet}
  <2>1. /\ Keeps(out, row, {"renewed", "actGross", "actNet", "remark", "tare"} \cup Recalculates)
        /\ row.taf # "POA" => out.actGross = row.actGross /\ out.actNet = row.actNet
        /\ row.taf = "POA" =>
             /\ out.actGross = IF Close(row, "gdrGross", "actGross") THEN row.gdrGross ELSE row.actGross
             /\ out.actNet = IF Close(row, "gdrNet", "actNet") THEN row.gdrNet ELSE row.actNet
    BY <1>0, OpenRow
  <2>2. QED
    BY <2>1
<1>2. \A f \in {"gdrGross", "gdrNet", "spurWeight", "ornGdr", "ornActual", "status", "taf"} : out[f] = row[f]
  <2>1. \A f \in {"gdrGross", "gdrNet", "spurWeight", "ornGdr", "ornActual", "status", "taf"} :
          f \in Fields \ (({"renewed", "actGross", "actNet", "remark", "tare"} \cup Recalculates) \cup {"marks"})
    BY DEF Fields, Weights, Counts, TextCells, Recalculates
  <2>2. QED
    BY <1>1, <2>1 DEF Keeps
<1>3. /\ IsFigure(row.gdrGross) /\ IsFigure(row.actGross) /\ IsFigure(row.gdrNet) /\ IsFigure(row.actNet)
      /\ IsFigure(row.spurWeight) /\ IsFigure(row.tare) /\ IsFigure(row.ornGdr) /\ IsFigure(row.ornActual)
      /\ \A f \in Recalculates : IsFigure(row[f])
  BY <1>0 DEF Weights, Counts, Recalculates
<1>4. QED
  BY <1>1, <1>2, <1>3 DEF Keeps

(* On a POA row, and what a remark that is gone had named. *)
LEMMA OpenDifferences ==
  ASSUME NEW row, IsRow(row), NEW out, out = ValidateRow(row)
  PROVE  DifferencesAgree(row, out)
<1> SUFFICES ASSUME row.taf = "POA", ~Cleaned(row), OthersAreFresh(row, out)
             PROVE  DifferencesAgree(row, out)
  BY DEF DifferencesAgree
<1> DEFINE agrees(f, a, b) == \A m \in NumberIn(out[a]), n \in NumberIn(out[b]) :
                                out[f].k # "uncached" \/ row[f].k # "uncached" =>
                                  Abs(Amount(Recalculated(out)[f]) - (m - n)) <= 100
           named(r, w) == r.remark \in {w, "both"}
           fixed == (IF Close(row, "gdrGross", "actGross") THEN {"gross"} ELSE {})
                      \cup (IF Close(row, "gdrNet", "actNet") THEN {"net"} ELSE {})
<1>0. Shaped(row) /\ ByWeights(row)
  BY DEF IsRow, Shaped, Fields, ByWeights
<1>1. /\ Shaped(out) /\ out.gdrGross = row.gdrGross /\ out.gdrNet = row.gdrNet
      /\ IsFigure(out.gdrGross) /\ IsFigure(out.actGross) /\ IsFigure(out.gdrNet) /\ IsFigure(out.actNet)
      /\ IsFigure(row.grossDiff) /\ IsFigure(row.netDiff)
  BY OpenFigures DEF Recalculates
<1>2. /\ out.grossDiff = IF /\ NumberIn(out.gdrGross) # {} /\ NumberIn(out.actGross) # {}
                             /\ Off(row.grossDiff, out.gdrGross.n - out.actGross.n)
                          THEN Uncomputed("gdrGross-actGross") ELSE row.grossDiff
      /\ out.netDiff = IF /\ NumberIn(out.gdrNet) # {} /\ NumberIn(out.actNet) # {}
                           /\ Off(row.netDiff, out.gdrNet.n - out.actNet.n)
                        THEN Uncomputed("gdrNet-actNet") ELSE row.netDiff
  BY <1>0, OpenRow
<1>3. /\ Due(row, "grossDiff") = "gdrGross-actGross" /\ Due(row, "netDiff") = "gdrNet-actNet"
      /\ Gives(out, "gdrGross-actGross") = Amount(out.gdrGross) - Amount(out.actGross)
      /\ Gives(out, "gdrNet-actNet") = Amount(out.gdrNet) - Amount(out.actNet)
  BY DEF Due, Gives
<1>4. /\ out.grossDiff = row.grossDiff /\ row.grossDiff.k = "formula" =>
           row.grossDiff.f \in {"gdrGross-actGross", "other"} \/ Evaluated(out, row.grossDiff) = row.grossDiff
      /\ out.netDiff = row.netDiff /\ row.netDiff.k = "formula" =>
           row.netDiff.f \in {"gdrNet-actNet", "other"} \/ Evaluated(out, row.netDiff) = row.netDiff
  BY <1>3 DEF OthersAreFresh, Recalculates
<1>5. agrees("grossDiff", "gdrGross", "actGross")
  <2>1. ASSUME NEW m \in NumberIn(out.gdrGross), NEW n \in NumberIn(out.actGross),
               out.grossDiff.k # "uncached" \/ row.grossDiff.k # "uncached"
        PROVE  Abs(Amount(Recalculated(out).grossDiff) - (m - n)) <= 100
    <3>1. "grossDiff" \in Recalculates /\ "gdrGross-actGross" # "other"
      BY DEF Recalculates
    <3>2. QED
      BY <3>1, <2>1, <1>1, <1>2, <1>3, <1>4, DifferenceShown
  <2>2. QED
    BY <2>1
<1>6. agrees("netDiff", "gdrNet", "actNet")
  <2>1. ASSUME NEW m \in NumberIn(out.gdrNet), NEW n \in NumberIn(out.actNet),
               out.netDiff.k # "uncached" \/ row.netDiff.k # "uncached"
        PROVE  Abs(Amount(Recalculated(out).netDiff) - (m - n)) <= 100
    <3>1. "netDiff" \in Recalculates /\ "gdrNet-actNet" # "other"
      BY DEF Recalculates
    <3>2. QED
      BY <3>1, <2>1, <1>1, <1>2, <1>3, <1>4, DifferenceShown
  <2>2. QED
    BY <2>1
<1>7. /\ out.actGross = IF Close(row, "gdrGross", "actGross") THEN row.gdrGross ELSE row.actGross
      /\ out.actNet = IF Close(row, "gdrNet", "actNet") THEN row.gdrNet ELSE row.actNet
      /\ out.remark =
           IF ~Close(row, "gdrGross", "actGross") /\ ~Close(row, "gdrNet", "actNet") THEN row.remark
           ELSE Amended(row.remark, fixed)
  BY <1>0, OpenRow
<1>8. /\ named(row, "gross") /\ ~named(out, "gross") => Close(row, "gdrGross", "actGross")
      /\ named(row, "net") /\ ~named(out, "net") => Close(row, "gdrNet", "actNet")
  <2>1. ("gross" \in fixed <=> Close(row, "gdrGross", "actGross")) /\ ("net" \in fixed <=> Close(row, "gdrNet", "actNet"))
    OBVIOUS
  <2> HIDE DEF fixed
  <2>2. ASSUME named(row, "gross"), ~named(out, "gross") PROVE "gross" \in fixed
    <3>1. row.remark \in {"gross", "both"} /\ out.remark \notin {"gross", "both"}
      BY <2>2
    <3>2. out.remark = Amended(row.remark, fixed)
      BY <1>7, <3>1
    <3>3. QED
      BY <3>1, <3>2 DEF Amended
  <2>3. ASSUME named(row, "net"), ~named(out, "net") PROVE "net" \in fixed
    <3>1. row.remark \in {"net", "both"} /\ out.remark \notin {"net", "both"}
      BY <2>3
    <3>2. out.remark = Amended(row.remark, fixed)
      BY <1>7, <3>1
    <3>3. CASE row.remark = "net"
      BY <3>1, <3>2, <3>3 DEF Amended
    <3>4. CASE row.remark = "both"
      <4>1. fixed # {} /\ fixed \subseteq {"gross", "net"}
        BY <1>7, <3>1, <2>1 DEF fixed
      <4>2. fixed \in {{"gross", "net"}, {"gross"}, {"net"}}
        BY <4>1
      <4>3. fixed # {"gross"}
        <5>1. ASSUME fixed = {"gross"} PROVE Amended(row.remark, fixed) = "net"
          BY <5>1, <3>4 DEF Amended
        <5>2. QED
          BY <5>1, <3>1, <3>2
      <4>4. QED
        BY <4>2, <4>3
    <3>5. QED
      BY <3>1, <3>3, <3>4
  <2>4. QED
    BY <2>1, <2>2, <2>3
<1>9. \A w \in {<<"gross", "gdrGross", "actGross">>, <<"net", "gdrNet", "actNet">>} :
        named(row, w[1]) /\ ~named(out, w[1]) =>
          \A m \in NumberIn(out[w[2]]), n \in NumberIn(out[w[3]]) : m = n
  <2>1. named(row, "gross") /\ ~named(out, "gross") => \A m \in NumberIn(out.gdrGross), n \in NumberIn(out.actGross) : m = n
    BY <1>1, <1>7, <1>8, NumberOf
  <2>2. named(row, "net") /\ ~named(out, "net") => \A m \in NumberIn(out.gdrNet), n \in NumberIn(out.actNet) : m = n
    BY <1>1, <1>7, <1>8, NumberOf
  <2>3. QED
    BY <2>1, <2>2
<1>10. QED
  BY <1>5, <1>6, <1>9 DEF DifferencesAgree

-----------------------------------------------------------------------------
(* The workbook as Excel saves it. *)
Saved(out) == Recalculated([out EXCEPT !.marks = <<>>])

LEMMA SavedIs ==
  ASSUME NEW out, Shaped(out)
  PROVE  /\ Shaped(Saved(out)) /\ Saved(out).marks = <<>>
         /\ \A f \in Fields \ (Recalculates \cup {"marks"}) : Saved(out)[f] = out[f]
         /\ \A f \in Recalculates : Saved(out)[f] = Evaluated(out, out[f])
         /\ \A c : Evaluated(Saved(out), c) = Evaluated(out, c)
<1> DEFINE m == [out EXCEPT !.marks = <<>>]
           x == Recalculated(m)
           Summed == {"gdrGross", "actGross", "tare", "gdrNet", "actNet", "ornActual", "ornGdr", "spurWeight"}
<1>0. /\ Recalculates \subseteq Fields \ {"marks"} /\ "marks" \in Fields /\ "marks" \notin Recalculates
      /\ Summed \subseteq Fields \ (Recalculates \cup {"marks"})
  BY DEF Fields, Weights, Counts, Recalculates
<1>1. Keeps(m, out, {}) /\ m.marks = <<>>
  BY MarksField
<1> HIDE DEF m
<1>2. x = [f \in Fields |-> IF f \in Recalculates THEN Evaluated(m, m[f]) ELSE m[f]]
  BY <1>1 DEF Recalculated, Keeps, Shaped
<1>3. Shaped(x)
  BY <1>2 DEF Shaped
<1>4. \A f \in Fields : x[f] = IF f \in Recalculates THEN Evaluated(m, m[f]) ELSE m[f]
  BY <1>2
<1> HIDE DEF x
<1>5. x.marks = <<>> /\ \A f \in Fields \ (Recalculates \cup {"marks"}) : x[f] = out[f]
  BY <1>0, <1>1, <1>4 DEF Keeps
<1>6. \A f \in Summed : x[f] = out[f] /\ m[f] = out[f]
  BY <1>0, <1>1, <1>5 DEF Keeps
<1>7. \A f : Gives(x, f) = Gives(out, f) /\ Gives(m, f) = Gives(out, f)
  <2>1. /\ x.gdrGross = out.gdrGross /\ x.actGross = out.actGross /\ x.tare = out.tare /\ x.gdrNet = out.gdrNet
        /\ x.actNet = out.actNet /\ x.ornActual = out.ornActual /\ x.ornGdr = out.ornGdr /\ x.spurWeight = out.spurWeight
    BY <1>6
  <2>2. /\ m.gdrGross = out.gdrGross /\ m.actGross = out.actGross /\ m.tare = out.tare /\ m.gdrNet = out.gdrNet
        /\ m.actNet = out.actNet /\ m.ornActual = out.ornActual /\ m.ornGdr = out.ornGdr /\ m.spurWeight = out.spurWeight
    BY <1>6
  <2>3. ASSUME NEW f PROVE Gives(x, f) = Gives(out, f)
    BY <2>1 DEF Gives
  <2>4. ASSUME NEW f PROVE Gives(m, f) = Gives(out, f)
    BY <2>2 DEF Gives
  <2>5. QED
    BY <2>3, <2>4
<1>8. \A c : Evaluated(x, c) = Evaluated(out, c) /\ Evaluated(m, c) = Evaluated(out, c)
  BY <1>7 DEF Evaluated
<1>9. \A f \in Recalculates : x[f] = Evaluated(out, out[f])
  BY <1>0, <1>1, <1>4, <1>8 DEF Keeps
<1>10. Saved(out) = x
  BY DEF Saved, x, m
<1>11. QED
  BY <1>3, <1>5, <1>8, <1>9, <1>10

(* What validation leaves as it is, Excel saves as it was. *)
LEMMA SavedAgain ==
  ASSUME NEW out, Shaped(out), NEW v, Keeps(v, Saved(out), {})
  PROVE  Saved(v) = Saved(out)
<1> DEFINE s == Saved(out)
           m == [v EXCEPT !.marks = <<>>]
<1>0. Recalculates \subseteq Fields /\ "marks" \in Fields
  BY DEF Fields, Counts, Recalculates
<1>1. /\ Shaped(s) /\ s.marks = <<>>
      /\ \A f \in Recalculates : s[f] = Evaluated(out, out[f])
      /\ \A c : Evaluated(s, c) = Evaluated(out, c)
  BY SavedIs
<1> HIDE DEF s
<1>2. Keeps(m, v, {}) /\ m.marks = <<>>
  BY MarksField DEF Keeps
<1> HIDE DEF m
<1>3. \A f \in Fields : m[f] = s[f]
  BY <1>1, <1>2 DEF Keeps, s
<1>4. m = s
  BY <1>1, <1>2, <1>3 DEF Keeps, Shaped
<1>5. \A f \in Recalculates : Evaluated(s, s[f]) = s[f]
  BY <1>1, EvaluatedTwice
<1>6. Recalculated(s) = [f \in Fields |-> IF f \in Recalculates THEN Evaluated(s, s[f]) ELSE s[f]]
  BY <1>1 DEF Recalculated, Shaped
<1>7. Recalculated(s) = s
  BY <1>1, <1>5, <1>6 DEF Shaped
<1>8. QED
  BY <1>4, <1>7 DEF Saved, m, s

(* A closed or top-up row with its defaults is left as it is. *)
LEMMA ClosedAgain ==
  ASSUME NEW s, Shaped(s), Cleaned(s), Defaults(s), s.renewed # "text"
  PROVE  Keeps(ValidateRow(s), s, {})
<1> DEFINE a == Reset(s)
           b == Dates(a)
           d == DateOutliers(b)
           c == Suspicions(d)
           out == Plausible(c)
<1>1. Shaped(a) /\ Cleaned(a) /\ Keeps(a, s, {})
  BY ResetPass
<1> HIDE DEF a
<1>2. "renewed" \in Fields \ {"marks"} /\ {"status", "remark"} \subseteq Fields \ {"marks"} /\ "tare" \in Fields \ {"marks"}
  BY DEF Fields, TextCells, Weights
<1>3. Keeps(b, a, {})
  <2>1. Keeps(b, a, {"renewed"}) /\ b.renewed = a.renewed
    BY <1>1, <1>2, DatesPass DEF Keeps
  <2>2. QED
    BY <2>1 DEF Keeps
<1> HIDE DEF b
<1>4. Keeps(c, b, {})
  <2>1. Keeps(d, b, {})
    BY <1>3, DateOutliersPass DEF Keeps
  <2> HIDE DEF d
  <2>2. Keeps(c, d, {})
    BY <2>1, SuspicionsPass DEF Keeps
  <2>3. QED
    BY <2>1, <2>2 DEF Keeps
<1> HIDE DEF c
<1>5. Keeps(c, s, {})
  BY <1>1, <1>3, <1>4 DEF Keeps
<1>6. Cleaned(c) /\ c.tare # NA
  <2>1. c.status = s.status /\ c.remark = s.remark /\ c.tare = s.tare
    BY <1>2, <1>5 DEF Keeps
  <2>2. NumberIn(s.tare) = {0}
    BY DEF Defaults, Weights
  <2>3. NA.k = "NA"
    BY DEF NA, None
  <2>4. s.tare # NA
    BY <2>2, <2>3, NumberOf
  <2>5. QED
    BY <2>1, <2>4 DEF Cleaned, Closed
<1>7. Keeps(out, c, {})
  BY <1>5, PlausiblePass DEF Keeps
<1>8. ValidateRow(s) = out
  <2>1. Align(c) = c /\ GrossDiff(c) = c /\ NetDiff(c) = c /\ SpuriousPercent(c) = c /\ Ornaments(c) = c
    BY <1>6, CleanedPasses
  <2>2. TareNumber(c) = c
    BY <1>5, <1>6, TarePass DEF Keeps
  <2>3. QED
    BY <2>1, <2>2 DEF ValidateRow, out, c, d, b, a
<1> HIDE DEF out
<1>9. QED
  BY <1>5, <1>7, <1>8 DEF Keeps

LEMMA ClosedStays ==
  ASSUME NEW row, IsRow(row), Cleaned(row), NEW out, out = ValidateRow(row)
  PROVE  StaysValid(row, out)
<1> DEFINE s == Saved(out)
<1>1. Shaped(out) /\ Cleaned(out) /\ Defaults(out) /\ out.renewed # "text"
  BY ClosedRows
<1>2. /\ Shaped(s)
      /\ \A f \in Fields \ (Recalculates \cup {"marks"}) : s[f] = out[f]
      /\ \A f \in Recalculates : s[f] = Evaluated(out, out[f])
  BY <1>1, SavedIs
<1> HIDE DEF s
<1>3. \A f \in Recalculates : s[f] = out[f]
  <2> SUFFICES ASSUME NEW f \in Recalculates PROVE s[f] = out[f]
    OBVIOUS
  <2>1. NumberIn(out[f]) = {0}
    BY <1>1 DEF Defaults, Recalculates, Counts
  <2>2. out[f].k = "num"
    BY <2>1, NumberOf
  <2>3. QED
    BY <2>2, <1>2, EvaluatedIs
<1>4. \A f \in Weights \cup Counts \cup {"status", "remark", "renewed", "magnet", "tampered", "gdrNo"} : s[f] = out[f]
  <2>1. \A f \in Weights \cup Counts \cup {"status", "remark", "renewed", "magnet", "tampered", "gdrNo"} : f \in Fields \ {"marks"}
    BY DEF Fields, Weights, Counts, TextCells
  <2>2. QED
    BY <2>1, <1>2, <1>3
<1>5. Cleaned(s) /\ Defaults(s) /\ s.renewed # "text"
  BY <1>1, <1>4 DEF Cleaned, Closed, Defaults
<1>6. Keeps(ValidateRow(s), s, {})
  BY <1>2, <1>5, ClosedAgain
<1>7. Saved(ValidateRow(s)) = s
  BY <1>1, <1>6, SavedAgain DEF s
<1>8. QED
  BY <1>7 DEF StaysValid, Saved, s

(* A row no pass has a reason to change is left as it is. *)
LEMMA OpenAgain ==
  ASSUME NEW s, Shaped(s), ~Cleaned(s), s.tare # NA, s.renewed # "text",
         s.taf = "POA" => /\ s.renewed = ""
                          /\ ~Close(s, "gdrGross", "actGross") /\ ~Close(s, "gdrNet", "actNet"),
         ByWeights(s) => /\ ~Wrong(s, "grossDiff", "gdrGross", "actGross")
                         /\ ~Wrong(s, "netDiff", "gdrNet", "actNet"),
         ByTare(s) => ~Wrong(s, "grossDiff", "gdrGross", "tare"),
         ByNothing(s) => ~NetIsOff(s),
         ~PercentIsOff(s), ~OrnIsOff(s)
  PROVE  Keeps(ValidateRow(s), s, {})
<1> DEFINE v == ValidateRow(s)
<1>1. /\ Keeps(v, s, {"renewed", "actGross", "actNet", "remark", "tare"} \cup Recalculates)
      /\ v.renewed = s.renewed /\ v.tare = s.tare
      /\ v.actGross = s.actGross /\ v.actNet = s.actNet /\ v.remark = s.remark
      /\ v.spurPct = s.spurPct /\ v.ornDiff = s.ornDiff
  BY OpenRow
<1>2. v.grossDiff = s.grossDiff /\ v.netDiff = s.netDiff
  <2>1. /\ ByWeights(s) =>
              /\ v.grossDiff = IF /\ NumberIn(v.gdrGross) # {} /\ NumberIn(v.actGross) # {}
                                    /\ Off(s.grossDiff, v.gdrGross.n - v.actGross.n)
                                 THEN Uncomputed("gdrGross-actGross") ELSE s.grossDiff
              /\ v.netDiff = IF /\ NumberIn(v.gdrNet) # {} /\ NumberIn(v.actNet) # {}
                                  /\ Off(s.netDiff, v.gdrNet.n - v.actNet.n)
                               THEN Uncomputed("gdrNet-actNet") ELSE s.netDiff
        /\ ByTare(s) => v.grossDiff = s.grossDiff
        /\ ByNothing(s) => v.netDiff = s.netDiff
        /\ ~ByWeights(s) /\ ~ByTare(s) => v.grossDiff = s.grossDiff
        /\ ~ByWeights(s) /\ ~ByNothing(s) => v.netDiff = s.netDiff
    BY OpenRow
  <2>2. v.gdrGross = s.gdrGross /\ v.gdrNet = s.gdrNet
    <3>1. {"gdrGross", "gdrNet"} \subseteq
            Fields \ (({"renewed", "actGross", "actNet", "remark", "tare"} \cup Recalculates) \cup {"marks"})
      BY DEF Fields, Weights, Recalculates
    <3>2. QED
      BY <1>1, <3>1 DEF Keeps
  <2>3. CASE ByWeights(s)
    BY <1>1, <2>1, <2>2, <2>3 DEF Wrong
  <2>4. QED
    BY <2>1, <2>3
<1> HIDE DEF v
<1>3. QED
  BY <1>1, <1>2 DEF Keeps, Recalculates, v

LEMMA OpenStays ==
  ASSUME NEW row, IsRow(row), ~Cleaned(row), NEW out, out = ValidateRow(row)
  PROVE  StaysValid(row, out)
<1> SUFFICES ASSUME \A f \in Counts : row[f].k # "uncached", row.tare # NA, OthersAreFresh(row, out)
             PROVE  Saved(ValidateRow(Saved(out))) = Saved(out)
  BY DEF StaysValid, Saved
<1> DEFINE s == Saved(out)
<1>0. Shaped(row)
  BY DEF IsRow, Shaped, Fields
<1>1. /\ Shaped(out)
      /\ out.gdrGross = row.gdrGross /\ out.gdrNet = row.gdrNet /\ out.spurWeight = row.spurWeight
      /\ out.ornGdr = row.ornGdr /\ out.ornActual = row.ornActual
      /\ out.status = row.status /\ out.taf = row.taf
      /\ IsFigure(out.gdrGross) /\ IsFigure(out.actGross) /\ IsFigure(out.gdrNet) /\ IsFigure(out.actNet)
      /\ IsFigure(out.spurWeight) /\ IsFigure(out.ornGdr) /\ IsFigure(out.ornActual)
      /\ IsFigure(row.tare)
  BY OpenFigures
<1>2. /\ IsFigure(row.grossDiff) /\ IsFigure(row.netDiff) /\ IsFigure(row.spurPct) /\ IsFigure(row.ornDiff)
  BY OpenFigures DEF Recalculates
<1>3. /\ row.grossDiff.k # "uncached" /\ row.netDiff.k # "uncached" /\ row.spurPct.k # "uncached"
      /\ row.ornDiff.k # "uncached" /\ row.ornGdr.k # "uncached" /\ row.ornActual.k # "uncached"
  BY DEF Counts
<1>4. /\ ~Cleaned(out) /\ out.tare = row.tare
      /\ out.renewed = IF row.taf = "POA" THEN "" ELSE IF row.renewed = "text" THEN "date" ELSE row.renewed
      /\ row.taf = "POA" =>
           /\ out.actGross = IF Close(row, "gdrGross", "actGross") THEN row.gdrGross ELSE row.actGross
           /\ out.actNet = IF Close(row, "gdrNet", "actNet") THEN row.gdrNet ELSE row.actNet
  BY <1>0, OpenRow
<1>5. /\ Shaped(s)
      /\ \A f \in Fields \ (Recalculates \cup {"marks"}) : s[f] = out[f]
      /\ \A f \in Recalculates : s[f] = Evaluated(out, out[f]) /\ s[f] = Recalculated(out)[f]
  BY <1>1, SavedIs, Shown
<1> HIDE DEF s
<1>6. /\ s.status = out.status /\ s.taf = out.taf /\ s.remark = out.remark /\ s.renewed = out.renewed
      /\ s.gdrGross = out.gdrGross /\ s.actGross = out.actGross /\ s.tare = out.tare
      /\ s.gdrNet = out.gdrNet /\ s.actNet = out.actNet /\ s.spurWeight = out.spurWeight
      /\ s.ornGdr = out.ornGdr /\ s.ornActual = out.ornActual
  <2>1. {"status", "taf", "remark", "renewed", "gdrGross", "actGross", "tare", "gdrNet", "actNet", "spurWeight",
         "ornGdr", "ornActual"} \subseteq Fields \ (Recalculates \cup {"marks"})
    BY DEF Fields, Weights, Counts, TextCells, Recalculates
  <2>2. QED
    BY <1>5, <2>1
<1>7. /\ s.grossDiff = Recalculated(out).grossDiff /\ s.netDiff = Recalculated(out).netDiff
      /\ s.netDiff = Evaluated(out, out.netDiff)
      /\ s.spurPct = Evaluated(out, out.spurPct) /\ s.ornDiff = Evaluated(out, out.ornDiff)
  BY <1>5 DEF Recalculates
<1>8. ~Cleaned(s) /\ s.tare # NA /\ s.renewed # "text" /\ (s.taf = "POA" => s.renewed = "")
  BY <1>1, <1>4, <1>6 DEF Cleaned, Closed
<1>9. s.taf = "POA" => ~Close(s, "gdrGross", "actGross") /\ ~Close(s, "gdrNet", "actNet")
  <2>1. ASSUME s.taf = "POA" PROVE ~Close(s, "gdrGross", "actGross")
    <3>1. CASE Close(row, "gdrGross", "actGross")
      <4>1. s.gdrGross = s.actGross
        BY <1>1, <1>4, <1>6, <2>1, <3>1
      <4>2. QED
        BY <4>1, NumberOf DEF Close
    <3>2. CASE ~Close(row, "gdrGross", "actGross")
      <4>1. s.gdrGross = row.gdrGross /\ s.actGross = row.actGross
        BY <1>1, <1>4, <1>6, <2>1, <3>2
      <4>2. QED
        BY <4>1, <3>2 DEF Close
    <3>3. QED
      BY <3>1, <3>2
  <2>2. ASSUME s.taf = "POA" PROVE ~Close(s, "gdrNet", "actNet")
    <3>1. CASE Close(row, "gdrNet", "actNet")
      <4>1. s.gdrNet = s.actNet
        BY <1>1, <1>4, <1>6, <2>2, <3>1
      <4>2. QED
        BY <4>1, NumberOf DEF Close
    <3>2. CASE ~Close(row, "gdrNet", "actNet")
      <4>1. s.gdrNet = row.gdrNet /\ s.actNet = row.actNet
        BY <1>1, <1>4, <1>6, <2>2, <3>2
      <4>2. QED
        BY <4>1, <3>2 DEF Close
    <3>3. QED
      BY <3>1, <3>2
  <2>3. QED
    BY <2>1, <2>2
<1>10. /\ ByWeights(s) <=> ByWeights(row)
       /\ ByTare(s) <=> ByTare(row)
       /\ ByNothing(s) <=> ByNothing(row)
       /\ ~(ByWeights(row) /\ ByTare(row)) /\ ~(ByWeights(row) /\ ByNothing(row))
  BY <1>1, <1>6 DEF ByWeights, ByTare, ByNothing
<1>11. ASSUME NEW f \in Recalculates, NEW due, due = Due(row, f), out[f] = row[f], row[f].k = "formula"
       PROVE  row[f].f \in {due, "other"} \/ Evaluated(out, row[f]) = row[f]
  BY <1>11 DEF OthersAreFresh
<1>12. ASSUME ByWeights(s) PROVE ~Wrong(s, "grossDiff", "gdrGross", "actGross") /\ ~Wrong(s, "netDiff", "gdrNet", "actNet")
  <2>1. /\ Due(row, "grossDiff") = "gdrGross-actGross" /\ Due(row, "netDiff") = "gdrNet-actNet"
        /\ Gives(out, "gdrGross-actGross") = Amount(out.gdrGross) - Amount(out.actGross)
        /\ Gives(out, "gdrNet-actNet") = Amount(out.gdrNet) - Amount(out.actNet)
    BY <1>10, <1>12 DEF Due, Gives, ByTare, ByNothing
  <2>2. /\ out.grossDiff = IF /\ NumberIn(out.gdrGross) # {} /\ NumberIn(out.actGross) # {}
                               /\ Off(row.grossDiff, out.gdrGross.n - out.actGross.n)
                            THEN Uncomputed("gdrGross-actGross") ELSE row.grossDiff
        /\ out.netDiff = IF /\ NumberIn(out.gdrNet) # {} /\ NumberIn(out.actNet) # {}
                             /\ Off(row.netDiff, out.gdrNet.n - out.actNet.n)
                          THEN Uncomputed("gdrNet-actNet") ELSE row.netDiff
    BY <1>0, <1>10, <1>12, OpenRow
  <2>3. /\ out.grossDiff = row.grossDiff /\ row.grossDiff.k = "formula" =>
             row.grossDiff.f \in {"gdrGross-actGross", "other"} \/ Evaluated(out, row.grossDiff) = row.grossDiff
        /\ out.netDiff = row.netDiff /\ row.netDiff.k = "formula" =>
             row.netDiff.f \in {"gdrNet-actNet", "other"} \/ Evaluated(out, row.netDiff) = row.netDiff
    BY <1>11, <2>1 DEF Recalculates
  <2>4. ASSUME NEW m \in NumberIn(out.gdrGross), NEW n \in NumberIn(out.actGross) PROVE ~Off(s.grossDiff, m - n)
    <3>1. "grossDiff" \in Recalculates /\ "gdrGross-actGross" # "other"
      BY DEF Recalculates
    <3>2. /\ Shaped(out) /\ IsFigure(row.grossDiff) /\ IsFigure(out.gdrGross) /\ IsFigure(out.actGross)
          /\ row.grossDiff.k # "uncached"
      BY <1>1, <1>2, <1>3
    <3>3. ~Off(Recalculated(out).grossDiff, m - n)
      BY <3>1, <3>2, <2>1, <2>2, <2>3, DifferenceShown
    <3>4. QED
      BY <1>7, <3>3
  <2>5. ASSUME NEW m \in NumberIn(out.gdrNet), NEW n \in NumberIn(out.actNet) PROVE ~Off(s.netDiff, m - n)
    <3>1. "netDiff" \in Recalculates /\ "gdrNet-actNet" # "other"
      BY DEF Recalculates
    <3>2. /\ Shaped(out) /\ IsFigure(row.netDiff) /\ IsFigure(out.gdrNet) /\ IsFigure(out.actNet)
          /\ row.netDiff.k # "uncached"
      BY <1>1, <1>2, <1>3
    <3>3. ~Off(Recalculated(out).netDiff, m - n)
      BY <3>1, <3>2, <2>1, <2>2, <2>3, DifferenceShown
    <3>4. QED
      BY <1>7, <3>3
  <2>6. QED
    BY <1>6, <2>4, <2>5, NumberOf DEF Wrong
<1>13. ASSUME ByTare(s) PROVE ~Wrong(s, "grossDiff", "gdrGross", "tare")
  <2>1. /\ Due(row, "grossDiff") = "gdrGross-tare"
        /\ Gives(out, "gdrGross-tare") = Amount(out.gdrGross) - Amount(out.tare)
    BY <1>10, <1>13 DEF Due, Gives, ByTare
  <2>2. out.grossDiff = IF /\ NumberIn(out.gdrGross) # {} /\ NumberIn(out.tare) # {}
                           /\ Off(row.grossDiff, out.gdrGross.n - out.tare.n)
                        THEN Uncomputed("gdrGross-tare") ELSE row.grossDiff
    <3>1. out.grossDiff = IF Wrong(row, "grossDiff", "gdrGross", "tare")
                          THEN Uncomputed("gdrGross-tare") ELSE row.grossDiff
      BY <1>0, <1>10, <1>13, OpenRow
    <3>2. QED
      BY <3>1, <1>1, <1>4 DEF Wrong
  <2>3. out.grossDiff = row.grossDiff /\ row.grossDiff.k = "formula" =>
             row.grossDiff.f \in {"gdrGross-tare", "other"} \/ Evaluated(out, row.grossDiff) = row.grossDiff
    BY <1>11, <2>1 DEF Recalculates
  <2>4. ASSUME NEW m \in NumberIn(out.gdrGross), NEW n \in NumberIn(out.tare) PROVE ~Off(s.grossDiff, m - n)
    <3>1. "grossDiff" \in Recalculates /\ "gdrGross-tare" # "other" /\ IsFigure(out.tare)
      BY <1>1, <1>4 DEF Recalculates
    <3>2. QED
      BY <3>1, <1>1, <1>2, <1>3, <1>7, <2>1, <2>2, <2>3, DifferenceShown
  <2>5. QED
    BY <1>6, <2>4, NumberOf DEF Wrong
<1>13a. ASSUME ByNothing(s) PROVE ~NetIsOff(s)
  <2> DEFINE zero == Calculated("0", 0)
  <2>1. Due(row, "netDiff") = "0" /\ Gives(out, "0") = 0
    BY <1>10, <1>13a DEF Due, Gives, ByNothing
  <2>2. out.netDiff = IF NetIsOff(row) THEN Uncomputed("0") ELSE row.netDiff
    BY <1>0, <1>10, <1>13a, OpenRow
  <2>3. out.netDiff = row.netDiff /\ row.netDiff.k = "formula" =>
             row.netDiff.f \in {"0", "other"} \/ Evaluated(out, row.netDiff) = row.netDiff
    BY <1>11, <2>1 DEF Recalculates
  <2>4. Cached(zero) = {0} /\ zero.k = "formula"
    BY EvaluatedIs
  <2> HIDE DEF zero
  <2>5. CASE NetIsOff(row)
    <3>1. Uncomputed("0").k = "uncached" /\ Uncomputed("0").f = "0"
      BY DEF Uncomputed
    <3>2. s.netDiff = zero
      BY <1>7, <2>1, <2>2, <2>5, <3>1, EvaluatedIs DEF zero
    <3>3. QED
      BY <2>4, <3>2 DEF NetIsOff, Abs
  <2>6. CASE ~NetIsOff(row)
    <3>1. out.netDiff = row.netDiff
      BY <2>2, <2>6
    <3>2. s.netDiff = row.netDiff \/ s.netDiff = zero
      <4>1. CASE row.netDiff.k = "formula"
        BY <1>7, <2>1, <2>3, <3>1, <4>1, EvaluatedIs DEF zero
      <4>2. CASE row.netDiff.k # "formula"
        BY <1>3, <1>7, <3>1, <4>2, EvaluatedIs
      <4>3. QED
        BY <4>1, <4>2
    <3>3. QED
      BY <2>4, <2>6, <3>2 DEF NetIsOff, Abs
  <2>7. QED
    BY <2>5, <2>6
<1>14. ~PercentIsOff(s)
  <2> SUFFICES ASSUME NEW a \in NumberIn(s.spurWeight), NEW g \in NumberIn(s.gdrGross), g > 0
               PROVE  ~(Abs(Percent(a, g) - (IF Cached(s.spurPct) = {} THEN 0 ELSE s.spurPct.n)) > 50)
    BY Zenon DEF PercentIsOff
  <2> DEFINE p == Calculated("percent", Percent(a, g))
  <2>1. /\ a \in NumberIn(row.spurWeight) /\ g \in NumberIn(row.gdrGross)
        /\ Amount(out.spurWeight) = a /\ Amount(out.gdrGross) = g /\ a \in Int /\ g \in Int
    BY <1>1, <1>6, NumberOf, FigureNumber
  <2>2. Gives(out, "percent") = Percent(a, g) /\ Due(row, "spurPct") = "percent"
    BY <2>1 DEF Gives, Due
  <2>3. Percent(a, g) \in Int
    BY <2>1 DEF Percent
  <2>4. Cached(p) = {Percent(a, g)} /\ p.n = Percent(a, g)
    BY EvaluatedIs DEF Calculated
  <2> HIDE DEF p
  <2>5. CASE s.spurPct = p
    BY <2>3, <2>4, <2>5 DEF Abs
  <2>6. CASE s.spurPct # p
    <3>1. ~PercentIsOff(row)
      <4>1. ASSUME PercentIsOff(row) PROVE FALSE
        <5>1. out.spurPct = Uncomputed("percent")
          BY <1>0, <4>1, OpenRow
        <5>2. Uncomputed("percent").k = "uncached" /\ Uncomputed("percent").f = "percent"
          BY DEF Uncomputed
        <5>3. QED
          BY <1>7, <2>2, <2>6, <5>1, <5>2, EvaluatedIs DEF p
      <4>2. QED
        BY <4>1
    <3>2. out.spurPct = row.spurPct
      BY <1>0, <3>1, OpenRow
    <3>3. s.spurPct = row.spurPct
      <4>1. CASE row.spurPct.k = "formula"
        <5>1. row.spurPct.f \in {"percent", "other"} \/ Evaluated(out, row.spurPct) = row.spurPct
          BY <1>11, <2>2, <3>2, <4>1 DEF Recalculates
        <5>2. QED
          BY <1>7, <2>2, <2>6, <3>2, <4>1, <5>1, EvaluatedIs DEF p
      <4>2. CASE row.spurPct.k # "formula"
        BY <1>3, <1>7, <3>2, <4>2, EvaluatedIs
      <4>3. QED
        BY <4>1, <4>2
    <3>4. QED
      BY <2>1, <3>1, <3>3, Zenon DEF PercentIsOff
  <2>7. QED
    BY <2>5, <2>6
<1>15. ~OrnIsOff(s)
  <2>1. out.ornDiff = IF ~OrnIsOff(row) THEN row.ornDiff
                      ELSE IF row.taf = "TAF" THEN Figure(0) ELSE Uncomputed("ornActual-ornGdr")
    BY <1>0, OpenRow
  <2>2. out.ornDiff = row.ornDiff /\ row.ornDiff.k = "formula" =>
          row.ornDiff.f \in {Due(row, "ornDiff"), "other"} \/ Evaluated(out, row.ornDiff) = row.ornDiff
    BY <1>11 DEF Recalculates
  <2>3. s.taf = row.taf /\ s.ornGdr = row.ornGdr /\ s.ornActual = row.ornActual
    BY <1>1, <1>6
  <2>4. CASE row.taf = "TAF"
    <3>1. Cached(s.ornDiff) = {0}
      <4>1. CASE OrnIsOff(row)
        <5>1. out.ornDiff = Figure(0)
          BY <2>1, <2>4, <4>1
        <5>2. Figure(0).k = "num" /\ Figure(0).n = 0
          BY DEF Figure
        <5>3. s.ornDiff = Figure(0)
          BY <1>7, <5>1, <5>2, EvaluatedIs
        <5>4. QED
          BY <5>2, <5>3 DEF Cached
      <4>2. CASE ~OrnIsOff(row)
        <5>1. out.ornDiff = row.ornDiff /\ Cached(row.ornDiff) = {0}
          BY <2>1, <2>4, <4>2 DEF OrnIsOff
        <5>2. s.ornDiff = row.ornDiff
          <6>1. Due(row, "ornDiff") = ""
            BY <2>4 DEF Due
          <6>2. CASE row.ornDiff.k = "formula"
            <7>1. row.ornDiff.f # ""
              <8>1. \A c : IsFigure(c) /\ c.k = "formula" => c.f \in Formulas
                BY FigureFormula
              <8>2. QED
                BY <1>2, <6>2, <8>1 DEF Formulas
            <7>2. row.ornDiff.f = "other" \/ Evaluated(out, row.ornDiff) = row.ornDiff
              BY <2>2, <5>1, <6>1, <6>2, <7>1
            <7>3. Evaluated(out, row.ornDiff) = row.ornDiff
              BY <7>2, EvaluatedIs
            <7>4. QED
              BY <1>7, <5>1, <7>3
          <6>3. CASE row.ornDiff.k # "formula"
            BY <1>3, <1>7, <5>1, <6>3, EvaluatedIs
          <6>4. QED
            BY <6>2, <6>3
        <5>3. QED
          BY <5>1, <5>2
      <4>3. QED
        BY <4>1, <4>2
    <3>2. QED
      BY <2>3, <2>4, <3>1 DEF OrnIsOff
  <2>5. CASE row.taf # "TAF"
    <3> SUFFICES ASSUME Cached(row.ornGdr) # {}, Cached(row.ornActual) # {}
                 PROVE  Cached(s.ornDiff) = {row.ornActual.n - row.ornGdr.n}
      BY <2>3, <2>5 DEF OrnIsOff
    <3> DEFINE want == row.ornActual.n - row.ornGdr.n
               v == Calculated("ornActual-ornGdr", want)
    <3>1. Gives(out, "ornActual-ornGdr") = want
      BY <1>1 DEF Gives, Amount, Cached
    <3>2. Due(row, "ornDiff") = "ornActual-ornGdr"
      BY <2>5 DEF Due
    <3>3. Cached(v) = {want}
      BY EvaluatedIs
    <3> HIDE DEF v
    <3>4. CASE OrnIsOff(row)
      <4>1. out.ornDiff = Uncomputed("ornActual-ornGdr")
        BY <2>1, <2>5, <3>4
      <4>2. Uncomputed("ornActual-ornGdr").k = "uncached" /\ Uncomputed("ornActual-ornGdr").f = "ornActual-ornGdr"
        BY DEF Uncomputed
      <4>3. s.ornDiff = v
        BY <1>7, <3>1, <4>1, <4>2, EvaluatedIs DEF v
      <4>4. QED
        BY <3>3, <4>3
    <3>5. CASE ~OrnIsOff(row)
      <4>1. out.ornDiff = row.ornDiff /\ Cached(row.ornDiff) = {want}
        BY <2>1, <2>5, <3>5 DEF OrnIsOff
      <4>2. s.ornDiff = row.ornDiff \/ s.ornDiff = v
        <5>1. CASE row.ornDiff.k = "formula"
          BY <1>7, <2>2, <3>1, <3>2, <4>1, <5>1, EvaluatedIs DEF v
        <5>2. CASE row.ornDiff.k # "formula"
          BY <1>3, <1>7, <4>1, <5>2, EvaluatedIs
        <5>3. QED
          BY <5>1, <5>2
      <4>3. QED
        BY <3>3, <4>1, <4>2
    <3>6. QED
      BY <3>4, <3>5
  <2>6. QED
    BY <2>4, <2>5
<1>16. Keeps(ValidateRow(s), s, {})
  BY <1>5, <1>8, <1>9, <1>12, <1>13, <1>13a, <1>14, <1>15, OpenAgain
<1>17. QED
  BY <1>1, <1>16, SavedAgain DEF s

-----------------------------------------------------------------------------
(* The numbers of a column have a largest one. *)
LEMMA LargestNumber ==
  ASSUME NEW len \in Nat, NEW S, S \subseteq Int, S # {}, NEW f, S = {f[i] : i \in DOMAIN f}, DOMAIN f \subseteq 1..len
  PROVE  \E x \in S : \A y \in S : y <= x
<1> DEFINE upTo(n) == {f[i] : i \in {j \in DOMAIN f : j <= n}}
           Bad == {n \in 0..len : upTo(n) # {} /\ ~\E x \in upTo(n) : \A y \in upTo(n) : y <= x}
<1>1. upTo(len) = S
  OBVIOUS
<1>2. Bad = {}
  <2> SUFFICES ASSUME Bad # {} PROVE FALSE
    OBVIOUS
  <2>1. PICK n \in Bad : \A m \in Bad : n <= m
    <3>1. Bad \subseteq Nat
      OBVIOUS
    <3> HIDE DEF Bad
    <3>2. QED
      BY <3>1, LeastNumber
  <2>2. n \in 0..len /\ upTo(n) # {} /\ ~\E x \in upTo(n) : \A y \in upTo(n) : y <= x
    OBVIOUS
  <2>3. n # 0
    <3>1. upTo(0) = {}
      OBVIOUS
    <3>2. QED
      BY <2>2, <3>1
  <2>4. n - 1 \in 0..len /\ n - 1 \notin Bad
    BY <2>1, <2>2, <2>3
  <2>5. upTo(n - 1) = {} \/ \E x \in upTo(n - 1) : \A y \in upTo(n - 1) : y <= x
    BY <2>4
  <2>6. upTo(n) = upTo(n - 1) \/ (n \in DOMAIN f /\ upTo(n) = upTo(n - 1) \cup {f[n]})
    BY <2>2
  <2>7. upTo(n) \subseteq Int
    BY <1>1
  <2> HIDE DEF upTo, Bad
  <2>8. CASE upTo(n) = upTo(n - 1)
    BY <2>2, <2>5, <2>8
  <2>9. CASE n \in DOMAIN f /\ upTo(n) = upTo(n - 1) \cup {f[n]}
    <3>1. CASE upTo(n - 1) = {}
      BY <2>2, <2>7, <2>9, <3>1
    <3>2. CASE upTo(n - 1) # {}
      <4>1. PICK x \in upTo(n - 1) : \A y \in upTo(n - 1) : y <= x
        BY <2>5, <3>2
      <4>2. x \in Int /\ f[n] \in Int /\ x \in upTo(n) /\ f[n] \in upTo(n)
        BY <2>7, <2>9
      <4>3. CASE f[n] <= x
        BY <2>2, <2>9, <4>1, <4>2, <4>3
      <4>4. CASE ~(f[n] <= x)
        <5>1. \A y \in upTo(n) : y <= f[n]
          BY <2>7, <2>9, <4>1, <4>2, <4>4
        <5>2. QED
          BY <2>2, <4>2, <5>1
      <4>5. QED
        BY <4>3, <4>4
    <3>3. QED
      BY <3>1, <3>2
  <2>10. QED
    BY <2>6, <2>8, <2>9
<1>3. len \in 0..len
  OBVIOUS
<1>4. ~(upTo(len) # {} /\ ~\E x \in upTo(len) : \A y \in upTo(len) : y <= x)
  BY <1>2, <1>3
<1> HIDE DEF upTo
<1>5. QED
  BY <1>1, <1>4

LEMMA MaxOf ==
  ASSUME NEW S, S \subseteq Int, \E x \in S : \A y \in S : y <= x
  PROVE  Max(S) \in S /\ \A y \in S : y <= Max(S)
<1>1. \E x \in S : \A y \in S : x >= y
  OBVIOUS
<1>2. Max(S) = CHOOSE x \in S : \A y \in S : x >= y
  BY DEF Max
<1>3. Max(S) \in S /\ \A y \in S : Max(S) >= y
  BY <1>1, <1>2
<1>4. QED
  BY <1>3

-----------------------------------------------------------------------------
(* The kinds of cells. *)
LEMMA NumbersAre ==
  /\ \A n : /\ Num(n).k = "num" /\ Num(n).n = n /\ Typed(n).k = "typed" /\ Typed(n).n = n
           /\ IsNumber(Num(n)) /\ IsNumber(Typed(n))
  /\ \A w, u : Text(w, u).k = "text" /\ [Text(w, u) EXCEPT !.upper = TRUE].k = "text"
  /\ BlankCell.k = "blank"
<1>1. ASSUME NEW n PROVE Num(n).k = "num" /\ Num(n).n = n /\ Typed(n).k = "typed" /\ Typed(n).n = n
  BY DEF Num, Typed, BlankCell
<1>2. ASSUME NEW w, NEW u PROVE Text(w, u).k = "text" /\ [Text(w, u) EXCEPT !.upper = TRUE].k = "text"
  BY DEF Text, BlankCell
<1>3. BlankCell.k = "blank"
  BY DEF BlankCell
<1>4. QED
  BY <1>1, <1>2, <1>3 DEF IsNumber

LEMMA KindOfCell ==
  ASSUME NEW c, IsCell(c)
  PROVE  /\ c.k \in {"blank", "num", "typed", "text"} /\ c.n \in Int
         /\ c.k = "num" => c = Num(c.n)
         /\ c.k = "typed" => c = Typed(c.n)
<1>1. c = BlankCell \/ c = Num(c.n) \/ c = Typed(c.n) \/ c = Text(c.word, c.upper)
  BY DEF IsCell
<1>2. CASE c = BlankCell
  BY <1>2, NumbersAre DEF IsCell
<1>3. CASE c = Num(c.n)
  <2>1. c.k = "num"
    BY <1>3, NumbersAre
  <2>2. QED
    BY <2>1, <1>3 DEF IsCell
<1>4. CASE c = Typed(c.n)
  <2>1. c.k = "typed"
    BY <1>4, NumbersAre
  <2>2. QED
    BY <2>1, <1>4 DEF IsCell
<1>5. CASE c = Text(c.word, c.upper)
  <2>1. c.k = "text"
    BY <1>5, NumbersAre
  <2>2. QED
    BY <2>1 DEF IsCell
<1>6. QED
  BY <1>1, <1>2, <1>3, <1>4, <1>5

LEMMA NearestItself ==
  ASSUME NEW n \in Int, Whole(n)
  PROVE  Nearest(n, One) = n
BY DEF Nearest, Whole, One

(* Codes: what a cell of one becomes tells which it was. *)
LEMMA Codes ==
  ASSUME NEW column, NEW normal, normal = NormalizeColumn("identifier", column)
  PROVE  CodesStayApart(column, normal)
<1>1. \A i \in DOMAIN column : normal[i] = Identifier(column[i])
  BY DEF NormalizeColumn
<1>2. ASSUME NEW c, IsNumber(c) => Whole(c.n)
      PROVE  \/ c.k = "num" /\ IsNumber(c) /\ Identifier(c) = Typed(c.n)
             \/ c.k # "num" /\ Identifier(c) = c
  BY <1>2 DEF Identifier, IsNumber
<1>3. ASSUME NEW i \in DOMAIN column, NEW j \in DOMAIN column,
             \A c \in {column[i], column[j]} : IsNumber(c) => Whole(c.n), normal[i] = normal[j]
      PROVE  \/ column[i] = column[j]
             \/ IsNumber(column[i]) /\ IsNumber(column[j]) /\ column[i].n = column[j].n
  <2> DEFINE c == column[i]
             d == column[j]
  <2>1. Identifier(c) = Identifier(d)
    BY <1>1, <1>3
  <2>2. (IsNumber(c) => Whole(c.n)) /\ (IsNumber(d) => Whole(d.n))
    BY <1>3
  <2> HIDE DEF c, d
  <2>3. \/ c.k = "num" /\ IsNumber(c) /\ Identifier(c) = Typed(c.n)
        \/ c.k # "num" /\ Identifier(c) = c
    BY <2>2, <1>2
  <2>4. \/ d.k = "num" /\ IsNumber(d) /\ Identifier(d) = Typed(d.n)
        \/ d.k # "num" /\ Identifier(d) = d
    BY <2>2, <1>2
  <2>5. c = d \/ (IsNumber(c) /\ IsNumber(d) /\ c.n = d.n)
    BY <2>1, <2>3, <2>4, NumbersAre
  <2>6. QED
    BY <2>5 DEF c, d
<1>4. QED
  BY <1>3 DEF CodesStayApart

(* A column in the scale its largest number tells. *)
LEMMA Purities ==
  ASSUME NEW column, IsColumn("percent", column), NEW normal, normal = NormalizeColumn("percent", column)
  PROVE  PurityOnOneScale(column, normal)
<1> DEFINE at(col) == {j \in DOMAIN col : IsNumber(col[j])}
           numbers(col) == {Magnitude(col[i].n) : i \in at(col)}
           percents(col) == numbers(col) # {} /\ Max(numbers(col)) > One + One \div 2
           written == {column[i].n : i \in at(column)}
           fractions == \A n \in written : n <= One
           inPercent == \A n \in written : n = 0 \/ (One + One \div 2 < n /\ n <= 100 * One)
           scale == IF fractions THEN 1 ELSE 100
<1>1. /\ DOMAIN column = 1..Len(column) /\ Len(column) \in Nat
      /\ \A i \in DOMAIN column : IsCell(column[i])
      /\ \A i \in at(column) : column[i].n \in Nat /\ (column[i].n > One => column[i].n % 100 = 0)
  BY DEF IsColumn
<1>2. ASSUME NEW col, DOMAIN col = 1..Len(column), \A i \in at(col) : col[i].n \in Nat
      PROVE  /\ (\A i \in at(col) : col[i].n <= One) => ~percents(col)
             /\ (\E i \in at(col) : col[i].n > One + One \div 2) => percents(col)
  <2> DEFINE f == [i \in at(col) |-> col[i].n]
             S == numbers(col)
  <2>1. S = {f[i] : i \in DOMAIN f} /\ S \subseteq Int /\ DOMAIN f \subseteq 1..Len(column)
        /\ (\A x \in S : \E i \in at(col) : x = col[i].n)
        /\ (\A i \in at(col) : col[i].n \in S)
    BY <1>2 DEF Magnitude
  <2> HIDE DEF S, f
  <2>2. S # {} => Max(S) \in S /\ \A y \in S : y <= Max(S)
    <3>1. ASSUME S # {} PROVE \E x \in S : \A y \in S : y <= x
      BY <1>1, <2>1, <3>1, LargestNumber
    <3>2. QED
      BY <2>1, <3>1, MaxOf
  <2>3. percents(col) <=> S # {} /\ Max(S) > One + One \div 2
    BY DEF S
  <2> HIDE DEF percents
  <2>4. ASSUME \A i \in at(col) : col[i].n <= One PROVE ~percents(col)
    <3>1. ASSUME S # {} PROVE ~(Max(S) > One + One \div 2)
      <4>1. PICK j \in at(col) : Max(S) = col[j].n
        BY <2>1, <2>2, <3>1
      <4>2. col[j].n \in Nat /\ col[j].n <= One
        BY <1>2, <2>4
      <4>3. QED
        BY <4>1, <4>2 DEF One
    <3>2. QED
      BY <2>3, <3>1
  <2>5. ASSUME NEW i \in at(col), col[i].n > One + One \div 2 PROVE percents(col)
    <3>1. col[i].n \in S
      BY <2>1
    <3>2. Max(S) \in Int /\ col[i].n \in Nat /\ col[i].n <= Max(S)
      BY <1>2, <2>1, <2>2, <3>1
    <3>3. Max(S) > One + One \div 2
      BY <2>5, <3>2 DEF One
    <3>4. QED
      BY <2>3, <3>1, <3>3
  <2>6. QED
    BY <2>4, <2>5
<1>3. ASSUME NEW col
      PROVE  NormalizeColumn("percent", col) =
               [i \in DOMAIN col |-> IF ~IsNumber(col[i]) THEN col[i]
                                     ELSE Num(IF percents(col) THEN col[i].n \div 100 ELSE col[i].n)]
  BY DEF NormalizeColumn, PercentSeries
<1> HIDE DEF percents
<1>4. /\ DOMAIN normal = DOMAIN column
      /\ \A i \in DOMAIN column : normal[i] = IF ~IsNumber(column[i]) THEN column[i]
                                               ELSE Num(IF percents(column) THEN column[i].n \div 100 ELSE column[i].n)
      /\ normal = [i \in DOMAIN column |-> normal[i]]
  BY <1>3
<1>5. at(normal) = at(column)
  BY <1>4, NumbersAre
<1>6. ASSUME fractions \/ inPercent, NEW i \in DOMAIN column
      PROVE  IF IsNumber(column[i]) THEN normal[i].n * scale = column[i].n /\ normal[i].n \in Nat /\ normal[i].n <= One
             ELSE normal[i] = column[i]
  <2>1. CASE ~IsNumber(column[i])
    BY <1>4, <2>1
  <2>2. CASE IsNumber(column[i]) /\ fractions
    <3>1. \A j \in at(column) : column[j].n <= One
      BY <2>2
    <3>2. ~percents(column)
      BY <1>1, <1>2, <3>1
    <3>3. normal[i].n = column[i].n
      BY <1>4, <2>2, <3>2, NumbersAre
    <3>4. column[i].n \in Nat /\ column[i].n <= One
      BY <1>1, <2>2, <3>1
    <3>5. QED
      BY <2>2, <3>3, <3>4
  <2>3. CASE IsNumber(column[i]) /\ ~fractions
    <3>1. PICK j \in at(column) : ~(column[j].n <= One)
      BY <2>3
    <3>2. column[j].n > One + One \div 2
      <4>1. column[j].n = 0 \/ (One + One \div 2 < column[j].n /\ column[j].n <= 100 * One)
        BY <1>6, <2>3
      <4>2. column[j].n \in Nat
        BY <1>1
      <4>3. QED
        BY <3>1, <4>1, <4>2 DEF One
    <3>3. percents(column)
      BY <1>1, <1>2, <3>2
    <3>4. normal[i].n = column[i].n \div 100
      BY <1>4, <2>3, <3>3, NumbersAre
    <3>5. /\ column[i].n = 0 \/ (One + One \div 2 < column[i].n /\ column[i].n <= 100 * One)
          /\ column[i].n \in Nat /\ (column[i].n > One => column[i].n % 100 = 0)
      BY <1>1, <1>6, <2>3
    <3>6. column[i].n % 100 = 0 /\ column[i].n <= 100 * One
      BY <3>5 DEF One
    <3>7. (column[i].n \div 100) * 100 = column[i].n /\ column[i].n \div 100 \in Nat /\ column[i].n \div 100 <= One
      BY <3>5, <3>6 DEF One
    <3>8. QED
      BY <2>3, <3>4, <3>7
  <2>4. QED
    BY <2>1, <2>2, <2>3
<1>7. ASSUME fractions \/ inPercent PROVE NormalizeColumn("percent", normal) = normal
  <2>1. \A i \in at(normal) : normal[i].n \in Nat /\ normal[i].n <= One
    BY <1>4, <1>5, <1>6, <1>7
  <2>2. ~percents(normal)
    BY <1>1, <1>2, <1>4, <2>1
  <2>3. \A i \in DOMAIN normal : IsNumber(normal[i]) => normal[i] = Num(normal[i].n)
    BY <1>4, <1>5, NumbersAre
  <2>4. QED
    BY <1>3, <1>4, <2>2, <2>3
<1>8. fractions \/ inPercent =>
        /\ \A i \in DOMAIN column : IF IsNumber(column[i]) THEN normal[i].n * scale = column[i].n
                                     ELSE normal[i] = column[i]
        /\ NormalizeColumn("percent", normal) = normal
  BY <1>6, <1>7
<1>9. QED
  BY <1>8 DEF PurityOnOneScale

(* What a column of a kind is made of when it has been normalised. *)
LEMMA Outputs ==
  ASSUME NEW kind, NEW column, IsColumn(kind, column), NEW normal, normal = NormalizeColumn(kind, column)
  PROVE  OutputsAgree(kind, normal)
<1> SUFFICES ASSUME NEW i \in DOMAIN normal,
                    kind \in {"integer", "karat"} /\ IsNumber(normal[i]) => Whole(normal[i].n)
             PROVE  ExcelShows(ExcelFormat(kind, normal), normal[i]) = DisplayValue(kind, normal[i])
  BY DEF OutputsAgree
<1> DEFINE c == normal[i]
           fmt == ExcelFormat(kind, normal)
<1>1. i \in DOMAIN column /\ IsCell(column[i]) /\ kind \in Kinds
  BY DEF IsColumn, NormalizeColumn, PercentSeries
<1>2. /\ c.k \in {"blank", "num", "typed", "text"}
      /\ c.k = "num" => c.n \in Int /\ kind # "identifier"
      /\ c.k = "typed" => c = Typed(c.n) /\ kind \in {"text", "identifier"}
  <2> DEFINE d == column[i]
  <2>1. /\ d.k \in {"blank", "num", "typed", "text"} /\ d.n \in Int
        /\ d.k = "num" => d = Num(d.n)
        /\ d.k = "typed" => d = Typed(d.n)
    BY <1>1, KindOfCell
  <2>2. CASE kind = "percent"
    <3>1. (~IsNumber(d) /\ c = d) \/ (IsNumber(d) /\ (c = Num(d.n) \/ c = Num(d.n \div 100)))
      BY <1>1, <2>2 DEF NormalizeColumn, PercentSeries
    <3>2. d.n \div 100 \in Int
      BY <2>1
    <3> HIDE DEF c, d
    <3>3. CASE ~IsNumber(d) /\ c = d
      BY <2>1, <2>2, <3>3 DEF IsNumber
    <3>4. CASE c = Num(d.n) \/ c = Num(d.n \div 100)
      BY <2>1, <2>2, <3>2, <3>4, NumbersAre
    <3>5. QED
      BY <3>1, <3>3, <3>4
  <2>3. CASE kind = "text"
    <3>1. c = d
      BY <1>1, <2>3 DEF NormalizeColumn
    <3>2. QED
      BY <2>1, <2>3, <3>1
  <2>4. CASE kind = "identifier"
    <3>1. c = Identifier(d)
      BY <1>1, <2>4 DEF NormalizeColumn
    <3>2. (c = d /\ d.k # "num") \/ (\E n : c = Typed(n))
      BY <3>1 DEF Identifier
    <3> HIDE DEF c, d
    <3>3. CASE c = d /\ d.k # "num"
      BY <2>1, <2>4, <3>3
    <3>4. CASE \E n : c = Typed(n)
      BY <2>4, <3>4, NumbersAre
    <3>5. QED
      BY <3>2, <3>3, <3>4
  <2>5. CASE kind = "karat"
    <3>1. c = Karat(d)
      BY <1>1, <2>5 DEF NormalizeColumn
    <3>2. CASE d.k = "text"
      <4>1. d = Text(d.word, d.upper)
        BY <1>1, <3>2, NumbersAre DEF IsCell
      <4>2. c = [d EXCEPT !.upper = TRUE]
        BY <3>1, <3>2 DEF Karat
      <4>3. c.k = "text"
        BY <4>1, <4>2, NumbersAre
      <4>4. QED
        BY <4>3
    <3>3. CASE d.k # "text"
      <4>1. (IsNumber(d) /\ c = Num(d.n)) \/ (~IsNumber(d) /\ c = d)
        BY <3>1, <3>3 DEF Karat, Quantity
      <4> HIDE DEF c, d
      <4>2. QED
        BY <2>1, <2>5, <4>1, NumbersAre DEF IsNumber
    <3>4. QED
      BY <3>2, <3>3
  <2>6. CASE kind \in {"integer", "weight", "money"}
    <3>1. (IsNumber(d) /\ c = Num(d.n)) \/ (~IsNumber(d) /\ c = d)
      BY <1>1, <2>6 DEF NormalizeColumn, Quantity
    <3> HIDE DEF c, d
    <3>2. QED
      BY <2>1, <2>6, <3>1, NumbersAre DEF IsNumber
  <2>7. QED
    BY <1>1, <2>2, <2>3, <2>4, <2>5, <2>6 DEF Kinds
<1>3. fmt = kind \/ (fmt = "text" /\ kind \in {"integer", "karat"})
  BY DEF ExcelFormat
<1>4. kind \in {"integer", "karat"} /\ c.k = "num" => Whole(c.n)
  BY DEF IsNumber
<1> HIDE DEF c, fmt
<1>5. CASE c.k # "num"
  <2>1. ExcelShows(fmt, c) = c
    BY <1>5 DEF ExcelShows
  <2>2. DisplayValue(kind, c) = c
    <3>1. CASE c.k = "typed"
      BY <1>2, <3>1 DEF DisplayValue, IsNumber
    <3>2. CASE c.k # "typed"
      BY <1>5, <3>2 DEF DisplayValue, IsNumber
    <3>3. QED
      BY <3>1, <3>2
  <2>3. QED
    BY <2>1, <2>2 DEF c, fmt
<1>6. CASE c.k = "num"
  <2>1. CASE kind \in {"weight", "money"}
    <3>1. fmt = kind
      BY <1>3, <2>1
    <3>2. ExcelShows(fmt, c) = Typed(Nearest(c.n, One \div 100))
      BY <1>6, <2>1, <3>1 DEF ExcelShows
    <3>3. DisplayValue(kind, c) = Typed(Nearest(c.n, One \div 100))
      BY <1>6, <2>1 DEF DisplayValue, IsNumber
    <3>4. QED
      BY <3>2, <3>3 DEF c, fmt
  <2>2. CASE kind \in {"text", "percent", "integer", "karat"}
    <3>1. DisplayValue(kind, c) = Typed(c.n)
      BY <1>6, <2>2 DEF DisplayValue, IsNumber
    <3>2. CASE fmt \in {"text", "percent"}
      <4>1. ExcelShows(fmt, c) = Typed(c.n)
        BY <1>6, <3>2 DEF ExcelShows
      <4>2. QED
        BY <3>1, <4>1 DEF c, fmt
    <3>3. CASE fmt \in {"integer", "karat"}
      <4>1. ExcelShows(fmt, c) = Typed(Nearest(c.n, One))
        BY <1>6, <3>3 DEF ExcelShows
      <4>2. kind \in {"integer", "karat"}
        BY <1>3, <3>3
      <4>3. Nearest(c.n, One) = c.n
        BY <1>2, <1>4, <1>6, <4>2, NearestItself
      <4>4. QED
        BY <3>1, <4>1, <4>3 DEF c, fmt
    <3>4. QED
      BY <1>3, <2>2, <3>2, <3>3
  <2>3. QED
    BY <1>1, <1>2, <1>6, <2>1, <2>2 DEF Kinds
<1>7. QED
  BY <1>5, <1>6

-----------------------------------------------------------------------------
(* A name with a number after it is told from one with another.               *)
LEMMA NumberedApart ==
  ASSUME NEW name, IsSequence(name), name # <<>>, NEW k
  PROVE  Lower(Append(name, k))[Len(name) + 1] = k
<1>1. /\ IsSequence(Append(name, k)) /\ Len(Append(name, k)) = Len(name) + 1 /\ Len(name) \in Nat
      /\ Append(name, k)[Len(name) + 1] = k
  BY Appending
<1>2. Len(name) # 0
  <2>1. CASE Len(name) = 0
    <3>1. name = [i \in 1..0 |-> name[i]]
      BY <2>1 DEF IsSequence
    <3>2. name = <<>>
      BY <3>1
    <3>3. QED
      BY <3>2
  <2>2. QED
    BY <2>1
<1> DEFINE s == Append(name, k)
<1>3. DOMAIN s = 1..(Len(name) + 1) /\ Len(name) + 1 \in DOMAIN s /\ Len(name) + 1 # 1
  BY <1>1, <1>2 DEF IsSequence
<1> HIDE DEF s
<1>4. Lower(s)[Len(name) + 1] = s[Len(name) + 1]
  BY <1>3 DEF Lower
<1>5. QED
  BY <1>1, <1>4 DEF s

(* Of "name", "name (2)", ... one is free, and so there is a first.           *)
LEMMA CandidateIsNew ==
  ASSUME NEW name, IsSequence(name), name # <<>>, NEW used, IsFiniteSet(used)
  PROVE  Lower(Candidate(name, used)) \notin used
<1> DEFINE c == Cardinality(used)
           numbered(k) == Lower(Append(name, k))
           free == {k \in 2..(c + 2) : numbered(k) \notin used}
<1>1. c \in Nat
  BY FS_CardinalityType
<1>2. \A k : numbered(k)[Len(name) + 1] = k
  BY NumberedApart
<1>3. free # {}
  <2> SUFFICES ASSUME free = {} PROVE FALSE
    OBVIOUS
  <2> DEFINE S == 2..(c + 2)
             f == [k \in S |-> numbered(k)]
  <2> HIDE DEF numbered
  <2>1. f \in [S -> used]
    OBVIOUS
  <2>2. IsFiniteSet(S) /\ Cardinality(S) = c + 1
    BY <1>1, FS_Interval
  <2>3. c < c + 1
    BY <1>1
  <2>4. \A x \in S : f[x] = numbered(x)
    OBVIOUS
  <2>5. \E x, y \in S : x # y /\ f[x] = f[y]
    <3> HIDE DEF f, S
    <3>1. QED
      BY <2>1, <2>2, <2>3, FS_PigeonHole
  <2>6. QED
    BY <1>2, <2>4, <2>5
<1>4. PICK k \in free : \A j \in free : k <= j
  <2>1. free \subseteq Nat
    BY <1>1
  <2> HIDE DEF free
  <2>2. QED
    BY <1>3, <2>1, LeastNumber
<1> HIDE DEF numbered
<1>5. k \in 2..(c + 2) /\ numbered(k) \notin used /\ \A j \in 2..(k - 1) : numbered(j) \in used
  BY <1>1, <1>4
<1> DEFINE first == CHOOSE m \in 2..(c + 2) : numbered(m) \notin used /\ \A j \in 2..(m - 1) : numbered(j) \in used
<1>6. numbered(first) \notin used
  BY <1>5
<1>7. CASE Lower(name) \notin used
  BY <1>7 DEF Candidate
<1>8. CASE Lower(name) \in used
  <2>1. Candidate(name, used) = Append(name, first)
    BY <1>8 DEF Candidate, numbered
  <2> HIDE DEF first
  <2>2. QED
    BY <1>6, <2>1 DEF numbered
<1>9. QED
  BY <1>7, <1>8

(* How many pages the merge takes of a file. *)
LEMMA PagesOfIs ==
  ASSUME NEW p, IsPdf(p)
  PROVE  PagesOf(p) \in Nat /\ PagesOf(p) <= p.pages /\ (~Skipped(p) => PagesOf(p) = p.pages)
<1>1. p.pages \in Nat /\ p.good \in Nat /\ p.good <= p.pages
      /\ p.opens \in {"yes", "unlocked", "password", "broken"}
  BY DEF IsPdf
<1>2. CASE p.opens \in {"yes", "unlocked"}
  BY <1>1, <1>2 DEF PagesOf
<1>3. CASE p.opens = "broken"
  BY <1>1, <1>3 DEF PagesOf, Skipped
<1>4. CASE p.opens = "password"
  BY <1>1, <1>4 DEF PagesOf, Skipped
<1>5. QED
  BY <1>1, <1>2, <1>3, <1>4

(* The merged PDF of a branch: the readable pages of its files, in order.     *)
LEMMA MergedPagesAre ==
  ASSUME NEW pdfs, IsSequence(pdfs), \A i \in 1..Len(pdfs) : IsPdf(pdfs[i]),
         NEW pages, pages = MergedPages(pdfs)
  PROVE  /\ \A p, q \in DOMAIN pages :
              p < q => pages[p][1] < pages[q][1] \/ (pages[p][1] = pages[q][1] /\ pages[p][2] < pages[q][2])
         /\ \A f \in DOMAIN pdfs : \A n \in 1..PagesOf(pdfs[f]) : <<f, n>> \in Range(pages)
<1> DEFINE of(i) == [n \in 1..PagesOf(pdfs[i]) |-> <<i, n>>]
           seqs == [i \in DOMAIN pdfs |-> of(i)]
           N == Len(pdfs)
<1>1. N \in Nat /\ DOMAIN pdfs = 1..N
  BY DEF IsSequence
<1>2. \A i \in 1..N : PagesOf(pdfs[i]) \in Nat
  BY PagesOfIs
<1>3. ASSUME NEW i \in 1..N
      PROVE  IsSequence(of(i)) /\ Len(of(i)) = PagesOf(pdfs[i]) /\ \A n \in 1..PagesOf(pdfs[i]) : of(i)[n] = <<i, n>>
  <2> DEFINE m == PagesOf(pdfs[i])
  <2>1. m \in Nat
    BY <1>2
  <2> HIDE DEF m
  <2>2. Len([n \in 1..m |-> <<i, n>>]) = m
    BY <2>1
  <2>3. QED
    BY <2>1, <2>2 DEF IsSequence, m
<1>4. pages = FlattenSeq(seqs)
  BY DEF MergedPages
<1>5. IsSequence(seqs) /\ Len(seqs) = N /\ \A i \in 1..N : seqs[i] = of(i)
  BY <1>1 DEF IsSequence
<1> HIDE DEF seqs, of
<1>6. Joined(seqs, N, pages)
  BY <1>3, <1>4, <1>5, FlattenedIs
<1>7. PICK at : JoinedBy(seqs, N, pages, at)
  BY <1>6 DEF Joined
<1>8. DOMAIN pages = 1..Len(pages) /\ Range(pages) = {pages[p] : p \in 1..Len(pages)}
  BY <1>6, IsSeqOf DEF Joined
<1>9. ASSUME NEW p \in 1..Len(pages) PROVE pages[p] = <<at[p][1], at[p][2]>>
  <2>1. at[p][1] \in 1..N /\ at[p][2] \in 1..Len(seqs[at[p][1]]) /\ pages[p] = seqs[at[p][1]][at[p][2]]
    BY <1>7 DEF JoinedBy
  <2>2. QED
    BY <1>3, <1>5, <2>1
<1>10. \A p \in 1..Len(pages) : pages[p][1] = at[p][1] /\ pages[p][2] = at[p][2]
  BY <1>9
<1>11. \A p, q \in DOMAIN pages :
         p < q => pages[p][1] < pages[q][1] \/ (pages[p][1] = pages[q][1] /\ pages[p][2] < pages[q][2])
  BY <1>7, <1>8, <1>10 DEF JoinedBy
<1>12. ASSUME NEW f \in DOMAIN pdfs, NEW n \in 1..PagesOf(pdfs[f]) PROVE <<f, n>> \in Range(pages)
  <2>1. f \in 1..N /\ n \in 1..Len(seqs[f])
    BY <1>1, <1>3, <1>5
  <2>2. PICK p \in 1..Len(pages) : at[p][1] = f /\ at[p][2] = n
    BY <1>7, <2>1 DEF JoinedBy
  <2>3. pages[p] = <<f, n>>
    BY <1>9, <2>2
  <2>4. QED
    BY <1>8, <2>3
<1>13. QED
  BY <1>11, <1>12

-----------------------------------------------------------------------------
NothingMerged == [used |-> {}, zip |-> <<>>, notes |-> {}]

(* What holds after the first n of the branches found.                        *)
MergedSoFar(found, n, acc) ==
  /\ IsFiniteSet(acc.used) /\ IsSequence(acc.zip)
  /\ \A i \in 1..Len(acc.zip) :
       /\ Lower(acc.zip[i].name) \in acc.used
       /\ acc.zip[i].pages = MergedPages(acc.zip[i].branch.pdfs) /\ acc.zip[i].pages # <<>>
       /\ \E a \in 1..n : acc.zip[i].branch = found[a]
  /\ \A i, j \in 1..Len(acc.zip) : i # j =>
       /\ Lower(acc.zip[i].name) # Lower(acc.zip[j].name)
       /\ acc.zip[i].branch.id # acc.zip[j].branch.id
  /\ \A a \in 1..n :
       \/ MergedPages(found[a].pdfs) = <<>> /\ <<"nothing", found[a].id>> \in acc.notes
       \/ \E i \in 1..Len(acc.zip) : acc.zip[i].branch = found[a]
  /\ \A a \in 1..n : \A f \in DOMAIN found[a].pdfs :
       Skipped(found[a].pdfs[f]) => <<"skipped", found[a].id, f>> \in acc.notes

LEMMA MergeStarts ==
  ASSUME NEW found PROVE MergedSoFar(found, 0, NothingMerged)
<1>1. NothingMerged.zip = <<>> /\ NothingMerged.used = {} /\ Len(<<>>) = 0 /\ IsSequence(<<>>)
  BY DEF NothingMerged, IsSequence
<1>2. IsFiniteSet(NothingMerged.used)
  BY <1>1, FS_EmptySet
<1>3. 1..0 = {}
  OBVIOUS
<1>4. QED
  BY <1>1, <1>2, <1>3 DEF MergedSoFar

LEMMA MergeContinues ==
  ASSUME NEW found, NEW n \in Nat, NEW acc, MergedSoFar(found, n, acc),
         \A a \in 1..n : found[a].id # found[n + 1].id,
         IsSequence(found[n + 1].name), found[n + 1].name # <<>>
  PROVE  MergedSoFar(found, n + 1, MergeBranch(acc, found[n + 1]))
<1> DEFINE b == found[n + 1]
           name == Candidate(SafeName(b.name), acc.used)
           pages == MergedPages(b.pdfs)
           e == [branch |-> b, name |-> name, pages |-> pages]
           next == MergeBranch(acc, b)
<1>1. /\ next.used = acc.used \cup {Lower(name)}
      /\ next.zip = IF pages = <<>> THEN acc.zip ELSE Append(acc.zip, e)
      /\ acc.notes \subseteq next.notes
      /\ pages = <<>> => <<"nothing", b.id>> \in next.notes
      /\ \A f \in DOMAIN b.pdfs : Skipped(b.pdfs[f]) => <<"skipped", b.id, f>> \in next.notes
  BY DEF MergeBranch
<1> HIDE DEF next
<1>2. Lower(name) \notin acc.used /\ IsFiniteSet(acc.used)
  <2>1. IsSequence(SafeName(b.name)) /\ SafeName(b.name) # <<>>
    <3> DEFINE s == SafeName(b.name)
    <3>1. IsSequence(b.name) /\ b.name # <<>> /\ DOMAIN s = DOMAIN b.name /\ s = [i \in DOMAIN b.name |-> s[i]]
      BY DEF SafeName
    <3> HIDE DEF s
    <3>2. DOMAIN b.name = 1..Len(b.name) /\ Len(b.name) \in Nat
      BY <3>1 DEF IsSequence
    <3>3. Len(s) = Len(b.name)
      BY <3>1, <3>2
    <3>4. IsSequence(s)
      BY <3>1, <3>2, <3>3 DEF IsSequence
    <3>5. s # <<>>
      <4>1. b.name = <<>> \/ Len(b.name) # 0
        BY <3>1, <3>2 DEF IsSequence
      <4>2. QED
        BY <3>1, <3>3, <4>1
    <3>6. QED
      BY <3>4, <3>5 DEF s
  <2>2. IsFiniteSet(acc.used)
    BY DEF MergedSoFar
  <2>3. QED
    BY <2>1, <2>2, CandidateIsNew
<1> HIDE DEF name
<1>3. IsFiniteSet(next.used)
  BY <1>1, <1>2, FS_AddElement
<1>4. e.branch = b /\ e.name = name /\ e.pages = pages
  OBVIOUS
<1> HIDE DEF e, pages
<1>5. CASE pages = <<>>
  <2>1. next.zip = acc.zip
    BY <1>1, <1>5
  <2>2. \A a \in 1..(n + 1) : a \in 1..n \/ a = n + 1
    OBVIOUS
  <2>3. \A a \in 1..n : a \in 1..(n + 1)
    OBVIOUS
  <2>4. ASSUME NEW a \in 1..(n + 1)
        PROVE  /\ \/ MergedPages(found[a].pdfs) = <<>> /\ <<"nothing", found[a].id>> \in next.notes
                  \/ \E i \in 1..Len(next.zip) : next.zip[i].branch = found[a]
               /\ \A f \in DOMAIN found[a].pdfs :
                    Skipped(found[a].pdfs[f]) => <<"skipped", found[a].id, f>> \in next.notes
    <3>1. CASE a \in 1..n
      <4>1. \/ MergedPages(found[a].pdfs) = <<>> /\ <<"nothing", found[a].id>> \in acc.notes
            \/ \E i \in 1..Len(acc.zip) : acc.zip[i].branch = found[a]
        BY <3>1, Zenon DEF MergedSoFar
      <4>2. \A f \in DOMAIN found[a].pdfs :
              Skipped(found[a].pdfs[f]) => <<"skipped", found[a].id, f>> \in acc.notes
        BY <3>1, Zenon DEF MergedSoFar
      <4>3. QED
        BY <1>1, <2>1, <4>1, <4>2, Zenon
    <3>2. CASE a = n + 1
      BY <1>1, <1>5, <3>2 DEF pages
    <3>3. QED
      BY <2>2, <3>1, <3>2
  <2>5. ASSUME NEW i \in 1..Len(next.zip)
        PROVE  /\ Lower(next.zip[i].name) \in next.used
               /\ next.zip[i].pages = MergedPages(next.zip[i].branch.pdfs) /\ next.zip[i].pages # <<>>
               /\ \E a \in 1..(n + 1) : next.zip[i].branch = found[a]
    <3>1. i \in 1..Len(acc.zip) /\ next.zip[i] = acc.zip[i]
      BY <2>1
    <3>2. /\ Lower(acc.zip[i].name) \in acc.used
          /\ acc.zip[i].pages = MergedPages(acc.zip[i].branch.pdfs) /\ acc.zip[i].pages # <<>>
          /\ \E a \in 1..n : acc.zip[i].branch = found[a]
      BY <3>1, Zenon DEF MergedSoFar
    <3>3. QED
      BY <1>1, <2>3, <3>1, <3>2, Zenon
  <2>6. /\ IsSequence(next.zip)
        /\ \A i, j \in 1..Len(next.zip) : i # j =>
             /\ Lower(next.zip[i].name) # Lower(next.zip[j].name)
             /\ next.zip[i].branch.id # next.zip[j].branch.id
    <3>1. /\ IsSequence(acc.zip)
          /\ \A i, j \in 1..Len(acc.zip) : i # j =>
               /\ Lower(acc.zip[i].name) # Lower(acc.zip[j].name)
               /\ acc.zip[i].branch.id # acc.zip[j].branch.id
      BY DEF MergedSoFar
    <3>2. QED
      BY <2>1, <3>1
  <2>7. QED
    BY <1>3, <2>4, <2>5, <2>6, Zenon DEF MergedSoFar, next, b
<1>6. CASE pages # <<>>
  <2> DEFINE L == Len(acc.zip)
             zip == next.zip
  <2>1. /\ IsSequence(zip) /\ Len(zip) = L + 1 /\ L \in Nat
        /\ (\A i \in 1..L : zip[i] = acc.zip[i]) /\ zip[L + 1] = e
    <3>1. IsSequence(acc.zip) /\ zip = Append(acc.zip, e)
      BY <1>1, <1>6 DEF MergedSoFar
    <3> HIDE DEF zip
    <3>2. QED
      BY <3>1, Appending
  <2>2. \A a \in 1..(n + 1) : a \in 1..n \/ a = n + 1
    OBVIOUS
  <2>3. (\A a \in 1..n : a \in 1..(n + 1)) /\ n + 1 \in 1..(n + 1)
    OBVIOUS
  <2> HIDE DEF zip
  <2>4. /\ (\A i \in 1..Len(zip) : i \in 1..L \/ i = L + 1)
        /\ (\A i \in 1..L : i \in 1..Len(zip) /\ i # L + 1) /\ L + 1 \in 1..Len(zip)
    BY <2>1
  <2>5. ASSUME NEW a \in 1..(n + 1)
        PROVE  /\ \/ MergedPages(found[a].pdfs) = <<>> /\ <<"nothing", found[a].id>> \in next.notes
                  \/ \E i \in 1..Len(zip) : zip[i].branch = found[a]
               /\ \A f \in DOMAIN found[a].pdfs :
                    Skipped(found[a].pdfs[f]) => <<"skipped", found[a].id, f>> \in next.notes
    <3>1. CASE a \in 1..n
      <4>1. \/ MergedPages(found[a].pdfs) = <<>> /\ <<"nothing", found[a].id>> \in acc.notes
            \/ \E i \in 1..L : acc.zip[i].branch = found[a]
        BY <3>1, Zenon DEF MergedSoFar
      <4>2. \A f \in DOMAIN found[a].pdfs :
              Skipped(found[a].pdfs[f]) => <<"skipped", found[a].id, f>> \in acc.notes
        BY <3>1, Zenon DEF MergedSoFar
      <4> HIDE DEF L
      <4>3. QED
        BY <1>1, <2>1, <2>4, <4>1, <4>2, Zenon
    <3>2. CASE a = n + 1
      <4>1. zip[L + 1].branch = found[a]
        BY <1>4, <2>1, <3>2
      <4>2. \A f \in DOMAIN found[a].pdfs :
              Skipped(found[a].pdfs[f]) => <<"skipped", found[a].id, f>> \in next.notes
        BY <1>1, <3>2
      <4> HIDE DEF L
      <4>3. QED
        BY <2>4, <4>1, <4>2, Zenon
    <3>3. QED
      BY <2>2, <3>1, <3>2
  <2>6. ASSUME NEW i \in 1..Len(zip)
        PROVE  /\ Lower(zip[i].name) \in next.used
               /\ zip[i].pages = MergedPages(zip[i].branch.pdfs) /\ zip[i].pages # <<>>
               /\ \E a \in 1..(n + 1) : zip[i].branch = found[a]
    <3>1. CASE i \in 1..L
      <4>1. /\ Lower(acc.zip[i].name) \in acc.used
            /\ acc.zip[i].pages = MergedPages(acc.zip[i].branch.pdfs) /\ acc.zip[i].pages # <<>>
            /\ \E a \in 1..n : acc.zip[i].branch = found[a]
        BY <3>1, Zenon DEF MergedSoFar
      <4>2. zip[i] = acc.zip[i]
        BY <2>1, <3>1
      <4> HIDE DEF L
      <4>3. QED
        BY <1>1, <2>3, <4>1, <4>2, Zenon
    <3>2. CASE i = L + 1
      <4>1. zip[i] = e
        BY <2>1, <3>2
      <4>2. zip[i].branch = found[n + 1] /\ zip[i].pages = pages /\ zip[i].name = name
        BY <1>4, <4>1
      <4>3. QED
        BY <1>1, <1>6, <2>3, <4>2, Zenon DEF pages
    <3>3. QED
      BY <2>4, <3>1, <3>2
  <2>7. ASSUME NEW i \in 1..L
        PROVE  /\ Lower(zip[i].name) # Lower(zip[L + 1].name)
               /\ zip[i].branch.id # zip[L + 1].branch.id
    <3>1. Lower(acc.zip[i].name) \in acc.used /\ \E a \in 1..n : acc.zip[i].branch = found[a]
      BY Zenon DEF MergedSoFar
    <3>2. zip[i] = acc.zip[i] /\ zip[L + 1].name = name /\ zip[L + 1].branch = found[n + 1]
      BY <1>4, <2>1
    <3> HIDE DEF L
    <3>3. QED
      BY <1>2, <3>1, <3>2, Zenon
  <2>8. ASSUME NEW i \in 1..Len(zip), NEW j \in 1..Len(zip), i # j
        PROVE  /\ Lower(zip[i].name) # Lower(zip[j].name)
               /\ zip[i].branch.id # zip[j].branch.id
    <3>1. CASE i \in 1..L /\ j \in 1..L
      <4>1. /\ Lower(acc.zip[i].name) # Lower(acc.zip[j].name)
            /\ acc.zip[i].branch.id # acc.zip[j].branch.id
        BY <2>8, <3>1, Zenon DEF MergedSoFar
      <4>2. zip[i] = acc.zip[i] /\ zip[j] = acc.zip[j]
        BY <2>1, <3>1
      <4>3. QED
        BY <4>1, <4>2
    <3> HIDE DEF L
    <3>2. CASE i \in 1..L /\ j = L + 1
      BY <2>7, <3>2, Zenon
    <3>3. CASE i = L + 1 /\ j \in 1..L
      BY <2>7, <3>3, Zenon
    <3>4. QED
      BY <2>4, <2>8, <3>1, <3>2, <3>3, Zenon
  <2>9. QED
    BY <1>3, <2>1, <2>5, <2>6, <2>8, Zenon DEF MergedSoFar, next, b, zip
<1>7. QED
  BY <1>5, <1>6

(* The branches found: folders of the root with PDFs, each once, none missed. *)
FoundIn(root, found) ==
  /\ IsSequence(found)
  /\ \A a \in 1..Len(found) :
       /\ IsSequence(found[a].name) /\ found[a].name # <<>>
       /\ IsSequence(found[a].pdfs) /\ \A f \in 1..Len(found[a].pdfs) : IsPdf(found[a].pdfs[f])
  /\ \A a, b \in 1..Len(found) : a < b => found[a].id # found[b].id
  /\ \A k \in DOMAIN root : root[k].folder /\ root[k].pdfs # <<>> =>
       \E a \in 1..Len(found) : found[a] = root[k]

LEMMA BranchesFound ==
  ASSUME NEW root, IsRoot(root)
  PROVE  FoundIn(root, Branches(root))
<1> DEFINE K == {e \in Range(root) : e.folder /\ e.pdfs # <<>>}
           found == Kept(root, K)
<1>1. Branches(root) = found
  BY DEF Branches
<1>2. IsSequence(root) /\ DOMAIN root = 1..Len(root) /\ \A k \in 1..Len(root) : root[k] \in Range(root)
  <2>1. IsSequence(root)
    BY DEF IsRoot
  <2>2. QED
    BY <2>1, IsSeqOf
<1>3. \A k \in 1..Len(root) : root[k].folder /\ root[k].pdfs # <<>> => root[k] \in K
  BY <1>2
<1>4. \A e \in K : e \in Range(root)
  OBVIOUS
<1> HIDE DEF K
<1>5. IsSequence(found) /\ KeptInOrder(root, K) /\ \A i \in 1..Len(found) : found[i] \in Range(root)
  BY <1>2, KeptIs
<1>6. DOMAIN found = 1..Len(found)
  BY <1>5, IsSeqOf
<1>7. ASSUME NEW a \in 1..Len(found)
      PROVE  /\ IsSequence(found[a].name) /\ found[a].name # <<>>
             /\ IsSequence(found[a].pdfs) /\ \A f \in 1..Len(found[a].pdfs) : IsPdf(found[a].pdfs[f])
  <2> DEFINE e == found[a]
  <2>1. e \in Range(root)
    BY <1>5
  <2> HIDE DEF e
  <2>2. /\ IsSequence(e.name) /\ e.name # <<>>
        /\ IsSequence(e.pdfs) /\ \A p \in Range(e.pdfs) : IsPdf(p)
    BY <2>1 DEF IsRoot
  <2>3. \A f \in 1..Len(e.pdfs) : e.pdfs[f] \in Range(e.pdfs)
    BY <2>2, IsSeqOf
  <2>4. QED
    BY <2>2, <2>3 DEF e
<1>8. ASSUME NEW a \in 1..Len(found), NEW b \in 1..Len(found), a < b
      PROVE  found[a].id # found[b].id
  <2> DEFINE at == Chosen(root, K)
  <2>1. /\ at[a] \in 1..Len(root) /\ found[a] = root[at[a]]
        /\ at[b] \in 1..Len(root) /\ found[b] = root[at[b]] /\ at[a] < at[b]
    BY <1>5, <1>6, <1>8 DEF KeptInOrder
  <2> HIDE DEF at
  <2>2. \A i, j \in 1..Len(root) : root[i].id = root[j].id => i = j
    BY <1>2 DEF IsRoot
  <2>3. at[a] # at[b]
    BY <2>1
  <2>4. QED
    BY <2>1, <2>2, <2>3
<1>9. ASSUME NEW k \in DOMAIN root, root[k].folder, root[k].pdfs # <<>>
      PROVE  \E a \in 1..Len(found) : found[a] = root[k]
  <2>1. k \in 1..Len(root) /\ root[k] \in K
    BY <1>2, <1>3, <1>9
  <2>2. PICK a \in DOMAIN found : Chosen(root, K)[a] = k
    BY <1>5, <2>1 DEF KeptInOrder
  <2>3. found[a] = root[k]
    BY <1>5, <2>2 DEF KeptInOrder
  <2>4. QED
    BY <1>6, <2>2, <2>3
<1> HIDE DEF found
<1>10. FoundIn(root, found)
  BY <1>5, <1>7, <1>8, <1>9, Zenon DEF FoundIn
<1>11. QED
  BY <1>1, <1>10

(* What the whole merge leaves: the invariant after the last branch.          *)
LEMMA MergeFolderIs ==
  ASSUME NEW root, IsRoot(root), NEW found, found = Branches(root)
  PROVE  \E done : /\ MergedSoFar(found, Len(found), done)
                   /\ MergeFolder(root).ok = (done.zip # <<>>)
                   /\ done.zip # <<>> =>
                        /\ MergeFolder(root).zip = done.zip
                        /\ MergeFolder(root).notes = done.notes \cup FindNotes(root)
<1> DEFINE N == Len(found)
           Upto(n, g) == /\ DOMAIN g = 0..n /\ g[0] = NothingMerged
                         /\ \A k \in 1..n : g[k] = MergeBranch(g[k - 1], found[k])
           T == {n \in 0..N : \E g : Upto(n, g)}
           Equation(g) == g = [n \in 0..N |-> IF n = 0 THEN NothingMerged ELSE MergeBranch(g[n - 1], found[n])]
<1>1. FoundIn(root, found)
  BY BranchesFound
<1>2. N \in Nat
  BY <1>1 DEF FoundIn, IsSequence
<1> HIDE DEF N
<1>3. 0 \in T
  <2>1. Upto(0, [n \in {0} |-> NothingMerged])
    OBVIOUS
  <2>2. 0 \in 0..N
    BY <1>2
  <2> HIDE DEF Upto
  <2>3. QED
    BY <2>1, <2>2
<1>4. ASSUME NEW n \in 0..N, n < N /\ n \in T PROVE n + 1 \in T
  <2>1. PICK g : Upto(n, g)
    BY <1>4
  <2> DEFINE last == MergeBranch(g[n], found[n + 1])
             h == [k \in 0..(n + 1) |-> IF k = n + 1 THEN last ELSE g[k]]
  <2> HIDE DEF last
  <2>2. h[0] = NothingMerged
    BY <1>2, <2>1
  <2>3. h[n + 1] = last /\ \A k \in 0..n : h[k] = g[k]
    BY <1>2
  <2>4. DOMAIN h = 0..(n + 1)
    OBVIOUS
  <2> HIDE DEF h
  <2>5. ASSUME NEW k \in 1..(n + 1) PROVE h[k] = MergeBranch(h[k - 1], found[k])
    <3>1. \/ k \in 1..n /\ k \in 0..n /\ k - 1 \in 0..n
          \/ k = n + 1 /\ k - 1 = n /\ k - 1 \in 0..n
      BY <1>2
    <3>2. CASE k \in 1..n /\ k \in 0..n /\ k - 1 \in 0..n
      BY <2>1, <2>3, <3>2
    <3>3. CASE k = n + 1 /\ k - 1 = n /\ k - 1 \in 0..n
      BY <2>3, <3>3 DEF last
    <3>4. QED
      BY <3>1, <3>2, <3>3
  <2>6. Upto(n + 1, h)
    BY <2>2, <2>4, <2>5
  <2>7. n + 1 \in 0..N
    BY <1>2, <1>4
  <2> HIDE DEF Upto
  <2>8. QED
    BY <2>6, <2>7
<1> HIDE DEF T
<1>5. N \in T
  <2>1. \A n \in 0..N : n < N /\ n \in T => n + 1 \in T
    BY <1>4
  <2>2. QED
    BY <1>2, <1>3, <2>1, CountingUp
<1>6. PICK g : Upto(N, g)
  BY <1>5 DEF T
<1>7. \A n \in 0..N : g[n] = IF n = 0 THEN NothingMerged ELSE MergeBranch(g[n - 1], found[n])
  <2>1. \A n \in 0..N : n # 0 => n \in 1..N
    BY <1>2
  <2>2. QED
    BY <1>6, <2>1
<1>8. \E f : Equation(f)
  <2> DEFINE h == [n \in 0..N |-> g[n]]
  <2>1. \A n \in 0..N : n # 0 => n - 1 \in 0..N
    BY <1>2
  <2>2. \A n \in 0..N : h[n] = g[n]
    OBVIOUS
  <2>3. \A n \in 0..N : h[n] = IF n = 0 THEN NothingMerged ELSE MergeBranch(h[n - 1], found[n])
    <3> HIDE DEF h
    <3>1. QED
      BY <1>7, <2>1, <2>2
  <2>4. Equation(h)
    BY <2>3
  <2>5. QED
    BY <2>4
<1> DEFINE after == CHOOSE f : Equation(f)
<1>9. Equation(after)
  BY <1>8
<1>10. /\ MergeFolder(root).ok = (after[N].zip # <<>>)
       /\ after[N].zip # <<>> =>
            /\ MergeFolder(root).zip = after[N].zip
            /\ MergeFolder(root).notes = after[N].notes \cup FindNotes(root)
  <2> DEFINE merge(done) ==
               IF done.zip = <<>> THEN [ok |-> FALSE]
               ELSE [ok |-> TRUE, zip |-> done.zip, notes |-> done.notes \cup FindNotes(root),
                     total |-> Added([i \in DOMAIN done.zip |-> Len(done.zip[i].pages)])]
  <2>1. MergeFolder(root) = merge(after[N])
    BY SMTT(30) DEF MergeFolder, NothingMerged, N
  <2>2. \A done : /\ merge(done).ok = (done.zip # <<>>)
                  /\ done.zip # <<>> => /\ merge(done).zip = done.zip
                                       /\ merge(done).notes = done.notes \cup FindNotes(root)
    OBVIOUS
  <2> HIDE DEF merge, after
  <2>3. QED
    BY <2>1, <2>2
<1> HIDE DEF after
<1>11. after[0] = NothingMerged /\ \A n \in 1..N : after[n] = MergeBranch(after[n - 1], found[n])
  BY <1>2, <1>9
<1> DEFINE U == {n \in 0..N : MergedSoFar(found, n, after[n])}
<1>12. 0 \in U
  BY <1>2, <1>11, MergeStarts
<1>13. ASSUME NEW n \in 0..N, n < N, n \in U PROVE n + 1 \in U
  <2>1. n \in Nat /\ n + 1 \in 1..N /\ n + 1 \in 0..N /\ (n + 1) - 1 = n
        /\ \A a \in 1..n : a \in 1..N /\ a < n + 1
    BY <1>2, <1>13
  <2>2. IsSequence(found[n + 1].name) /\ found[n + 1].name # <<>>
        /\ \A a \in 1..n : found[a].id # found[n + 1].id
    BY <1>1, <2>1, Zenon DEF FoundIn, N
  <2>3. MergedSoFar(found, n, after[n])
    BY <1>13
  <2>4. MergedSoFar(found, n + 1, MergeBranch(after[n], found[n + 1]))
    BY <2>1, <2>2, <2>3, MergeContinues
  <2>5. after[n + 1] = MergeBranch(after[n], found[n + 1])
    BY <1>11, <2>1
  <2>6. QED
    BY <2>1, <2>4, <2>5
<1>14. N \in U
  <2> HIDE DEF U
  <2>1. \A n \in 0..N : n < N /\ n \in U => n + 1 \in U
    BY <1>13
  <2>2. QED
    BY <1>2, <1>12, <2>1, CountingUp
<1>15. QED
  BY <1>10, <1>14 DEF N

(* What is in the zip and the notes of a merge, by the invariant.             *)
LEMMA MergeAnswers ==
  ASSUME NEW root, NEW found, FoundIn(root, found), NEW done, MergedSoFar(found, Len(found), done),
         NEW merged, merged.zip = done.zip, merged.notes = done.notes \cup FindNotes(root)
  PROVE  BranchesApart(merged.zip) /\ FoldersAnswered(root, merged) /\ PagesAnswered(root, merged)
<1> DEFINE N == Len(found)
<1>1. FoundIn(root, found)
  OBVIOUS
<1>2. MergedSoFar(found, N, done) /\ merged.zip = done.zip /\ merged.notes = done.notes \cup FindNotes(root)
  OBVIOUS
<1> DEFINE zip == merged.zip
<1>3. IsSequence(zip) /\ DOMAIN zip = 1..Len(zip)
  BY <1>2, IsSeqOf DEF MergedSoFar
<1> HIDE DEF N
<1>4. \A i, j \in DOMAIN zip : i # j =>
        /\ Lower(zip[i].name) # Lower(zip[j].name)
        /\ zip[i].branch.id # zip[j].branch.id
  BY <1>2, <1>3 DEF MergedSoFar
<1>5. ASSUME NEW i \in DOMAIN zip
      PROVE  /\ zip[i].pages # <<>> /\ zip[i].pages = MergedPages(zip[i].branch.pdfs)
             /\ \E a \in 1..N : zip[i].branch = found[a]
  BY <1>2, <1>3 DEF MergedSoFar
<1>6. ASSUME NEW a \in 1..N
      PROVE  \/ MergedPages(found[a].pdfs) = <<>> /\ <<"nothing", found[a].id>> \in merged.notes
             \/ \E i \in DOMAIN zip : zip[i].branch = found[a]
  <2>1. \/ MergedPages(found[a].pdfs) = <<>> /\ <<"nothing", found[a].id>> \in done.notes
        \/ \E i \in 1..Len(done.zip) : done.zip[i].branch = found[a]
    BY <1>2 DEF MergedSoFar
  <2>2. QED
    BY <1>2, <1>3, <2>1
<1>7. ASSUME NEW a \in 1..N, NEW f \in DOMAIN found[a].pdfs, Skipped(found[a].pdfs[f])
      PROVE  <<"skipped", found[a].id, f>> \in merged.notes
  BY <1>2, <1>7 DEF MergedSoFar
<1>8. ASSUME NEW a \in 1..N
      PROVE  /\ \A p, q \in DOMAIN MergedPages(found[a].pdfs) :
                  LET pages == MergedPages(found[a].pdfs)
                  IN p < q => pages[p][1] < pages[q][1] \/ (pages[p][1] = pages[q][1] /\ pages[p][2] < pages[q][2])
             /\ \A f \in DOMAIN found[a].pdfs : \A n \in 1..PagesOf(found[a].pdfs[f]) :
                  <<f, n>> \in Range(MergedPages(found[a].pdfs))
             /\ \A f \in DOMAIN found[a].pdfs : IsPdf(found[a].pdfs[f])
  <2> DEFINE pdfs == found[a].pdfs
  <2>1. IsSequence(pdfs) /\ \A f \in 1..Len(pdfs) : IsPdf(pdfs[f])
    BY <1>1 DEF FoundIn, N
  <2>2. \A f \in DOMAIN pdfs : IsPdf(pdfs[f])
    BY <2>1, IsSeqOf
  <2> DEFINE pages == MergedPages(pdfs)
  <2> HIDE DEF pdfs
  <2>3. /\ \A p, q \in DOMAIN pages :
              p < q => pages[p][1] < pages[q][1] \/ (pages[p][1] = pages[q][1] /\ pages[p][2] < pages[q][2])
        /\ \A f \in DOMAIN pdfs : \A n \in 1..PagesOf(pdfs[f]) : <<f, n>> \in Range(pages)
    BY <2>1, MergedPagesAre
  <2>4. QED
    BY <2>2, <2>3, Zenon DEF pdfs
<1>9. \A k \in DOMAIN root : root[k].folder /\ root[k].pdfs # <<>> => \E a \in 1..N : found[a] = root[k]
  BY <1>1 DEF FoundIn, N
<1> HIDE DEF zip
<1> DEFINE Answered(k, e, entry) ==
             IF ~e.folder THEN <<"loose", 0>> \in merged.notes
             ELSE IF entry = {}
             THEN {<<"empty", k>>, <<"nothing", e.id>>} \cap merged.notes # {}
             ELSE \A i \in entry :
                    /\ zip[i].pages # <<>>
                    /\ \A p, q \in DOMAIN zip[i].pages :
                         LET a == zip[i].pages[p]  b == zip[i].pages[q]
                         IN p < q => a[1] < b[1] \/ (a[1] = b[1] /\ a[2] < b[2])
<1>10. ASSUME NEW k \in DOMAIN root,
              NEW e, e = root[k], NEW entry, entry = {i \in DOMAIN zip : zip[i].branch.id = e.id}
       PROVE  Answered(k, e, entry)
  <2>1. CASE ~e.folder
    <3>1. <<"loose", 0>> \in FindNotes(root)
      BY <1>10, <2>1 DEF FindNotes
    <3>2. QED
      BY <1>2, <2>1, <3>1
  <2>2. ASSUME e.folder, entry = {} PROVE {<<"empty", k>>, <<"nothing", e.id>>} \cap merged.notes # {}
    <3>1. CASE e.pdfs = <<>>
      <4>1. <<"empty", k>> \in FindNotes(root)
        BY <1>10, <2>2, <3>1 DEF FindNotes
      <4>2. QED
        BY <1>2, <4>1
    <3>2. CASE e.pdfs # <<>>
      <4>1. PICK a \in 1..N : found[a] = e
        BY <1>9, <1>10, <2>2, <3>2
      <4>2. ~ \E i \in DOMAIN zip : zip[i].branch = found[a]
        BY <1>10, <2>2, <4>1
      <4>3. <<"nothing", e.id>> \in merged.notes
        BY <1>6, <4>1, <4>2 DEF zip
      <4>4. QED
        BY <4>3
    <3>3. QED
      BY <3>1, <3>2
  <2>3. ASSUME NEW i \in entry
        PROVE  /\ zip[i].pages # <<>>
               /\ \A p, q \in DOMAIN zip[i].pages :
                    LET a == zip[i].pages[p]  b == zip[i].pages[q]
                    IN p < q => a[1] < b[1] \/ (a[1] = b[1] /\ a[2] < b[2])
    <3>1. i \in DOMAIN zip
      BY <1>10
    <3>2. zip[i].pages # <<>> /\ zip[i].pages = MergedPages(zip[i].branch.pdfs)
      BY <1>5, <3>1 DEF zip
    <3>3. PICK a \in 1..N : zip[i].branch = found[a]
      BY <1>5, <3>1 DEF zip
    <3>4. zip[i].pages = MergedPages(found[a].pdfs)
      BY <3>2, <3>3
    <3>5. QED
      BY <1>8, <3>2, <3>4
  <2>4. QED
    BY <2>1, <2>2, <2>3
<1>11. ASSUME NEW k \in DOMAIN root, root[k].folder, NEW f \in DOMAIN root[k].pdfs,
              NEW pdf, pdf = root[k].pdfs[f],
              NEW there, there = {n \in 1..pdf.pages :
                                    \E i \in DOMAIN zip :
                                      /\ zip[i].branch.id = root[k].id
                                      /\ <<f, n>> \in Range(zip[i].pages)}
       PROVE  there # 1..pdf.pages => <<"skipped", root[k].id, f>> \in merged.notes
  <2>1. root[k].pdfs # <<>>
    BY <1>11
  <2>2. PICK a \in 1..N : found[a] = root[k]
    BY <1>9, <1>11, <2>1
  <2>3. CASE Skipped(pdf)
    BY <1>7, <1>11, <2>2, <2>3
  <2>4. ASSUME ~Skipped(pdf) PROVE there = 1..pdf.pages
    <3>1. PagesOf(pdf) = pdf.pages
      BY <1>8, <1>11, <2>2, <2>4, PagesOfIs
    <3>2. \A n \in 1..pdf.pages : <<f, n>> \in Range(MergedPages(found[a].pdfs))
      BY <1>8, <1>11, <2>2, <3>1
    <3>3. CASE MergedPages(found[a].pdfs) = <<>>
      <4>1. 1..pdf.pages = {}
        BY <3>2, <3>3 DEF Range
      <4>2. QED
        BY <1>11, <4>1
    <3>4. ASSUME NEW i \in DOMAIN zip, zip[i].branch = found[a] PROVE there = 1..pdf.pages
      <4>1. zip[i].pages = MergedPages(found[a].pdfs) /\ zip[i].branch.id = root[k].id
        BY <1>5, <2>2, <3>4 DEF zip
      <4>2. \A n \in 1..pdf.pages : <<f, n>> \in Range(zip[i].pages)
        BY <3>2, <4>1
      <4>3. QED
        BY <1>11, <4>1, <4>2
    <3>5. QED
      BY <1>6, <3>3, <3>4 DEF zip
  <2>5. QED
    BY <2>3, <2>4
<1>12. BranchesApart(merged.zip)
  BY <1>4, Zenon DEF BranchesApart, zip
<1>13. FoldersAnswered(root, merged)
  <2>1. \A k \in DOMAIN root : Answered(k, root[k], {i \in DOMAIN zip : zip[i].branch.id = root[k].id})
    <3> HIDE DEF Answered
    <3>1. QED
      BY <1>10
  <2>2. QED
    BY <2>1, Zenon DEF FoldersAnswered, zip
<1>14. PagesAnswered(root, merged)
  BY <1>11, Zenon DEF PagesAnswered, zip
<1>15. QED
  BY <1>12, <1>13, <1>14

(* A merge keeps every page of every branch or says what it left out, and     *)
(* fails only when there is nothing to keep.                                  *)
LEMMA MergeKeeps ==
  ASSUME NEW root, IsRoot(root)
  PROVE  MergeKeepsPages(root, MergeFolder(root))
<1> DEFINE found == Branches(root)
           merged == MergeFolder(root)
<1>1. FoundIn(root, found)
  BY BranchesFound
<1>2. PICK done : /\ MergedSoFar(found, Len(found), done)
                  /\ merged.ok = (done.zip # <<>>)
                  /\ done.zip # <<>> =>
                       merged.zip = done.zip /\ merged.notes = done.notes \cup FindNotes(root)
  BY MergeFolderIs
<1> HIDE DEF found, merged
<1>3. ASSUME merged.ok
      PROVE  BranchesApart(merged.zip) /\ FoldersAnswered(root, merged) /\ PagesAnswered(root, merged)
  BY <1>1, <1>2, <1>3, MergeAnswers
<1>4. ASSUME ~merged.ok, NEW e \in Range(root), e.folder, NEW p \in Range(e.pdfs)
      PROVE  PagesOf(p) = 0
  <2>1. PICK k \in DOMAIN root : root[k] = e
    BY DEF Range
  <2>2. PICK f \in DOMAIN e.pdfs : e.pdfs[f] = p
    BY DEF Range
  <2>3. PICK a \in 1..Len(found) : found[a] = e
    <3>1. e.pdfs # <<>>
      BY <2>2
    <3>2. QED
      BY <1>1, <1>4, <2>1, <3>1 DEF FoundIn
  <2>4. IsSequence(e.pdfs) /\ f \in 1..Len(e.pdfs) /\ \A n \in 1..Len(e.pdfs) : IsPdf(e.pdfs[n])
    <3>1. IsSequence(e.pdfs) /\ \A n \in 1..Len(e.pdfs) : IsPdf(e.pdfs[n])
      BY <1>1, <2>3 DEF FoundIn
    <3>2. QED
      BY <2>2, <3>1, IsSeqOf
  <2>5. MergedPages(e.pdfs) = <<>>
    <3>1. \/ MergedPages(found[a].pdfs) = <<>>
          \/ \E i \in 1..Len(done.zip) : done.zip[i].branch = found[a]
      BY <1>2 DEF MergedSoFar
    <3>2. done.zip = <<>> /\ Len(<<>>) = 0
      BY <1>2, <1>4
    <3>3. QED
      BY <2>3, <3>1, <3>2
  <2>6. \A n \in 1..PagesOf(p) : <<f, n>> \in Range(MergedPages(e.pdfs))
    BY <2>2, <2>4, MergedPagesAre
  <2>7. 1..PagesOf(p) = {}
    BY <2>5, <2>6 DEF Range
  <2>8. PagesOf(p) \in Nat
    BY <2>2, <2>4, PagesOfIs
  <2>9. QED
    BY <2>7, <2>8
<1>5. MergeKeepsPages(root, merged)
  BY <1>3, <1>4, Zenon DEF MergeKeepsPages
<1>6. QED
  BY <1>5 DEF merged

-----------------------------------------------------------------------------
(* What flattening leaves of one page: bare annotations that are no links.    *)
LEMMA PageFlattened ==
  ASSUME NEW page, IsSequence(page),
         NEW K, "shown" \notin K, NEW baked, baked = Kept(page, K),
         NEW L, "link" \notin L, L \subseteq Range(baked), NEW clean, clean = Kept(baked, L)
  PROVE  /\ Range(clean) \cap {"shown", "link"} = {}
         /\ Len(clean) \in Nat /\ Len(Kept(baked, {"link"})) \in Nat /\ Len(page) \in Nat
         /\ Len(clean) + Len(Kept(baked, {"link"})) <= Len(page)
<1> DEFINE links == Kept(baked, {"link"})
<1>2. IsSequence(baked) /\ Len(baked) <= Len(page) /\ \A k \in 1..Len(baked) : baked[k] \in K
  BY KeptIs
<1>3. IsSequence(clean) /\ \A k \in 1..Len(clean) : clean[k] \in L
  BY <1>2, KeptIs
<1>4. IsSequence(links)
  BY <1>2, KeptIs
<1>5. Len(clean) + Len(links) <= Len(baked)
  <2>1. baked \in Seq(Range(baked))
    BY <1>2, IsSeqOf
  <2>2. QED
    BY <2>1, KeptApart
<1>6. /\ \A x \in Range(clean) : \E k \in 1..Len(clean) : x = clean[k]
      /\ \A x \in Range(baked) : \E k \in 1..Len(baked) : x = baked[k]
  BY <1>2, <1>3, ItemsAre
<1>7. Range(clean) \cap {"shown", "link"} = {}
  <2> SUFFICES ASSUME NEW x \in Range(clean) PROVE x # "shown" /\ x # "link"
    OBVIOUS
  <2>1. x \in L
    BY <1>3, <1>6
  <2>2. x \in K
    BY <1>2, <1>6, <2>1
  <2>3. QED
    BY <2>1, <2>2
<1>8. Len(clean) \in Nat /\ Len(links) \in Nat /\ Len(page) \in Nat /\ Len(baked) \in Nat
  BY <1>2, <1>3, <1>4 DEF IsSequence
<1> HIDE DEF links
<1>9. Len(clean) + Len(links) <= Len(page)
  BY <1>2, <1>5, <1>8
<1>10. QED
  BY <1>7, <1>8, <1>9 DEF links

(* A flattened PDF is final, and its summary accounts for what is gone.       *)
LEMMA FlattenKeeps ==
  ASSUME NEW pdf, IsDocument(pdf), NEW flat, flat = Flatten(pdf)
  PROVE  FlattenIsFinal(pdf, flat)
<1> DEFINE pages == pdf.pages
           N == Len(pages)
           baked == BakedIn(pages)
           clean == DropLinks(baked)
           size == [i \in DOMAIN pages |-> Len(pages[i])]
           left == [i \in DOMAIN clean |-> Len(clean[i])]
           links == [i \in DOMAIN baked |-> Len(Kept(baked[i], {"link"}))]
           gone == Added(size) - Added(left)
<1> SUFFICES ASSUME pdf.opens = "yes" PROVE FlattenIsFinal(pdf, flat)
  <2>1. ASSUME pdf.opens # "yes" PROVE ~flat.ok
    BY <2>1 DEF Flatten
  <2>2. QED
    BY <2>1 DEF FlattenIsFinal
<1>1. N \in Nat /\ DOMAIN pages = 1..N /\ \A i \in 1..N : IsSequence(pages[i])
  BY IsSeqOf DEF IsDocument, IsSequence
<1>2. /\ DOMAIN baked = 1..N /\ DOMAIN clean = 1..N
      /\ \A i \in 1..N : baked[i] = Kept(pages[i], Range(pages[i]) \ {"shown"})
      /\ \A i \in 1..N : clean[i] = Kept(baked[i], Range(baked[i]) \ {"link"})
  BY <1>1 DEF BakedIn, DropLinks
<1>3. /\ flat.ok /\ ~flat.form /\ flat.pages = clean
      /\ flat.links = Added(links)
      /\ flat.annotations = IF gone >= Added(links) THEN gone - Added(links) ELSE 0
      /\ Annotations(pdf.pages) = Added(size) /\ Annotations(flat.pages) = Added(left)
  BY DEF Flatten, LinksIn, Annotations
<1> HIDE DEF baked, clean, pages
<1>4. ASSUME NEW i \in 1..N
      PROVE  /\ Range(clean[i]) \cap {"shown", "link"} = {}
             /\ Len(clean[i]) \in Nat /\ Len(Kept(baked[i], {"link"})) \in Nat /\ Len(pages[i]) \in Nat
             /\ Len(clean[i]) + Len(Kept(baked[i], {"link"})) <= Len(pages[i])
  <2> DEFINE K == Range(pages[i]) \ {"shown"}
             L == Range(baked[i]) \ {"link"}
  <2>1. "shown" \notin K /\ "link" \notin L /\ L \subseteq Range(baked[i])
    OBVIOUS
  <2>2. baked[i] = Kept(pages[i], K) /\ clean[i] = Kept(baked[i], L)
    BY <1>2
  <2> HIDE DEF K, L
  <2>3. QED
    BY <1>1, <2>1, <2>2, PageFlattened
<1>5. /\ Added(left) + Added(links) <= Added(size)
      /\ Added(left) \in Nat /\ Added(links) \in Nat /\ Added(size) \in Nat
  <2>1. /\ Len(left) = N /\ Len(links) = N /\ Len(size) = N
        /\ \A i \in 1..N : left[i] = Len(clean[i]) /\ links[i] = Len(Kept(baked[i], {"link"})) /\ size[i] = Len(pages[i])
    BY <1>1, <1>2
  <2> HIDE DEF left, links, size
  <2>2. \A i \in 1..N : left[i] \in Nat /\ links[i] \in Nat /\ size[i] \in Nat /\ left[i] + links[i] <= size[i]
    BY <1>4, <2>1
  <2> HIDE DEF N
  <2>3. Len(left) \in Nat /\ Len(links) = Len(left) /\ Len(size) = Len(left)
    BY <1>1, <2>1
  <2>4. \A i \in 1..Len(left) : left[i] \in Nat /\ links[i] \in Nat /\ size[i] \in Nat /\ left[i] + links[i] <= size[i]
    BY <2>1, <2>2
  <2>5. QED
    BY <2>3, <2>4, AddedBelow
<1>6. Added(size) = Added(left) + flat.links + flat.annotations
  <2> HIDE DEF left, links, size
  <2>1. QED
    BY <1>3, <1>5
<1>7. \A i \in DOMAIN flat.pages : Range(flat.pages[i]) \cap {"shown", "link"} = {}
  BY <1>2, <1>3, <1>4
<1>8. QED
  BY <1>3, <1>6, <1>7 DEF FlattenIsFinal

-----------------------------------------------------------------------------
(* However a branch's code was typed, and of no other branch.                 *)
LEMMA BranchCodes ==
  ASSUME NEW a, NEW b, IdfcCell(a), IdfcCell(b)
  PROVE  BranchCode(a) = BranchCode(b) <=> SameBranch(a, b)
<1>1. ASSUME NEW c, IdfcCell(c)
      PROVE  /\ NoBranchNamed(c) => BranchCode(c) = <<0, "UNKNOWN">>
             /\ ~NoBranchNamed(c) => BranchCode(c) = <<c.no, c.word>> /\ c.word # "UNKNOWN"
  <2>1. CASE c.as = "blank" \/ c.word \in {"none", "nan"}
    BY <2>1 DEF BranchCode, NoBranchNamed
  <2>2. CASE c.as # "blank" /\ c.word \notin {"none", "nan"} /\ c.word = "UNKNOWN"
    <3>1. c.word # Blanked.word /\ c.word # Number(c.no, c.as).word
      BY <2>2 DEF Blanked, Number
    <3>2. c # Blanked /\ c # Number(c.no, c.as)
      BY <3>1
    <3>3. IdfcCell(c)
      BY <1>1
    <3>4. c.no = 0
      BY <3>2, <3>3, Zenon DEF IdfcCell
    <3>5. QED
      BY <2>2, <3>4 DEF BranchCode, NoBranchNamed
  <2>3. CASE c.as # "blank" /\ c.word \notin {"none", "nan", "UNKNOWN"}
    BY <2>3 DEF BranchCode, NoBranchNamed
  <2>4. QED
    BY <2>1, <2>2, <2>3
<1>2. CASE NoBranchNamed(a) /\ NoBranchNamed(b)
  BY <1>1, <1>2 DEF SameBranch
<1>3. CASE ~NoBranchNamed(a) /\ ~NoBranchNamed(b)
  BY <1>1, <1>3 DEF SameBranch
<1>4. CASE NoBranchNamed(a) /\ ~NoBranchNamed(b)
  BY <1>1, <1>4 DEF SameBranch
<1>5. CASE ~NoBranchNamed(a) /\ NoBranchNamed(b)
  BY <1>1, <1>5 DEF SameBranch
<1>6. QED
  BY <1>2, <1>3, <1>4, <1>5

(* What is read of a master: rows, each with a cell for its branch.           *)
LEMMA MasterRead ==
  ASSUME NEW book, IsMaster(book), ReadExcel(book).ok
  PROVE  /\ IsSequence(ReadExcel(book).rows)
         /\ \A r \in DOMAIN ReadExcel(book).rows :
              IdfcCell(ReadExcel(book).rows[r]["currentbranch"])
<1> DEFINE fits == {i \in DOMAIN book : IdfcRequired \subseteq {LowerCase(h) : h \in Range(book[i].headers)}}
           sheet == book[Min(fits)]
           columns(h) == {c \in DOMAIN sheet.headers : LowerCase(sheet.headers[c]) = h}
           named == {LowerCase(h) : h \in Range(sheet.headers)} \ {""}
           read(row) == [h \in named |-> row[Max(columns(h))]]
           filled(row) == \E c \in DOMAIN row : sheet.headers[c] # "" /\ row[c] # Blanked
           K == {row \in Range(sheet.rows) : filled(row)}
           kept == Kept(sheet.rows, K)
<1>1. /\ ReadExcel(book).ok = (fits # {})
      /\ fits # {} => ReadExcel(book).rows = [r \in DOMAIN kept |-> read(kept[r])]
  <2>1. CASE fits = {}
    BY <2>1 DEF ReadExcel
  <2>2. CASE fits # {}
    BY <2>2 DEF ReadExcel
  <2>3. QED
    BY <2>1, <2>2
<1>2. Min(fits) \in DOMAIN book /\ IdfcRequired \subseteq {LowerCase(h) : h \in Range(sheet.headers)}
  <2>1. fits \subseteq Nat /\ fits # {}
    <3>1. IsSequence(book)
      BY DEF IsMaster
    <3>2. DOMAIN book = 1..Len(book) /\ Len(book) \in Nat
      BY <3>1 DEF IsSequence
    <3>3. fits \subseteq DOMAIN book /\ fits # {}
      BY <1>1
    <3> HIDE DEF fits
    <3>4. QED
      BY <3>2, <3>3
  <2>2. \E x \in fits : \A y \in fits : x <= y
    <3> DEFINE S == fits
    <3>1. S \subseteq Nat /\ S # {}
      BY <2>1
    <3> HIDE DEF S
    <3>2. \E x \in S : \A y \in S : x <= y
      BY <3>1, LeastNumber
    <3>3. QED
      BY <3>2 DEF S
  <2>3. Min(fits) \in fits
    BY <2>2 DEF Min
  <2>4. QED
    BY <2>3
<1>3. IsSequence(sheet.headers) /\ IsSequence(sheet.rows)
      /\ \A row \in Range(sheet.rows) : \A c \in DOMAIN sheet.headers : IdfcCell(row[c])
  BY <1>2 DEF IsMaster
<1> HIDE DEF fits, sheet
<1>4. PICK h \in Range(sheet.headers) : LowerCase(h) = "currentbranch"
  BY <1>2 DEF IdfcRequired
<1>5. "currentbranch" \in named
  BY <1>4
<1>6. Max(columns("currentbranch")) \in DOMAIN sheet.headers
  <2> DEFINE T == columns("currentbranch")
  <2>1. DOMAIN sheet.headers = 1..Len(sheet.headers) /\ Len(sheet.headers) \in Nat
    BY <1>3 DEF IsSequence
  <2>2. PICK c \in DOMAIN sheet.headers : h = sheet.headers[c]
    BY <1>4, <1>3, <2>1, ItemsAre
  <2>3. c \in T
    BY <1>4, <2>2
  <2>4. T \subseteq 0..Len(sheet.headers) /\ T # {}
    BY <2>1, <2>3
  <2>5. T \subseteq DOMAIN sheet.headers
    OBVIOUS
  <2> HIDE DEF T
  <2>6. \E x \in T : \A y \in T : x >= y
    BY <2>1, <2>4, GreatestNumber
  <2>7. Max(T) \in T
    BY <2>6 DEF Max
  <2>8. QED
    BY <2>5, <2>7 DEF T
<1>7. \A row \in Range(sheet.rows) : IdfcCell(read(row)["currentbranch"])
  BY <1>3, <1>5, <1>6
<1> HIDE DEF K
<1>8. IsSequence(kept) /\ \A i \in 1..Len(kept) : kept[i] \in Range(sheet.rows)
  BY <1>3, KeptIs
<1>9. DOMAIN kept = 1..Len(kept) /\ Len(kept) \in Nat
  BY <1>8 DEF IsSequence
<1> HIDE DEF kept, read
<1> DEFINE rows == [r \in DOMAIN kept |-> read(kept[r])]
<1>10. IsSequence(rows)
  BY <1>9 DEF IsSequence
<1>11. \A r \in DOMAIN rows : IdfcCell(rows[r]["currentbranch"])
  BY <1>7, <1>8, <1>9
<1>12. ReadExcel(book).rows = rows
  BY <1>1
<1>13. QED
  BY <1>10, <1>11, <1>12

LEMMA GroupsAre ==
  ASSUME NEW rows, IsSequence(rows), NEW r \in DOMAIN rows
  PROVE  LET code(q) == BranchCode(rows[q]["currentbranch"])
             own == GroupByBranch(rows)[code(r)]
             n == Cardinality({q \in 1..r : code(q) = code(r)})
         IN /\ IsSequence(own)
            /\ \A i \in DOMAIN own : \E q \in DOMAIN rows : code(q) = code(r) /\ own[i] = rows[q]
            /\ n \in DOMAIN own /\ own[n] = rows[r]
            /\ 1 \in DOMAIN own
            /\ Len(own) = Cardinality({q \in DOMAIN rows : code(q) = code(r)})
<1> DEFINE codeOf(row) == BranchCode(row["currentbranch"])
           K(c) == {row \in Range(rows) : codeOf(row) = c}
           c0 == codeOf(rows[r])
           own == Kept(rows, K(c0))
           n == Cardinality({q \in 1..r : codeOf(rows[q]) = c0})
<1>1. GroupByBranch(rows)[c0] = own
  BY DEF GroupByBranch
<1>2. /\ rows \in Seq(Range(rows)) /\ DOMAIN rows = 1..Len(rows) /\ Len(rows) \in Nat
      /\ \A q \in DOMAIN rows : rows[q] \in Range(rows)
  <2>1. rows \in Seq(Range(rows)) /\ DOMAIN rows = 1..Len(rows)
        /\ Range(rows) = {rows[i] : i \in 1..Len(rows)}
    BY IsSeqOf
  <2>2. QED
    BY <2>1 DEF IsSequence
<1>3. \A q \in DOMAIN rows : rows[q] \in K(c0) <=> codeOf(rows[q]) = c0
  BY <1>2
<1>4. r \in 1..Len(rows) /\ rows[r] \in K(c0)
  BY <1>2, <1>3
<1>5. {q \in 1..r : rows[q] \in K(c0)} = {q \in 1..r : codeOf(rows[q]) = c0}
  BY <1>2, <1>3, <1>4
<1>6. PlacesOf(rows, K(c0)) = {q \in DOMAIN rows : codeOf(rows[q]) = c0}
  BY <1>3 DEF PlacesOf
<1> DEFINE S == K(c0)
<1> HIDE DEF codeOf, S
<1>7. own = Kept(rows, S)
  BY DEF S
<1>8. IsSequence(own) /\ KeptInOrder(rows, S)
  BY <1>7, KeptIs
<1>9. DOMAIN own = 1..Len(own) /\ Len(own) \in Nat
  BY <1>8 DEF IsSequence
<1>10. n \in 1..Len(own) /\ own[n] = rows[r]
  <2>1. rows[r] \in S
    BY <1>4 DEF S
  <2> DEFINE T == Range(rows)
             B == {q \in 1..r : rows[q] \in S}
  <2>2. Cardinality(B) \in 1..Len(Kept(rows, S)) /\ Kept(rows, S)[Cardinality(B)] = rows[r]
    <3>1. rows \in Seq(T) /\ r \in 1..Len(rows) /\ \A b : b \in B <=> b \in 1..r /\ rows[b] \in S
      BY <1>2, <1>4
    <3> HIDE DEF T, B
    <3>2. QED
      BY <2>1, <3>1, KeptPlace
  <2>3. {q \in 1..r : rows[q] \in S} = {q \in 1..r : codeOf(rows[q]) = c0}
    BY <1>5 DEF S
  <2>4. Cardinality(B) = n
    BY <2>3
  <2> HIDE DEF B, n, own
  <2>5. QED
    BY <1>7, <2>2, <2>4
<1>11. Len(own) = Cardinality({q \in DOMAIN rows : codeOf(rows[q]) = c0})
  <2>1. Len(own) = Cardinality(PlacesOf(rows, S))
    BY <1>2, <1>7, KeptLength
  <2>2. QED
    BY <1>6, <2>1 DEF S
<1>12. \A i \in DOMAIN own : \E q \in DOMAIN rows : codeOf(rows[q]) = c0 /\ own[i] = rows[q]
  <2> SUFFICES ASSUME NEW i \in DOMAIN own
               PROVE  \E q \in DOMAIN rows : codeOf(rows[q]) = c0 /\ own[i] = rows[q]
    OBVIOUS
  <2> DEFINE q0 == Chosen(rows, S)[i]
  <2>1. q0 \in 1..Len(rows) /\ own[i] = rows[q0] /\ own[i] \in S
    BY <1>7, <1>8 DEF KeptInOrder
  <2> HIDE DEF q0
  <2>2. codeOf(rows[q0]) = c0
    <3>1. q0 \in DOMAIN rows /\ rows[q0] \in K(c0)
      BY <1>2, <2>1 DEF S
    <3>2. QED
      BY <1>3, <3>1
  <2>3. QED
    BY <1>2, <2>1, <2>2
<1>13. 1 \in DOMAIN own
  BY <1>9, <1>10
<1> HIDE DEF own, n
<1> DEFINE P(o, m) ==
       /\ IsSequence(o)
       /\ \A i \in DOMAIN o : \E q \in DOMAIN rows : codeOf(rows[q]) = c0 /\ o[i] = rows[q]
       /\ m \in DOMAIN o /\ o[m] = rows[r]
       /\ 1 \in DOMAIN o
       /\ Len(o) = Cardinality({q \in DOMAIN rows : codeOf(rows[q]) = c0})
<1>14. P(own, n)
  BY <1>8, <1>9, <1>10, <1>11, <1>12, <1>13
<1> HIDE DEF P
<1>15. P(GroupByBranch(rows)[c0], n)
  BY <1>1, <1>14
<1>16. QED
  BY <1>15, Zenon DEF P, n, codeOf

(* Every row of the master is in its branch's report once, at its place.      *)
LEMMA AccountsPrinted ==
  ASSUME NEW book, IsMaster(book), NEW pattern
  PROVE  AccountsArePrinted(book, pattern, IdfcReports(book, pattern))
<1> DEFINE out == IdfcReports(book, pattern)
           rows == ReadExcel(book).rows
           code(r) == BranchCode(rows[r]["currentbranch"])
           name(r) == SafeBranch(rows[r]["currentbranchname"], code(r))
           file(r) == ReportName(pattern, name(r))
           same(q, r) == SameBranch(rows[q]["currentbranch"], rows[r]["currentbranch"])
           groups == GroupByBranch(rows)
           fileOf(c) == ReportName(pattern, SafeBranch(groups[c][1]["currentbranchname"], c))
           last(f) == CHOOSE c \in DOMAIN groups : fileOf(c) = f
           Regular == /\ out.ok /\ NamesBranch(pattern)
                      /\ \A q, r \in DOMAIN rows : name(q) = name(r) <=> same(q, r)
           Listed(r) == {q \in DOMAIN rows : rows[q]["prospectno"] = rows[r]["prospectno"]}
           Before(r) == Cardinality({q \in 1..r : same(q, r)})
           Promise(r) ==
             /\ {f \in DOMAIN out.files :
                   \E line \in Range(out.files[f].lines) : line.account = rows[r]["prospectno"]}
                  = {file(q) : q \in Listed(r)}
             /\ Before(r) \in DOMAIN out.files[file(r)].lines
             /\ out.files[file(r)].lines[Before(r)].account = rows[r]["prospectno"]
             /\ out.files[file(r)].lines[Before(r)].sr = Before(r)
             /\ Len(out.files[file(r)].lines) = Cardinality({q \in DOMAIN rows : same(q, r)})
<1>1. SUFFICES ASSUME Regular, NEW r \in DOMAIN rows PROVE Promise(r)
  BY Zenon DEF AccountsArePrinted
<1>2. /\ out.ok = ReadExcel(book).ok
      /\ out.files = [f \in {fileOf(c) : c \in DOMAIN groups} |-> PrintReport(last(f), groups[last(f)])]
  BY DEF IdfcReports
<1>3. IsSequence(rows) /\ \A q \in DOMAIN rows : IdfcCell(rows[q]["currentbranch"])
  BY <1>1, <1>2, MasterRead
<1>4. DOMAIN rows = 1..Len(rows) /\ Len(rows) \in Nat
  BY <1>3 DEF IsSequence
<1>5. \A q, p \in DOMAIN rows : code(q) = code(p) <=> same(q, p)
  BY <1>3, BranchCodes
<1>6. DOMAIN groups = {code(q) : q \in DOMAIN rows}
  BY DEF GroupByBranch
<1>7. ASSUME NEW q \in DOMAIN rows
      PROVE  LET own == groups[code(q)]
                 n == Cardinality({p \in 1..q : code(p) = code(q)})
             IN /\ IsSequence(own)
                /\ \A i \in DOMAIN own : \E p \in DOMAIN rows : code(p) = code(q) /\ own[i] = rows[p]
                /\ n \in DOMAIN own /\ own[n] = rows[q]
                /\ 1 \in DOMAIN own
                /\ Len(own) = Cardinality({p \in DOMAIN rows : code(p) = code(q)})
  BY <1>3, <1>7, GroupsAre, Zenon
<1> HIDE DEF rows, groups, out
<1>8. \A q, p \in DOMAIN rows : file(q) = file(p) <=> code(q) = code(p)
  <2>1. \A q, p \in DOMAIN rows : name(q) = name(p) <=> code(q) = code(p)
    BY <1>1, <1>5, Zenon
  <2>2. \A x, y : ReportName(pattern, x) = ReportName(pattern, y) <=> x = y
    BY <1>1 DEF ReportName
  <2> HIDE DEF name, code
  <2>3. QED
    BY <2>1, <2>2
<1>9. \A q \in DOMAIN rows : fileOf(code(q)) = file(q)
  <2> SUFFICES ASSUME NEW q \in DOMAIN rows PROVE fileOf(code(q)) = file(q)
    OBVIOUS
  <2>1. PICK p \in DOMAIN rows : code(p) = code(q) /\ groups[code(q)][1] = rows[p]
    BY <1>7
  <2>2. fileOf(code(q)) = file(p)
    BY <2>1, Zenon
  <2>3. file(p) = file(q)
    BY <1>8, <2>1
  <2>4. QED
    BY <2>2, <2>3
<1> HIDE DEF fileOf, file, code, name, same
<1>10. \A q \in DOMAIN rows : /\ file(q) \in DOMAIN out.files
                              /\ out.files[file(q)] = PrintReport(code(q), groups[code(q)])
  <2> SUFFICES ASSUME NEW q \in DOMAIN rows
               PROVE  /\ file(q) \in DOMAIN out.files
                      /\ out.files[file(q)] = PrintReport(code(q), groups[code(q)])
    OBVIOUS
  <2>1. code(q) \in DOMAIN groups /\ fileOf(code(q)) = file(q)
    BY <1>6, <1>9
  <2>2. \A c \in DOMAIN groups : fileOf(c) = file(q) => c = code(q)
    <3> SUFFICES ASSUME NEW c \in DOMAIN groups, fileOf(c) = file(q) PROVE c = code(q)
      OBVIOUS
    <3>1. PICK p \in DOMAIN rows : c = code(p)
      BY <1>6
    <3>2. file(p) = file(q)
      BY <1>9, <3>1
    <3>3. QED
      BY <1>8, <3>1, <3>2
  <2>3. last(file(q)) = code(q)
    BY <2>1, <2>2
  <2>4. file(q) \in {fileOf(c) : c \in DOMAIN groups}
    BY <2>1
  <2> HIDE DEF last
  <2>5. QED
    BY <1>2, <2>3, <2>4
<1>11. DOMAIN out.files = {file(q) : q \in DOMAIN rows}
  <2>1. DOMAIN out.files = {fileOf(c) : c \in DOMAIN groups}
    BY <1>2
  <2>2. QED
    BY <1>6, <1>9, <2>1
<1> DEFINE lines(q) == out.files[file(q)].lines
<1>12. ASSUME NEW q \in DOMAIN rows
       PROVE  /\ DOMAIN lines(q) = DOMAIN groups[code(q)]
              /\ \A n \in DOMAIN groups[code(q)] :
                   lines(q)[n].sr = n /\ lines(q)[n].account = groups[code(q)][n]["prospectno"]
              /\ Len(lines(q)) = Len(groups[code(q)])
  <2>1. lines(q) = [n \in DOMAIN groups[code(q)] |->
                      [sr |-> n, account |-> groups[code(q)][n]["prospectno"],
                       tare |-> TareWeight(groups[code(q)][n]["tareweight"])]]
    <3> DEFINE report == PrintReport(code(q), groups[code(q)])
    <3>1. report.lines = [n \in DOMAIN groups[code(q)] |->
                            [sr |-> n, account |-> groups[code(q)][n]["prospectno"],
                             tare |-> TareWeight(groups[code(q)][n]["tareweight"])]]
      BY DEF PrintReport
    <3>2. out.files[file(q)] = report
      BY <1>10, <1>12
    <3> HIDE DEF report
    <3>3. QED
      BY <3>1, <3>2
  <2>2. DOMAIN groups[code(q)] = 1..Len(groups[code(q)]) /\ Len(groups[code(q)]) \in Nat
    BY <1>7, <1>12 DEF IsSequence
  <2> HIDE DEF lines
  <2>3. QED
    BY <2>1, <2>2
<1>13. {f \in DOMAIN out.files :
          \E line \in Range(out.files[f].lines) : line.account = rows[r]["prospectno"]}
         = {file(q) : q \in Listed(r)}
  <2> DEFINE account == rows[r]["prospectno"]
             Holds(f) == \E line \in Range(out.files[f].lines) : line.account = account
  <2>1. \A q \in DOMAIN rows :
          Holds(file(q)) <=> \E p \in DOMAIN rows : code(p) = code(q) /\ rows[p]["prospectno"] = account
    <3> SUFFICES ASSUME NEW q \in DOMAIN rows
                 PROVE  Holds(file(q)) <=> \E p \in DOMAIN rows : code(p) = code(q) /\ rows[p]["prospectno"] = account
      OBVIOUS
    <3> HIDE DEF account
    <3>1. Holds(file(q)) <=> \E n \in DOMAIN lines(q) : lines(q)[n].account = account
      BY DEF Range
    <3>2. Holds(file(q)) <=> \E n \in DOMAIN groups[code(q)] : groups[code(q)][n]["prospectno"] = account
      <4> HIDE DEF lines, Holds
      <4>1. QED
        BY <1>12, <3>1
    <3>3. ASSUME NEW n \in DOMAIN groups[code(q)], groups[code(q)][n]["prospectno"] = account
          PROVE  \E p \in DOMAIN rows : code(p) = code(q) /\ rows[p]["prospectno"] = account
      BY <1>7, <3>3
    <3>4. ASSUME NEW p \in DOMAIN rows, code(p) = code(q), rows[p]["prospectno"] = account
          PROVE  \E n \in DOMAIN groups[code(q)] : groups[code(q)][n]["prospectno"] = account
      <4>1. \E n \in DOMAIN groups[code(p)] : groups[code(p)][n] = rows[p]
        BY <1>7
      <4>2. QED
        BY <3>4, <4>1
    <3> HIDE DEF Holds
    <3>5. QED
      BY <3>2, <3>3, <3>4
  <2> HIDE DEF Holds
  <2>2. \A q \in DOMAIN rows : Holds(file(q)) <=> \E p \in Listed(r) : file(p) = file(q)
    BY <1>8, <2>1
  <2>3. {f \in DOMAIN out.files : Holds(f)} = {file(q) : q \in Listed(r)}
    BY <1>11, <2>2
  <2>4. QED
    BY <2>3 DEF Holds
<1>14. Before(r) = Cardinality({q \in 1..r : code(q) = code(r)})
  <2>1. {q \in 1..r : code(q) = code(r)} = {q \in 1..r : same(q, r)}
    BY <1>4, <1>5
  <2>2. QED
    BY <2>1
<1>15. Cardinality({q \in DOMAIN rows : same(q, r)}) = Cardinality({q \in DOMAIN rows : code(q) = code(r)})
  <2>1. {q \in DOMAIN rows : code(q) = code(r)} = {q \in DOMAIN rows : same(q, r)}
    BY <1>5
  <2>2. QED
    BY <2>1
<1> HIDE DEF Before, lines
<1>16. /\ Before(r) \in DOMAIN groups[code(r)] /\ groups[code(r)][Before(r)] = rows[r]
       /\ Len(groups[code(r)]) = Cardinality({q \in DOMAIN rows : same(q, r)})
  BY <1>7, <1>14, <1>15
<1>17. /\ Before(r) \in DOMAIN lines(r)
       /\ lines(r)[Before(r)].account = rows[r]["prospectno"] /\ lines(r)[Before(r)].sr = Before(r)
       /\ Len(lines(r)) = Cardinality({q \in DOMAIN rows : same(q, r)})
  BY <1>12, <1>16
<1>18. QED
  BY <1>13, <1>17, Zenon DEF lines

-----------------------------------------------------------------------------
(* Sorting by serial number loses no row.                                     *)
LEMMA SerialOrder ==
  ASSUME NEW rows, IsSequence(rows), \A i \in DOMAIN rows : rows[i].sr \in Nat
  PROVE  /\ IsSequence(BySerial(rows)) /\ Len(BySerial(rows)) = Len(rows)
         /\ \A i \in 1..Len(rows) : \E n \in 1..Len(rows) : BySerial(rows)[n] = rows[i]
<1> DEFINE L == Len(rows)
           upTo(i) == {j \in DOMAIN rows : rows[j].sr < rows[i].sr \/ (rows[j].sr = rows[i].sr /\ j <= i)}
           rank(i) == Cardinality(upTo(i))
           sorted == [n \in DOMAIN rows |-> rows[CHOOSE i \in DOMAIN rows : rank(i) = n]]
<1>1. DOMAIN rows = 1..L /\ L \in Nat
  BY DEF IsSequence
<1>2. BySerial(rows) = sorted
  BY DEF BySerial
<1>3. \A i \in 1..L : rank(i) \in 1..L /\ IsFiniteSet(upTo(i))
  <2> SUFFICES ASSUME NEW i \in 1..L PROVE rank(i) \in 1..L /\ IsFiniteSet(upTo(i))
    OBVIOUS
  <2>1. upTo(i) \subseteq 1..L /\ i \in upTo(i)
    BY <1>1
  <2>2. IsFiniteSet(1..L) /\ Cardinality(1..L) = L
    BY <1>1, FirstNumbers
  <2> DEFINE U == upTo(i)
  <2> HIDE DEF U
  <2>3. U \subseteq 1..L /\ U # {}
    BY <2>1 DEF U
  <2>4. IsFiniteSet(U) /\ Cardinality(U) <= L /\ Cardinality(U) \in Nat
    <3> DEFINE V == 1..L
    <3>1. IsFiniteSet(V) /\ Cardinality(V) = L /\ U \in SUBSET V
      BY <2>2, <2>3
    <3> HIDE DEF V, L
    <3>2. IsFiniteSet(U) /\ Cardinality(U) <= L
      BY <3>1, FS_Subset
    <3>3. QED
      BY <3>2, FS_CardinalityType
  <2>5. Cardinality(U) # 0
    BY <2>3, <2>4, FS_EmptySet
  <2>6. Cardinality(U) \in 1..L
    BY <1>1, <2>4, <2>5
  <2>7. QED
    BY <2>4, <2>6 DEF U
<1>4. ASSUME NEW i \in 1..L, NEW j \in 1..L, rows[i].sr < rows[j].sr \/ (rows[i].sr = rows[j].sr /\ i < j)
      PROVE  rank(i) < rank(j)
  <2> DEFINE A == upTo(i)
             B == upTo(j)
  <2>1. \A k \in 1..L : rows[k].sr \in Nat
    BY <1>1
  <2>2. A \subseteq B /\ j \in B /\ j \notin A
    BY <1>1, <1>4, <2>1
  <2>3. IsFiniteSet(A) /\ IsFiniteSet(B)
    BY <1>3
  <2> HIDE DEF A, B
  <2>4. Cardinality(A) <= Cardinality(B) /\ Cardinality(A) # Cardinality(B)
    BY <2>2, <2>3, FS_Subset
  <2>5. Cardinality(A) \in Nat /\ Cardinality(B) \in Nat
    BY <2>3, FS_CardinalityType
  <2>6. Cardinality(A) < Cardinality(B)
    BY <2>4, <2>5
  <2>7. QED
    BY <2>6 DEF A, B
<1> HIDE DEF rank
<1>5. \A i \in 1..L : rank(i) \in Nat
  <2> HIDE DEF upTo
  <2>1. QED
    BY <1>1, <1>3
<1>6. \A i, j \in 1..L : rank(i) = rank(j) => i = j
  <2> SUFFICES ASSUME NEW i \in 1..L, NEW j \in 1..L, rank(i) = rank(j), i # j PROVE FALSE
    OBVIOUS
  <2>1. rows[i].sr \in Nat /\ rows[j].sr \in Nat
    BY <1>1
  <2>2. \/ rows[i].sr < rows[j].sr \/ (rows[i].sr = rows[j].sr /\ i < j)
        \/ rows[j].sr < rows[i].sr \/ (rows[j].sr = rows[i].sr /\ j < i)
    BY <1>1, <2>1
  <2>3. rank(i) < rank(j) \/ rank(j) < rank(i)
    BY <1>4, <2>2, Zenon
  <2>4. rank(i) \in Nat /\ rank(j) \in Nat
    BY <1>5
  <2>5. QED
    BY <2>3, <2>4
<1>7. \A i \in 1..L : sorted[rank(i)] = rows[i]
  <2> SUFFICES ASSUME NEW i \in 1..L PROVE sorted[rank(i)] = rows[i]
    OBVIOUS
  <2>1. \A j \in DOMAIN rows : rank(j) = rank(i) => j = i
    BY <1>1, <1>6
  <2>2. (CHOOSE j \in DOMAIN rows : rank(j) = rank(i)) = i
    BY <1>1, <2>1
  <2>3. rank(i) \in DOMAIN rows
    BY <1>1, <1>3
  <2>4. QED
    BY <2>2, <2>3
<1>8. IsSequence(sorted) /\ Len(sorted) = L
  BY <1>1 DEF IsSequence
<1>9. \A i \in 1..L : \E n \in 1..L : sorted[n] = rows[i]
  BY <1>3, <1>7
<1> HIDE DEF sorted
<1>10. QED
  BY <1>2, <1>8, <1>9

(* A branch's PDF has every row of the branch on a page.                      *)
LEMMA PagesHold ==
  ASSUME NEW rows, IsSequence(rows), \A i \in DOMAIN rows : rows[i].sr \in Nat
  PROVE  \A i \in DOMAIN rows : rows[i] \in Range(FlattenSeq(BranchPdf(rows)))
<1> DEFINE R == ROWS_PER_PAGE
           L == Len(rows)
           s == BySerial(rows)
           N == (L + R - 1) \div R
           first(p) == (p - 1) * R + 1
           last(p) == IF p * R > L THEN L ELSE p * R
           pages == [p \in 1..N |-> SubSeq(s, first(p), last(p))]
<1>1. /\ IsSequence(s) /\ Len(s) = L /\ L \in Nat /\ DOMAIN rows = 1..L
      /\ \A i \in 1..L : \E n \in 1..L : s[n] = rows[i]
  BY SerialOrder DEF IsSequence
<1>2. R \in Nat /\ R > 0
  BY EquitasAssumption
<1>3. BranchPdf(rows) = pages
  BY DEF BranchPdf
<1>4. N \in Nat /\ R * N <= L + R - 1 /\ L + R - 1 < R * N + R
  <2> DEFINE a == L + R - 1
  <2>1. a \in Nat
    BY <1>1, <1>2
  <2> HIDE DEF a
  <2>2. a \div R \in Nat /\ R * (a \div R) <= a /\ a < R * (a \div R) + R
    BY <1>2, <2>1
  <2>3. QED
    BY <2>2 DEF a
<1> HIDE DEF s, N
<1>5. ASSUME NEW p \in 1..N
      PROVE  /\ IsSequence(pages[p])
             /\ first(p) \in 1..L /\ last(p) \in first(p)..L /\ last(p) <= p * R
             /\ Len(pages[p]) = last(p) - first(p) + 1
             /\ \A k \in 1..(last(p) - first(p) + 1) : pages[p][k] = s[first(p) + k - 1]
  <2>1. first(p) \in Nat /\ first(p) >= 1 /\ p * R \in Nat /\ p * R = (p - 1) * R + R
    BY <1>2, <1>4
  <2>2. first(p) <= L
    <3> DEFINE x == p * R
               y == N * R
    <3>1. x <= y
      BY <1>2, <1>4
    <3>2. y = R * N /\ y \in Nat
      BY <1>2, <1>4
    <3>3. first(p) = x - R + 1 /\ x \in Nat
      BY <1>2, <2>1
    <3>4. y <= L + R - 1
      BY <1>4, <3>2
    <3> HIDE DEF x, y, first
    <3>5. QED
      BY <1>1, <1>2, <3>1, <3>2, <3>3, <3>4
  <2>3. last(p) \in Nat /\ last(p) <= L /\ last(p) <= p * R /\ first(p) <= last(p)
    BY <1>1, <1>2, <2>1, <2>2
  <2> DEFINE m == first(p)
             n == last(p)
  <2>4. pages[p] = SubSeq(s, m, n)
    OBVIOUS
  <2>5. m \in 1..L /\ n \in m..L /\ n <= p * R
    BY <1>1, <2>1, <2>2, <2>3
  <2> HIDE DEF m, n, pages
  <2>6. \E T : s \in Seq(T)
    BY <1>1, IsSeqOf
  <2>7. SubSeq(s, m, n) = [k \in 1..(n - m + 1) |-> s[k + m - 1]]
    BY <1>1, <2>5, <2>6
  <2>8. IsSequence(pages[p]) /\ Len(pages[p]) = n - m + 1
        /\ \A k \in 1..(n - m + 1) : pages[p][k] = s[m + k - 1]
    <3> DEFINE g == pages[p]
               l == n - m + 1
    <3>1. l \in Nat /\ \A k \in 1..l : k + m - 1 = m + k - 1
      BY <1>1, <2>5
    <3>2. g = [k \in 1..l |-> s[k + m - 1]]
      BY <2>4, <2>7
    <3> HIDE DEF g, l
    <3>3. DOMAIN g = 1..l /\ g = [k \in 1..l |-> g[k]] /\ \A k \in 1..l : g[k] = s[m + k - 1]
      BY <3>1, <3>2
    <3>4. IsSequence(g) /\ Len(g) = l
      BY <3>1, <3>3, AsSequence
    <3>5. QED
      BY <3>3, <3>4 DEF g, l
  <2>9. QED
    BY <2>5, <2>8 DEF m, n
<1>6. IsSequence(pages) /\ Len(pages) = N
  <2>1. DOMAIN pages = 1..N /\ pages = [p \in 1..N |-> pages[p]]
    BY Zenon
  <2> HIDE DEF pages
  <2>2. QED
    BY <1>4, <2>1, AsSequence
<1>7. ASSUME NEW n \in 1..L
      PROVE  \E p \in 1..N : \E k \in 1..Len(pages[p]) : pages[p][k] = s[n]
  <2> DEFINE d == (n - 1) \div R
  <2>1. n - 1 \in Nat /\ n - 1 < L
    BY <1>1
  <2>2. d \in Nat /\ R * d <= n - 1 /\ n - 1 < R * d + R
    <3> DEFINE a == n - 1
    <3> HIDE DEF a
    <3>1. a \in Nat
      BY <2>1 DEF a
    <3>2. a \div R \in Nat /\ R * (a \div R) <= a /\ a < R * (a \div R) + R
      BY <1>2, <3>1
    <3>3. QED
      BY <3>2 DEF a
  <2> HIDE DEF d
  <2>3. d < N
    <3> SUFFICES ASSUME N <= d PROVE FALSE
      BY <1>4, <2>2
    <3> DEFINE x == R * N
               y == R * d
    <3>1. x <= y
      BY <1>2, <1>4, <2>2
    <3>2. x \in Nat /\ y \in Nat
      BY <1>2, <1>4, <2>2
    <3>3. y <= n - 1 /\ L + R - 1 < x + R
      BY <1>4, <2>2
    <3> HIDE DEF x, y
    <3>4. QED
      BY <1>1, <1>2, <2>1, <3>1, <3>2, <3>3
  <2> DEFINE p == d + 1
             k == n - R * d
  <2>4. p \in 1..N
    BY <1>4, <2>2, <2>3
  <2>5. first(p) = R * d + 1 /\ p * R = R * d + R /\ R * d \in Nat
    BY <1>2, <2>2
  <2>6. n <= last(p)
    BY <1>1, <1>2, <2>1, <2>2, <2>5
  <2>7. last(p) \in Nat
    BY <1>1, <1>2, <2>5
  <2>8. k \in 1..(last(p) - first(p) + 1) /\ first(p) + k - 1 = n
    <3> DEFINE x == R * d
               f == first(p)
               l == last(p)
    <3>1. f = x + 1 /\ x \in Nat /\ k = n - x /\ x <= n - 1 /\ n <= l /\ l \in Nat
      BY <2>2, <2>5, <2>6, <2>7
    <3> HIDE DEF x, k, f, l
    <3>2. k \in 1..(l - f + 1) /\ f + k - 1 = n
      BY <2>1, <3>1
    <3>3. QED
      BY <3>2 DEF f, l
  <2> HIDE DEF p, k, first, last, pages
  <2>9. k \in 1..Len(pages[p]) /\ pages[p][k] = s[n]
    BY <1>5, <2>4, <2>8
  <2>10. QED
    BY <2>4, <2>9
<1> DEFINE flat == FlattenSeq(pages)
<1> HIDE DEF pages, first, last
<1>8. Joined(pages, Len(pages), flat)
  BY <1>5, <1>6, FlattenedIs DEF flat
<1>9. PICK at : JoinedBy(pages, Len(pages), flat, at)
  BY <1>8 DEF Joined
<1>10. DOMAIN flat = 1..Len(flat)
  BY <1>8 DEF Joined, IsSequence
<1> HIDE DEF flat
<1>11. ASSUME NEW i \in DOMAIN rows PROVE rows[i] \in Range(flat)
  <2>1. PICK n \in 1..L : s[n] = rows[i]
    BY <1>1
  <2>2. PICK p \in 1..N : \E k \in 1..Len(pages[p]) : pages[p][k] = s[n]
    BY <1>7
  <2>3. PICK k \in 1..Len(pages[p]) : pages[p][k] = s[n]
    BY <2>2
  <2>4. PICK q \in 1..Len(flat) : at[q][1] = p /\ at[q][2] = k
    BY <1>6, <1>9, <2>2, <2>3 DEF JoinedBy
  <2>5. flat[q] = pages[p][k]
    BY <1>9, <2>4 DEF JoinedBy
  <2>6. QED
    BY <1>10, <2>1, <2>3, <2>4, <2>5 DEF Range
<1>12. QED
  BY <1>3, <1>11 DEF flat

(* What a loan is merged to: a row for each of its packets, or one without.   *)
Part(normal, jsr, r) ==
  LET found == Kept(jsr, {j \in Range(jsr) : j.loan = normal[r].loan})
      row(packet) == [loan |-> normal[r].loan, branch |-> normal[r].branch, packet |-> packet]
  IN IF found = <<>> THEN <<row(NoPacket)>>
     ELSE [p \in DOMAIN found |-> row(found[p].packet)]

IsPart(part, normal, jsr, r) ==
  /\ IsSequence(part) /\ Len(part) = RowsFor(PacketsOf(normal, jsr, r)) /\ Len(part) >= 1
  /\ \A k \in 1..Len(part) : part[k].loan = normal[r].loan /\ part[k].branch = normal[r].branch
  /\ {part[k].packet : k \in 1..Len(part)} = PacketNumbers(jsr, PacketsOf(normal, jsr, r))

LEMMA PartIs ==
  ASSUME NEW normal, NEW jsr, IsSequence(jsr), NEW r
  PROVE  IsPart(Part(normal, jsr, r), normal, jsr, r)
<1> DEFINE packets == PacketsOf(normal, jsr, r)
           K == {j \in Range(jsr) : j.loan = normal[r].loan}
           found == Kept(jsr, K)
           row(packet) == [loan |-> normal[r].loan, branch |-> normal[r].branch, packet |-> packet]
           part == Part(normal, jsr, r)
<1>1. /\ jsr \in Seq(Range(jsr)) /\ DOMAIN jsr = 1..Len(jsr) /\ Len(jsr) \in Nat
      /\ \A q \in 1..Len(jsr) : jsr[q] \in Range(jsr)
  <2>1. jsr \in Seq(Range(jsr)) /\ DOMAIN jsr = 1..Len(jsr)
        /\ Range(jsr) = {jsr[i] : i \in 1..Len(jsr)}
    BY IsSeqOf
  <2>2. QED
    BY <2>1 DEF IsSequence
<1>2. \A q \in 1..Len(jsr) : jsr[q] \in K <=> q \in packets
  BY <1>1 DEF PacketsOf
<1>3. PlacesOf(jsr, K) = packets
  BY <1>1, <1>2 DEF PlacesOf, PacketsOf
<1>4. part = IF found = <<>> THEN <<row(NoPacket)>> ELSE [p \in DOMAIN found |-> row(found[p].packet)]
  BY DEF Part
<1> HIDE DEF K, packets, part
<1>5. IsSequence(found) /\ KeptInOrder(jsr, K)
  BY KeptIs
<1>6. IsFiniteSet(packets) /\ Len(found) = Cardinality(packets)
  BY <1>1, <1>3, KeptLength
<1>7. DOMAIN found = 1..Len(found) /\ Len(found) \in Nat
  BY <1>5 DEF IsSequence
<1>8. {found[p].packet : p \in 1..Len(found)} = {jsr[p].packet : p \in packets}
  <2>1. \A p \in 1..Len(found) : \E q \in packets : found[p] = jsr[q]
    <3> SUFFICES ASSUME NEW p \in 1..Len(found) PROVE \E q \in packets : found[p] = jsr[q]
      OBVIOUS
    <3>1. Chosen(jsr, K)[p] \in 1..Len(jsr) /\ found[p] = jsr[Chosen(jsr, K)[p]] /\ found[p] \in K
      BY <1>5, <1>7 DEF KeptInOrder
    <3>2. QED
      BY <1>2, <3>1
  <2>2. \A q \in packets : \E p \in 1..Len(found) : found[p] = jsr[q]
    <3> SUFFICES ASSUME NEW q \in packets PROVE \E p \in 1..Len(found) : found[p] = jsr[q]
      OBVIOUS
    <3>1. q \in 1..Len(jsr) /\ jsr[q] \in K
      BY <1>1, <1>2 DEF packets, PacketsOf
    <3>2. PICK p \in DOMAIN found : Chosen(jsr, K)[p] = q
      BY <1>5, <3>1 DEF KeptInOrder
    <3>3. QED
      BY <1>5, <1>7, <3>2 DEF KeptInOrder
  <2> HIDE DEF found
  <2>3. QED
    BY <2>1, <2>2
<1> HIDE DEF found
<1>9. CASE packets = {}
  <2>1. Len(found) = 0
    BY <1>6, <1>9, FS_EmptySet
  <2>2. found = <<>>
    BY <1>5, <1>7, <2>1 DEF IsSequence
  <2>3. part = <<row(NoPacket)>>
    BY <1>4, <2>2
  <2>4. DOMAIN part = 1..1 /\ part = [k \in 1..1 |-> part[k]] /\ part[1] = row(NoPacket)
    BY <2>3
  <2>5. IsSequence(part) /\ Len(part) = 1
    BY <2>4, AsSequence
  <2>6. {part[k].packet : k \in 1..1} = {NoPacket}
    BY <2>4
  <2>7. \A k \in 1..1 : part[k].loan = normal[r].loan /\ part[k].branch = normal[r].branch
    BY <2>4
  <2>8. RowsFor(packets) = 1 /\ PacketNumbers(jsr, packets) = {NoPacket}
    BY <1>9 DEF RowsFor, PacketNumbers
  <2>9. QED
    BY <2>5, <2>6, <2>7, <2>8 DEF part, packets, IsPart
<1>10. CASE packets # {}
  <2>1. Len(found) # 0
    BY <1>6, <1>10, FS_EmptySet
  <2>2. found # <<>>
    BY <2>1
  <2>3. part = [p \in 1..Len(found) |-> row(found[p].packet)]
    BY <1>4, <1>7, <2>2
  <2>4. DOMAIN part = 1..Len(found) /\ part = [k \in 1..Len(found) |-> part[k]]
    BY <2>3
  <2>5. IsSequence(part) /\ Len(part) = Len(found)
    BY <1>7, <2>4, AsSequence
  <2>6. \A k \in 1..Len(found) : /\ part[k].loan = normal[r].loan /\ part[k].branch = normal[r].branch
                                 /\ part[k].packet = found[k].packet
    BY <2>3
  <2>7. {part[k].packet : k \in 1..Len(found)} = {jsr[p].packet : p \in packets}
    BY <1>8, <2>6
  <2>8. RowsFor(packets) = Cardinality(packets) /\ PacketNumbers(jsr, packets) = {jsr[p].packet : p \in packets}
    BY <1>10 DEF RowsFor, PacketNumbers
  <2>9. Len(part) = Cardinality(packets) /\ Len(part) >= 1
    BY <1>6, <1>7, <2>1, <2>5
  <2>10. \A k \in 1..Len(part) : part[k].loan = normal[r].loan /\ part[k].branch = normal[r].branch
    BY <2>5, <2>6
  <2>11. {part[k].packet : k \in 1..Len(part)} = PacketNumbers(jsr, packets)
    BY <2>5, <2>7, <2>8
  <2>12. Len(part) = RowsFor(packets)
    BY <2>8, <2>9
  <2>13. QED
    BY <2>5, <2>9, <2>10, <2>11, <2>12 DEF part, packets, IsPart
<1>11. QED
  BY <1>9, <1>10

(* The rows of a loan in what the two sheets are merged to, when the loans    *)
(* are each listed once.                                                      *)
RowsOfLoan(merged, loan) == {m \in DOMAIN merged : merged[m].loan = loan}

LoanKept(merged, normal, jsr, r) ==
  LET own == RowsOfLoan(merged, normal[r].loan)
      packets == PacketsOf(normal, jsr, r)
  IN /\ IsFiniteSet(own) /\ own # {} /\ Cardinality(own) = RowsFor(packets)
     /\ {merged[m].packet : m \in own} = PacketNumbers(jsr, packets)
     /\ \A m \in own : merged[m].branch = normal[r].branch

LEMMA MergedIs ==
  ASSUME NEW normal, IsSequence(normal), NEW jsr, IsSequence(jsr),
         \A p, q \in DOMAIN normal : normal[p].loan.no = normal[q].loan.no => p = q
  PROVE  LET merged == LeftMerge(normal, jsr)
         IN /\ IsSequence(merged)
            /\ \A m \in DOMAIN merged : \E r \in DOMAIN normal : merged[m].loan = normal[r].loan
            /\ \A r \in DOMAIN normal : LoanKept(merged, normal, jsr, r)
<1> DEFINE parts == [r \in DOMAIN normal |-> Part(normal, jsr, r)]
           merged == LeftMerge(normal, jsr)
           N == Len(normal)
<1>1. DOMAIN normal = 1..N /\ N \in Nat
  BY DEF IsSequence
<1>2. merged = FlattenSeq(parts)
  BY DEF LeftMerge, Part
<1>3. IsSequence(parts) /\ Len(parts) = N /\ \A r \in 1..N : parts[r] = Part(normal, jsr, r)
  <2>1. DOMAIN parts = 1..N /\ parts = [r \in 1..N |-> parts[r]]
        /\ \A r \in 1..N : parts[r] = Part(normal, jsr, r)
    BY <1>1
  <2> HIDE DEF parts
  <2>2. QED
    BY <1>1, <2>1, AsSequence
<1> HIDE DEF parts, merged
<1>4. \A r \in 1..N : IsPart(parts[r], normal, jsr, r)
  BY <1>3, PartIs
<1>5. \A r \in 1..N :
        /\ IsSequence(parts[r]) /\ Len(parts[r]) = RowsFor(PacketsOf(normal, jsr, r)) /\ Len(parts[r]) >= 1
        /\ \A k \in 1..Len(parts[r]) :
             parts[r][k].loan = normal[r].loan /\ parts[r][k].branch = normal[r].branch
        /\ {parts[r][k].packet : k \in 1..Len(parts[r])} = PacketNumbers(jsr, PacketsOf(normal, jsr, r))
  BY <1>4 DEF IsPart
<1>6. Joined(parts, N, merged)
  BY <1>2, <1>3, <1>5, FlattenedIs
<1>7. PICK at : JoinedBy(parts, N, merged, at)
  BY <1>6 DEF Joined
<1>8. IsSequence(merged) /\ DOMAIN merged = 1..Len(merged) /\ Len(merged) \in Nat
  BY <1>6 DEF Joined, IsSequence
<1>9. \A m \in DOMAIN merged : /\ at[m][1] \in 1..N /\ at[m][2] \in 1..Len(parts[at[m][1]])
                              /\ merged[m] = parts[at[m][1]][at[m][2]]
  BY <1>7, <1>8 DEF JoinedBy
<1>10. \A m \in DOMAIN merged : /\ at[m][1] \in DOMAIN normal
                              /\ merged[m].loan = normal[at[m][1]].loan
                              /\ merged[m].branch = normal[at[m][1]].branch
  <2> SUFFICES ASSUME NEW m \in DOMAIN merged
               PROVE  /\ at[m][1] \in DOMAIN normal
                      /\ merged[m].loan = normal[at[m][1]].loan
                      /\ merged[m].branch = normal[at[m][1]].branch
    OBVIOUS
  <2>1. at[m][1] \in 1..N /\ at[m][2] \in 1..Len(parts[at[m][1]]) /\ merged[m] = parts[at[m][1]][at[m][2]]
    BY <1>9
  <2>2. /\ parts[at[m][1]][at[m][2]].loan = normal[at[m][1]].loan
        /\ parts[at[m][1]][at[m][2]].branch = normal[at[m][1]].branch
    BY <1>5, <2>1
  <2>3. QED
    BY <1>1, <2>1, <2>2
<1>11. ASSUME NEW r \in DOMAIN normal PROVE LoanKept(merged, normal, jsr, r)
  <2> DEFINE own == RowsOfLoan(merged, normal[r].loan)
             packets == PacketsOf(normal, jsr, r)
             l == Len(parts[r])
  <2>1. \A m \in DOMAIN merged : m \in own <=> at[m][1] = r
    BY <1>10 DEF RowsOfLoan
  <2>2. own \subseteq DOMAIN merged
    BY DEF RowsOfLoan
  <2>3. IsFiniteSet(own)
    <3>1. IsFiniteSet(1..Len(merged))
      BY <1>8, FirstNumbers
    <3>2. QED
      BY <1>8, <2>2, <3>1, FS_Subset
  <2>4. \A m \in own : merged[m].branch = normal[r].branch
    BY <1>10, <2>1, <2>2
  <2>5. \A m \in own : at[m][2] \in 1..l /\ merged[m] = parts[r][at[m][2]]
    BY <1>9, <2>1, <2>2
  <2>6. \A k \in 1..l : \E m \in own : at[m][2] = k
    <3> SUFFICES ASSUME NEW k \in 1..l PROVE \E m \in own : at[m][2] = k
      OBVIOUS
    <3>1. PICK m \in 1..Len(merged) : at[m][1] = r /\ at[m][2] = k
      BY <1>1, <1>7, <1>11 DEF JoinedBy
    <3>2. QED
      BY <1>8, <2>1, <3>1
  <2>7. \A m, q \in own : at[m][2] = at[q][2] => m = q
    <3> SUFFICES ASSUME NEW m \in own, NEW q \in own, at[m][2] = at[q][2], m # q PROVE FALSE
      OBVIOUS
    <3>1. m \in 1..Len(merged) /\ q \in 1..Len(merged) /\ at[m][1] = r /\ at[q][1] = r
      BY <1>8, <2>1, <2>2
    <3>2. m < q \/ q < m
      BY <3>1
    <3>3. at[m][2] < at[q][2] \/ at[q][2] < at[m][2]
      <4>1. r \in Nat
        BY <1>1
      <4>2. QED
        BY <1>7, <3>1, <3>2, <4>1 DEF JoinedBy
    <3>4. at[m][2] \in Nat /\ at[q][2] \in Nat
      BY <2>5
    <3>5. QED
      BY <3>3, <3>4
  <2>8. l \in Nat /\ l >= 1 /\ l = RowsFor(packets)
    BY <1>1, <1>5 DEF IsSequence
  <2> HIDE DEF own, packets, l
  <2>9. Cardinality(own) = l
    <3> DEFINE f == [m \in own |-> at[m][2]]
    <3>1. f \in [own -> 1..l]
      BY <2>5
    <3>2. f \in Injection(own, 1..l)
      BY <2>7, <3>1 DEF Injection, IsInjective
    <3>3. f \in Surjection(own, 1..l)
      BY <2>6, <3>1 DEF Surjection
    <3>4. ExistsBijection(own, 1..l)
      BY <3>2, <3>3 DEF ExistsBijection, Bijection
    <3>5. QED
      BY <2>3, <2>8, <3>4, FS_Bijection, FirstNumbers
  <2>10. own # {}
    BY <2>6, <2>8
  <2>11. {merged[m].packet : m \in own} = PacketNumbers(jsr, packets)
    <3>1. {merged[m].packet : m \in own} = {parts[r][k].packet : k \in 1..l}
      BY <2>5, <2>6
    <3>2. QED
      BY <1>1, <1>5, <3>1 DEF l, packets
  <2>12. QED
    BY <2>3, <2>4, <2>8, <2>9, <2>10, <2>11 DEF own, packets, LoanKept
<1>12. \A m \in DOMAIN merged : \E r \in DOMAIN normal : merged[m].loan = normal[r].loan
  BY <1>10
<1>13. QED
  BY <1>8, <1>11, <1>12 DEF merged

(* Loans of one serial number have one number.                                *)
LEMMA SerialIs ==
  ASSUME NEW rows, \A i \in DOMAIN rows : rows[i].loan.no \in Nat
  PROVE  \A i, j \in DOMAIN rows :
           /\ SerialOf(rows, rows[i].loan) \in Nat
           /\ SerialOf(rows, rows[i].loan) = SerialOf(rows, rows[j].loan) => rows[i].loan.no = rows[j].loan.no
<1> DEFINE nos(i) == {rows[r].loan.no : r \in {q \in DOMAIN rows : rows[q].loan.no <= rows[i].loan.no}}
           serial(i) == SerialOf(rows, rows[i].loan)
<1>1. \A i : serial(i) = Cardinality(nos(i))
  BY DEF SerialOf
<1>2. \A i \in DOMAIN rows : \A x : x \in nos(i) <=>
          x <= rows[i].loan.no /\ \E q \in DOMAIN rows : x = rows[q].loan.no
  OBVIOUS
<1> HIDE DEF nos, serial
<1>3. ASSUME NEW i \in DOMAIN rows PROVE IsFiniteSet(nos(i)) /\ serial(i) \in Nat
  <2> DEFINE S == nos(i)
             n == rows[i].loan.no
  <2>1. S \in SUBSET Nat /\ n \in Nat /\ \A x \in S : x <= n
    BY <1>2
  <2> HIDE DEF S, n
  <2>2. IsFiniteSet(S)
    BY <2>1, FS_BoundedSetOfNaturals
  <2>3. QED
    BY <1>1, <2>2, FS_CardinalityType DEF S
<1>4. ASSUME NEW i \in DOMAIN rows, NEW j \in DOMAIN rows, rows[i].loan.no < rows[j].loan.no
      PROVE  serial(i) # serial(j)
  <2>1. nos(i) \subseteq nos(j) /\ rows[j].loan.no \in nos(j) /\ rows[j].loan.no \notin nos(i)
    <3>1. \A x \in nos(i) : x \in Nat /\ x <= rows[j].loan.no
      BY <1>2, <1>4
    <3>2. QED
      BY <1>2, <1>4, <3>1
  <2> DEFINE A == nos(i)
             B == nos(j)
  <2>2. A \subseteq B /\ A # B /\ IsFiniteSet(B)
    BY <1>3, <2>1
  <2> HIDE DEF A, B
  <2>3. Cardinality(A) # Cardinality(B)
    BY <2>2, FS_Subset
  <2>4. QED
    BY <1>1, <2>3 DEF A, B
<1>5. SUFFICES ASSUME NEW i \in DOMAIN rows, NEW j \in DOMAIN rows
               PROVE  serial(i) \in Nat /\ (serial(i) = serial(j) => rows[i].loan.no = rows[j].loan.no)
  BY DEF serial
<1>6. rows[i].loan.no < rows[j].loan.no \/ rows[j].loan.no < rows[i].loan.no \/ rows[i].loan.no = rows[j].loan.no
  OBVIOUS
<1>7. QED
  BY <1>3, <1>4, <1>6

MergedOf(book, b) == LeftMerge(NormalOf(book, b), JsrOf(book, b))
MasterRow(book, b, m) ==
  LET merged == MergedOf(book, b)
  IN [pair |-> b, at |-> m, loan |-> merged[m].loan, branch |-> merged[m].branch,
      packet |-> merged[m].packet, sr |-> SerialOf(merged, merged[m].loan)]

(* The sheets of a pair. *)
LEMMA PairSheets ==
  ASSUME NEW book, IsBook(book), NEW b \in Pairs(book), NEW k \in BOOLEAN
  PROVE  SheetOf(book, b, k) \in DOMAIN book /\ book[SheetOf(book, b, k)].jsr = k
<1> DEFINE at == {i \in DOMAIN book : book[i].base = b /\ book[i].jsr = k}
<1>1. SheetOf(book, b, k) # 0
  BY DEF Pairs
<1>2. at # {} /\ SheetOf(book, b, k) = Max(at)
  BY <1>1 DEF SheetOf
<1>3. DOMAIN book = 1..Len(book) /\ Len(book) \in Nat
  BY DEF IsBook, IsSequence
<1>4. at \subseteq DOMAIN book /\ at \subseteq 0..Len(book) /\ \A i \in at : book[i].jsr = k
  BY <1>3
<1> HIDE DEF at
<1>5. \E x \in at : \A y \in at : x >= y
  BY <1>2, <1>3, <1>4, GreatestNumber
<1>6. Max(at) \in at
  BY <1>5 DEF Max
<1>7. QED
  BY <1>2, <1>4, <1>6

(* The sheets of a pair, and what they are merged to.                         *)
LEMMA PairIs ==
  ASSUME NEW book, IsBook(book), NEW b \in Pairs(book), RegularPair(book, b)
  PROVE  /\ IsSequence(MergedOf(book, b))
         /\ \A r \in DOMAIN NormalOf(book, b) :
              LoanKept(MergedOf(book, b), NormalOf(book, b), JsrOf(book, b), r)
         /\ \A i, j \in DOMAIN MergedOf(book, b) :
              /\ SerialOf(MergedOf(book, b), MergedOf(book, b)[i].loan) \in Nat
              /\ SerialOf(MergedOf(book, b), MergedOf(book, b)[i].loan)
                   = SerialOf(MergedOf(book, b), MergedOf(book, b)[j].loan)
                 => MergedOf(book, b)[i].loan = MergedOf(book, b)[j].loan
<1> DEFINE normal == NormalOf(book, b)
           jsr == JsrOf(book, b)
           merged == MergedOf(book, b)
<1>1. \A k \in BOOLEAN : SheetOf(book, b, k) \in DOMAIN book
  BY PairSheets
<1>2. IsSequence(normal) /\ IsSequence(jsr) /\ \A r \in DOMAIN normal : normal[r].loan.no \in Nat
  BY <1>1 DEF IsBook, NormalOf, JsrOf
<1>3. \A p, q \in DOMAIN normal : normal[p].loan.no = normal[q].loan.no => p = q
  BY DEF RegularPair
<1>4. merged = LeftMerge(normal, jsr)
  BY DEF MergedOf
<1> HIDE DEF normal, jsr, merged
<1>5. /\ IsSequence(merged)
      /\ \A m \in DOMAIN merged : \E r \in DOMAIN normal : merged[m].loan = normal[r].loan
      /\ \A r \in DOMAIN normal : LoanKept(merged, normal, jsr, r)
  BY <1>2, <1>3, <1>4, MergedIs
<1>6. \A m \in DOMAIN merged : merged[m].loan.no \in Nat
  BY <1>2, <1>5
<1>7. \A i, j \in DOMAIN merged : merged[i].loan.no = merged[j].loan.no => merged[i].loan = merged[j].loan
  BY <1>3, <1>5
<1>8. \A i, j \in DOMAIN merged :
        /\ SerialOf(merged, merged[i].loan) \in Nat
        /\ SerialOf(merged, merged[i].loan) = SerialOf(merged, merged[j].loan) => merged[i].loan.no = merged[j].loan.no
  BY <1>6, SerialIs
<1>9. QED
  BY <1>5, <1>7, <1>8 DEF normal, jsr, merged

(* The rows of a book each pair of which can be merged.                       *)
RowsOfPair(book, b) == {MasterRow(book, b, m) : m \in DOMAIN MergedOf(book, b)}
MasterRows(book) == UNION {RowsOfPair(book, b) : b \in Pairs(book)}

LEMMA RowsAreFinite ==
  ASSUME NEW book, IsBook(book), \A b \in Pairs(book) : RegularPair(book, b)
  PROVE  IsFiniteSet(MasterRows(book))
<1>1. IsFiniteSet(Pairs(book))
  <2> DEFINE f == [i \in DOMAIN book |-> book[i].base]
             T == {f[i] : i \in DOMAIN book}
  <2>1. DOMAIN book = 1..Len(book) /\ Len(book) \in Nat
    BY DEF IsBook, IsSequence
  <2>2. IsFiniteSet(DOMAIN book)
    BY <2>1, FirstNumbers
  <2>3. f = [i \in DOMAIN book |-> f[i]]
    OBVIOUS
  <2>4. Pairs(book) \subseteq T
    BY DEF Pairs
  <2> HIDE DEF f
  <2>5. IsFiniteSet(T)
    BY <2>2, <2>3, ImageIsFinite
  <2> HIDE DEF T
  <2>6. QED
    BY <2>4, <2>5, FS_Subset
<1>2. ASSUME NEW b \in Pairs(book) PROVE IsFiniteSet(RowsOfPair(book, b))
  <2> DEFINE D == DOMAIN MergedOf(book, b)
             f == [m \in D |-> MasterRow(book, b, m)]
  <2>1. D = 1..Len(MergedOf(book, b)) /\ Len(MergedOf(book, b)) \in Nat
    BY PairIs DEF IsSequence
  <2>2. IsFiniteSet(D)
    BY <2>1, FirstNumbers
  <2>3. f = [m \in D |-> f[m]] /\ RowsOfPair(book, b) = {f[m] : m \in D}
    BY DEF RowsOfPair
  <2> HIDE DEF f, D
  <2>4. QED
    BY <2>2, <2>3, ImageIsFinite
<1>3. IsFiniteSet({RowsOfPair(book, b) : b \in Pairs(book)})
  <2> DEFINE f == [b \in Pairs(book) |-> RowsOfPair(book, b)]
  <2>1. f = [b \in Pairs(book) |-> f[b]] /\ {RowsOfPair(book, b) : b \in Pairs(book)} = {f[b] : b \in Pairs(book)}
    OBVIOUS
  <2> HIDE DEF f
  <2>2. QED
    BY <1>1, <2>1, ImageIsFinite
<1> DEFINE sets == {RowsOfPair(book, b) : b \in Pairs(book)}
<1>4. \A T \in sets : IsFiniteSet(T)
  BY <1>2
<1> HIDE DEF sets
<1>5. IsFiniteSet(UNION sets)
  BY <1>3, <1>4, FS_UNION DEF sets
<1>6. QED
  BY <1>5 DEF MasterRows, sets

(* The largest of finitely many numbers.                                      *)
LEMMA FiniteGreatest ==
  ASSUME NEW T, T \subseteq Nat, T # {}, IsFiniteSet(T)
  PROVE  \E x \in T : \A y \in T : y <= x
<1>1. PICK N \in Nat : ExistsBijection(1..N, T)
  BY FS_NatBijection
<1>2. PICK f \in [1..N -> T] : \A y \in T : \E i \in 1..N : f[i] = y
  BY <1>1 DEF ExistsBijection, Bijection, Surjection, Injection
<1> DEFINE S == {n \in 0..N : n = 0 \/ \E x \in T : \A i \in 1..n : f[i] <= x}
<1>3. \A i \in 1..N : f[i] \in T /\ f[i] \in Nat
  BY <1>2
<1>4. ASSUME NEW n \in 0..N, n < N, n \in S PROVE n + 1 \in S
  <2>1. n + 1 \in 1..N /\ f[n + 1] \in T /\ f[n + 1] \in Nat
    BY <1>2, <1>3, <1>4
  <2>2. CASE n = 0
    <3>1. \A i \in 1..(n + 1) : i = n + 1
      BY <2>2
    <3>2. \A i \in 1..(n + 1) : f[i] <= f[n + 1]
      BY <2>1, <3>1
    <3>3. QED
      BY <2>1, <3>2
  <2>3. CASE n # 0
    <3>1. PICK x \in T : \A i \in 1..n : f[i] <= x
      BY <1>4, <2>3
    <3>2. x \in Nat /\ \A i \in 1..(n + 1) : i \in 1..n \/ i = n + 1
      BY <1>2, <3>1
    <3>3. CASE f[n + 1] <= x
      <4>1. \A i \in 1..(n + 1) : f[i] <= x
        BY <3>1, <3>2, <3>3
      <4>2. QED
        BY <2>1, <4>1
    <3>4. CASE ~(f[n + 1] <= x)
      <4>1. \A i \in 1..(n + 1) : f[i] <= f[n + 1]
        <5> SUFFICES ASSUME NEW i \in 1..(n + 1) PROVE f[i] <= f[n + 1]
          OBVIOUS
        <5>1. i \in 1..N /\ f[i] \in Nat
          BY <1>3, <2>1
        <5>2. i = n + 1 \/ f[i] <= x
          BY <3>1, <3>2
        <5>3. QED
          BY <2>1, <3>2, <3>4, <5>1, <5>2
      <4>2. QED
        BY <2>1, <4>1
    <3>5. QED
      BY <3>3, <3>4
  <2>4. QED
    BY <2>2, <2>3
<1>5. 0 \in S
  BY <1>2
<1>6. N \in S
  <2> HIDE DEF S
  <2>1. \A n \in 0..N : n < N /\ n \in S => n + 1 \in S
    BY <1>4
  <2>2. N \in Nat /\ 0 \in S
    BY <1>1, <1>5
  <2>3. QED
    BY <2>1, <2>2, CountingUp
<1>7. N # 0
  <2>1. PICK y \in T : TRUE
    OBVIOUS
  <2>2. PICK i \in 1..N : f[i] = y
    BY <1>2, <2>1
  <2>3. QED
    BY <1>1, <2>2
<1>8. PICK x \in T : \A i \in 1..N : f[i] <= x
  BY <1>6, <1>7
<1>9. QED
  BY <1>2, <1>8

(* A file that is left is of one of the branches that wrote it, of the only   *)
(* one if it is.                                                              *)
LEMMA WrittenIs ==
  ASSUME NEW B, IsFiniteSet(B), \A b \in B : b.place \in Nat, NEW f, f \in {b.file : b \in B}
  PROVE  Written(B, f) \in B /\ Written(B, f).file = f
<1> DEFINE S == {b \in B : b.file = f}
           place == [b \in S |-> b.place]
           T == {place[b] : b \in S}
<1>1. IsFiniteSet(S) /\ S # {} /\ place = [b \in S |-> place[b]]
  BY FS_Subset
<1>2. IsFiniteSet(T)
  <2> HIDE DEF S, place
  <2>1. QED
    BY <1>1, ImageIsFinite
<1>3. T \subseteq Nat /\ T # {}
  BY <1>1
<1>4. PICK x \in T : \A y \in T : y <= x
  <2> HIDE DEF T
  <2>1. QED
    BY <1>2, <1>3, FiniteGreatest
<1>5. PICK b \in S : b.place = x
  BY <1>4
<1>6. \A d \in S : d.place \in T
  OBVIOUS
<1>7. b \in B /\ b.file = f /\ \A d \in B : d.file = f => d.place <= b.place
  BY <1>4, <1>5, <1>6
<1>8. QED
  BY <1>7, Zenon DEF Written

(* The branches of the master, those the run reaches and those whose file of  *)
(* a kind it writes.                                                          *)
BranchesIn(book) == {row.branch : row \in MasterRows(book)} \ {NoBranch}
RaisedIn(run, kind) == IF Asks(run.format, kind) THEN run.fails[kind] ELSE {}
ReachedIn(run) == {b \in BranchesIn(run.book) : b.place < run.until}
MadeIn(run, kind) ==
  IF ~Asks(run.format, kind) THEN {}
  ELSE ReachedIn(run) \ (IF kind = "pdf" THEN RaisedIn(run, "pdf") ELSE RaisedIn(run, "pdf") \cup RaisedIn(run, "excel"))
RowsOfBranch(book, b) == {row \in MasterRows(book) : row.branch = b}

LEMMA PairBranches ==
  ASSUME NEW book, IsBook(book), NEW b \in Pairs(book), RegularPair(book, b), NEW m \in DOMAIN MergedOf(book, b)
  PROVE  \E r \in DOMAIN NormalOf(book, b) :
           MergedOf(book, b)[m].branch = NormalOf(book, b)[r].branch /\ MergedOf(book, b)[m].branch.place \in Nat
<1> DEFINE normal == NormalOf(book, b)
           jsr == JsrOf(book, b)
           merged == MergedOf(book, b)
<1>1. /\ IsSequence(normal) /\ IsSequence(jsr)
      /\ \A r \in DOMAIN normal : normal[r].branch.place \in Nat
  BY PairSheets DEF IsBook, NormalOf, JsrOf
<1>2. (\A p, q \in DOMAIN normal : normal[p].loan.no = normal[q].loan.no => p = q) /\ merged = LeftMerge(normal, jsr)
  BY DEF RegularPair, MergedOf
<1> HIDE DEF normal, jsr, merged
<1>3. /\ \A k \in DOMAIN merged : \E r \in DOMAIN normal : merged[k].loan = normal[r].loan
      /\ \A r \in DOMAIN normal : LoanKept(merged, normal, jsr, r)
  BY <1>1, <1>2, MergedIs
<1>4. \E r \in DOMAIN normal : merged[m].branch = normal[r].branch
  BY <1>3 DEF LoanKept, RowsOfLoan, merged
<1>5. QED
  BY <1>1, <1>4 DEF normal, merged

(* The branches of the master are those of its sheets.                        *)
LEMMA BranchesAre ==
  ASSUME NEW book, IsBook(book), \A b \in Pairs(book) : RegularPair(book, b)
  PROVE  /\ IsFiniteSet(BranchesIn(book))
         /\ \A c \in BranchesIn(book) :
              /\ c.place \in Nat /\ c # NoBranch
              /\ \E b \in Pairs(book) : \E q \in DOMAIN NormalOf(book, b) : c = NormalOf(book, b)[q].branch
<1> DEFINE rows == MasterRows(book)
           f == [row \in rows |-> row.branch]
<1>1. IsFiniteSet({f[row] : row \in rows})
  <2>1. IsFiniteSet(rows) /\ f = [row \in rows |-> f[row]]
    BY RowsAreFinite
  <2> HIDE DEF rows, f
  <2>2. QED
    BY <2>1, ImageIsFinite
<1>2. BranchesIn(book) \subseteq {f[row] : row \in rows}
  BY DEF BranchesIn
<1>3. IsFiniteSet(BranchesIn(book))
  BY <1>1, <1>2, FS_Subset
<1>4. ASSUME NEW c \in BranchesIn(book)
      PROVE  /\ c.place \in Nat /\ c # NoBranch
             /\ \E b \in Pairs(book) : \E q \in DOMAIN NormalOf(book, b) : c = NormalOf(book, b)[q].branch
  <2>1. PICK b \in Pairs(book) : \E m \in DOMAIN MergedOf(book, b) : c = MergedOf(book, b)[m].branch
    <3>1. PICK row \in MasterRows(book) : c = row.branch
      BY DEF BranchesIn
    <3>2. PICK b \in Pairs(book) : row \in RowsOfPair(book, b)
      BY <3>1 DEF MasterRows
    <3>3. PICK m \in DOMAIN MergedOf(book, b) : row = MasterRow(book, b, m)
      BY <3>2 DEF RowsOfPair
    <3>4. row.branch = MergedOf(book, b)[m].branch
      BY <3>3 DEF MasterRow
    <3>5. \E k \in DOMAIN MergedOf(book, b) : c = MergedOf(book, b)[k].branch
      BY <3>1, <3>3, <3>4
    <3>6. QED
      BY <3>2, <3>5
  <2>2. PICK m \in DOMAIN MergedOf(book, b) : c = MergedOf(book, b)[m].branch
    BY <2>1
  <2>3. PICK q \in DOMAIN NormalOf(book, b) : c = NormalOf(book, b)[q].branch /\ c.place \in Nat
    BY <2>2, PairBranches
  <2>4. QED
    BY <2>3 DEF BranchesIn
<1>5. QED
  BY <1>3, <1>4

LEMMA StageIs ==
  ASSUME NEW run, IsBook(run.book), \A b \in Pairs(run.book) : RegularPair(run.book, b)
  PROVE  LET out == Stage1(run)
             excels == MadeIn(run, "excel")
             pdfs == MadeIn(run, "pdf")
         IN /\ out.logged = ReachedIn(run) \cap (RaisedIn(run, "pdf") \cup RaisedIn(run, "excel"))
            /\ DOMAIN out.books = {b.file : b \in excels}
            /\ \A f \in DOMAIN out.books : out.books[f].rows = RowsOfBranch(run.book, Written(excels, f))
            /\ DOMAIN out.pdfs = {b.file : b \in pdfs}
            /\ \A f \in DOMAIN out.pdfs :
                 RowsOfBranch(run.book, Written(pdfs, f)) \subseteq Range(FlattenSeq(out.pdfs[f]))
<1> DEFINE book == run.book
           master == MasterOf(book)
           rowsOf(b) == {row \in master.rows : row.branch = b}
           reached == {b \in {row.branch : row \in master.rows} \ {NoBranch} : b.place < run.until}
           raises(kind) == IF Asks(run.format, kind) THEN run.fails[kind] ELSE {}
           pdfs == IF Asks(run.format, "pdf") THEN reached \ raises("pdf") ELSE {}
           excels == IF Asks(run.format, "excel") THEN reached \ (raises("pdf") \cup raises("excel")) ELSE {}
           out == Stage1(run)
<1>1. master.rows = MasterRows(book)
  <2> DEFINE frame(b) ==
               LET merged == LeftMerge(NormalOf(book, b), JsrOf(book, b))
               IN {[pair |-> b, at |-> r, loan |-> merged[r].loan, branch |-> merged[r].branch,
                    packet |-> merged[r].packet, sr |-> SerialOf(merged, merged[r].loan)] : r \in DOMAIN merged}
             good == {b \in Pairs(book) : Mergeable(NormalOf(book, b), JsrOf(book, b))}
  <2>1. master.rows = UNION {frame(b) : b \in good}
    BY DEF MasterOf
  <2>2. \A b : frame(b) = RowsOfPair(book, b)
    BY DEF RowsOfPair, MasterRow, MergedOf
  <2>3. good = Pairs(book)
    BY DEF RegularPair
  <2> HIDE DEF frame, good
  <2>4. QED
    BY <2>1, <2>2, <2>3 DEF MasterRows
<1>2. /\ out.logged = reached \cap (raises("pdf") \cup raises("excel"))
      /\ out.pdfs = [f \in {b.file : b \in pdfs} |-> BranchPdf(SetToSeq(rowsOf(Written(pdfs, f))))]
      /\ out.books = [f \in {b.file : b \in excels} |->
                        [branch |-> Written(excels, f), rows |-> rowsOf(Written(excels, f)),
                         accounts |-> Cardinality({row.sr : row \in rowsOf(Written(excels, f))})]]
  BY Zenon DEF Stage1
<1>3. \A b : rowsOf(b) = RowsOfBranch(book, b)
  BY <1>1 DEF RowsOfBranch
<1>4. reached = ReachedIn(run) /\ raises("pdf") = RaisedIn(run, "pdf") /\ raises("excel") = RaisedIn(run, "excel")
  BY <1>1 DEF ReachedIn, BranchesIn, RaisedIn
<1> HIDE DEF master, reached, raises, rowsOf
<1>5. pdfs = MadeIn(run, "pdf") /\ excels = MadeIn(run, "excel")
  BY <1>4 DEF MadeIn
<1> HIDE DEF pdfs, excels, out
<1>6. ASSUME NEW b PROVE RowsOfBranch(book, b) \subseteq Range(FlattenSeq(BranchPdf(SetToSeq(RowsOfBranch(book, b)))))
  <2> DEFINE S == RowsOfBranch(book, b)
             list == SetToSeq(S)
  <2>1. IsFiniteSet(S)
    BY RowsAreFinite, FS_Subset DEF RowsOfBranch
  <2>2. \A row \in S : row.sr \in Nat
    <3> SUFFICES ASSUME NEW row \in S PROVE row.sr \in Nat
      OBVIOUS
    <3>1. PICK c \in Pairs(book) : row \in RowsOfPair(book, c)
      BY DEF RowsOfBranch, MasterRows
    <3>2. PICK m \in DOMAIN MergedOf(book, c) : row = MasterRow(book, c, m)
      BY <3>1 DEF RowsOfPair
    <3>3. row.sr = SerialOf(MergedOf(book, c), MergedOf(book, c)[m].loan)
      BY <3>2 DEF MasterRow
    <3>4. QED
      BY <3>2, <3>3, PairIs
  <2> HIDE DEF S, list
  <2>3. IsSequence(list) /\ Range(list) = S
    BY <2>1, SetAsSequence DEF list
  <2>4. \A i \in DOMAIN list : list[i] \in S
    BY <2>3 DEF Range
  <2>5. \A i \in DOMAIN list : list[i] \in Range(FlattenSeq(BranchPdf(list)))
    BY <2>2, <2>3, <2>4, PagesHold
  <2>6. \A row \in S : \E i \in DOMAIN list : row = list[i]
    BY <2>3 DEF Range
  <2>7. S \subseteq Range(FlattenSeq(BranchPdf(list)))
    BY <2>5, <2>6
  <2>8. QED
    BY <2>7 DEF S, list
<1>7. DOMAIN out.pdfs = {b.file : b \in pdfs} /\ DOMAIN out.books = {b.file : b \in excels}
  BY <1>2
<1>8. \A f \in DOMAIN out.books : out.books[f].rows = RowsOfBranch(book, Written(excels, f))
  BY <1>2, <1>3
<1>9. \A f \in DOMAIN out.pdfs : RowsOfBranch(book, Written(pdfs, f)) \subseteq Range(FlattenSeq(out.pdfs[f]))
  <2>1. \A f \in DOMAIN out.pdfs : out.pdfs[f] = BranchPdf(SetToSeq(RowsOfBranch(book, Written(pdfs, f))))
    BY <1>2, <1>3
  <2>2. QED
    BY <1>6, <2>1
<1>10. QED
  BY <1>2, <1>4, <1>5, <1>7, <1>8, <1>9 DEF out

(* Every packet is audited once, in its branch's workbook and PDF.            *)
LEMMA PacketsAudited ==
  ASSUME NEW run, IsBook(run.book)
  PROVE  PacketsAreAudited(run, Stage1(run))
<1> DEFINE book == run.book
           out == Stage1(run)
           books == out.books
           rows == MasterRows(book)
           normal(b) == NormalOf(book, b)
           isOfLoan(b, r, row) == row.pair = b /\ row.loan = normal(b)[r].loan
           rowsIn(b, r, n) == {row \in books[n].rows : isOfLoan(b, r, row)}
           made(home, kind) == Asks(run.format, kind) /\ home.place < run.until /\ home \notin out.logged
<1>1. SUFFICES ASSUME \A b \in Pairs(book) : RegularPair(book, b),
                      NEW b \in Pairs(book), NEW r \in DOMAIN normal(b), normal(b)[r].branch # NoBranch,
                      FileApart(book, normal(b)[r].branch)
               PROVE  LoanAudited(run, out, b, r)
  BY Zenon DEF PacketsAreAudited
<1> DEFINE merged == MergedOf(book, b)
           loan == normal(b)[r].loan
           home == normal(b)[r].branch
           packets == PacketsOf(normal(b), JsrOf(book, b), r)
           own == RowsOfLoan(merged, loan)
           rowOf(m) == MasterRow(book, b, m)
           B == BranchesIn(book)
           excels == MadeIn(run, "excel")
           pdfs == MadeIn(run, "pdf")
<1>2. /\ IsSequence(merged)
      /\ LoanKept(merged, normal(b), JsrOf(book, b), r)
      /\ \A i, j \in DOMAIN merged :
           SerialOf(merged, merged[i].loan) = SerialOf(merged, merged[j].loan) => merged[i].loan = merged[j].loan
  BY <1>1, PairIs
<1>3. /\ IsFiniteSet(own) /\ own # {} /\ Cardinality(own) = RowsFor(packets)
      /\ {merged[m].packet : m \in own} = PacketNumbers(JsrOf(book, b), packets)
      /\ \A m \in own : merged[m].branch = home
  BY <1>2 DEF LoanKept
<1>4. /\ out.logged = ReachedIn(run) \cap (RaisedIn(run, "pdf") \cup RaisedIn(run, "excel"))
      /\ DOMAIN books = {c.file : c \in excels}
      /\ \A f \in DOMAIN books : books[f].rows = RowsOfBranch(book, Written(excels, f))
      /\ DOMAIN out.pdfs = {c.file : c \in pdfs}
      /\ \A f \in DOMAIN out.pdfs : RowsOfBranch(book, Written(pdfs, f)) \subseteq Range(FlattenSeq(out.pdfs[f]))
  BY <1>1, StageIs
<1>5. \A row \in rows : row.pair = b => \E m \in DOMAIN merged : row = rowOf(m)
  <2> SUFFICES ASSUME NEW row \in rows, row.pair = b
               PROVE  \E m \in DOMAIN merged : row = MasterRow(book, b, m)
    OBVIOUS
  <2>1. PICK c \in Pairs(book) : \E m \in DOMAIN MergedOf(book, c) : row = MasterRow(book, c, m)
    BY DEF MasterRows, RowsOfPair
  <2>2. c = b
    BY <2>1 DEF MasterRow
  <2>3. QED
    BY <2>1, <2>2
<1>6. \A m \in DOMAIN merged : rowOf(m) \in rows
  BY DEF MasterRows, RowsOfPair
<1>7. \A m : /\ rowOf(m).pair = b /\ rowOf(m).at = m
             /\ rowOf(m).loan = merged[m].loan /\ rowOf(m).branch = merged[m].branch
             /\ rowOf(m).packet = merged[m].packet
             /\ rowOf(m).sr = SerialOf(merged, merged[m].loan)
  BY DEF MasterRow
<1>8. \A m : m \in own <=> m \in DOMAIN merged /\ merged[m].loan = loan
  BY DEF RowsOfLoan
<1>9. IsFiniteSet(B) /\ \A c \in B : c.place \in Nat /\ (c # home => c.file # home.file)
  <2>1. IsFiniteSet(B)
    BY <1>1, BranchesAre
  <2>2. ASSUME NEW c \in B PROVE c.place \in Nat /\ (c # home => c.file # home.file)
    <3>1. PICK d \in Pairs(book) : \E q \in DOMAIN NormalOf(book, d) : c = NormalOf(book, d)[q].branch
      BY <1>1, BranchesAre
    <3>2. c.place \in Nat /\ c # NoBranch
      BY <1>1, BranchesAre
    <3>3. QED
      BY <1>1, <3>1, <3>2 DEF FileApart
  <2>3. QED
    BY <2>1, <2>2
<1> HIDE DEF rows, out, merged, own, rowOf, B, excels, pdfs, loan, home, packets, normal
<1>10. home \in B
  <2>1. PICK m \in own : TRUE
    BY <1>3
  <2>2. rowOf(m) \in rows /\ rowOf(m).branch = home
    BY <1>3, <1>6, <1>7, <1>8, <2>1
  <2>3. QED
    BY <1>1, <2>2 DEF B, BranchesIn, rows, home
<1>11. \A row : row \in rows /\ row.pair = b /\ row.loan = loan <=> \E m \in own : row = rowOf(m)
  BY <1>5, <1>6, <1>7, <1>8
<1>12. \A m \in own : rowOf(m).branch = home
  BY <1>3, <1>7
<1>13. \A c, row : row \in RowsOfBranch(book, c) <=> row \in rows /\ row.branch = c
  BY DEF RowsOfBranch, rows
<1>14. excels \subseteq B /\ pdfs \subseteq B
  BY DEF excels, pdfs, B, MadeIn, ReachedIn
<1>15. ASSUME NEW K, K \subseteq B, NEW f \in {c.file : c \in K}
       PROVE  Written(K, f) \in K /\ Written(K, f).file = f
  <2>1. IsFiniteSet(K) /\ \A c \in K : c.place \in Nat
    BY <1>9, <1>15, FS_Subset
  <2>2. QED
    BY <1>15, <2>1, WrittenIs
<1>16. ASSUME NEW K, K \subseteq B, home \in K
       PROVE  home.file \in {c.file : c \in K} /\ Written(K, home.file) = home
  BY <1>9, <1>15, <1>16
<1>17. ASSUME NEW n \in DOMAIN books, n # home.file, NEW row \in rowsIn(b, r, n) PROVE FALSE
  <2>1. n \in {c.file : c \in excels} /\ books[n].rows = RowsOfBranch(book, Written(excels, n))
    BY <1>4, <1>17
  <2>2. Written(excels, n).file = n
    BY <1>14, <1>15, <2>1
  <2>3. row \in rows /\ row.branch = Written(excels, n) /\ row.pair = b /\ row.loan = loan
    BY <1>13, <1>17, <2>1 DEF loan
  <2>4. row.branch = home
    BY <1>11, <1>12, <2>3
  <2>5. QED
    BY <1>17, <2>2, <2>3, <2>4
<1>18. \A kind \in {"pdf", "excel"} : made(home, kind) => home \in MadeIn(run, kind)
  BY <1>4, <1>10 DEF MadeIn, ReachedIn, RaisedIn, B
<1>19. ASSUME made(home, "excel")
       PROVE  LET mine == rowsIn(b, r, home.file)
              IN /\ home.file \in DOMAIN books
                 /\ Cardinality(mine) = RowsFor(packets)
                 /\ {row.packet : row \in mine} = PacketNumbers(JsrOf(book, b), packets)
                 /\ Cardinality({row.sr : row \in mine}) = 1
                 /\ \A row \in books[home.file].rows, one \in mine :
                      row.pair = b /\ row.sr = one.sr => isOfLoan(b, r, row)
  <2> DEFINE file == home.file
             mine == rowsIn(b, r, file)
  <2>1. file \in DOMAIN books /\ books[file].rows = RowsOfBranch(book, home)
    BY <1>4, <1>14, <1>16, <1>18, <1>19 DEF excels
  <2>2. \A row \in books[file].rows : row \in rows
    BY <1>13, <2>1
  <2>3. \A row : row \in mine <=> \E m \in own : row = rowOf(m)
    BY <1>11, <1>12, <1>13, <2>1 DEF loan
  <2> HIDE DEF mine
  <2>4. Cardinality(mine) = RowsFor(packets)
    <3> DEFINE f == [m \in own |-> rowOf(m)]
    <3>1. f \in [own -> mine]
      BY <2>3
    <3>2. \A m, q \in own : f[m] = f[q] => m = q
      BY <1>7
    <3>3. f \in Injection(own, mine)
      BY <3>1, <3>2 DEF Injection, IsInjective
    <3>4. f \in Surjection(own, mine)
      BY <2>3, <3>1 DEF Surjection
    <3>5. ExistsBijection(own, mine)
      BY <3>3, <3>4 DEF ExistsBijection, Bijection
    <3>6. QED
      BY <1>3, <3>5, FS_Bijection
  <2>5. {row.packet : row \in mine} = PacketNumbers(JsrOf(book, b), packets)
    <3>1. {row.packet : row \in mine} = {merged[m].packet : m \in own}
      BY <1>7, <2>3
    <3>2. QED
      BY <1>3, <3>1
  <2>6. Cardinality({row.sr : row \in mine}) = 1
    <3>1. {row.sr : row \in mine} = {SerialOf(merged, loan)}
      <4>1. \A row \in mine : row.sr = SerialOf(merged, loan)
        BY <1>7, <1>8, <2>3
      <4>2. mine # {}
        BY <1>3, <2>3
      <4>3. QED
        BY <4>1, <4>2
    <3>2. QED
      BY <3>1, FS_Singleton
  <2>7. ASSUME NEW row \in books[file].rows, NEW one \in mine, row.pair = b, row.sr = one.sr
        PROVE  row.loan = loan
    <3>1. PICK m \in own : one = rowOf(m)
      BY <2>3
    <3>2. PICK q \in DOMAIN merged : row = rowOf(q)
      BY <1>5, <2>2, <2>7
    <3>3. SerialOf(merged, merged[q].loan) = SerialOf(merged, merged[m].loan)
      BY <1>7, <2>7, <3>1, <3>2
    <3>4. merged[q].loan = merged[m].loan
      BY <1>2, <1>8, <3>1, <3>3
    <3>5. QED
      BY <1>7, <1>8, <3>1, <3>2, <3>4
  <2>8. QED
    BY <2>1, <2>4, <2>5, <2>6, <2>7 DEF mine, loan
<1>20. ASSUME made(home, "pdf")
       PROVE  /\ home.file \in DOMAIN out.pdfs
              /\ \A n \in PacketNumbers(JsrOf(book, b), packets) :
                   \E row \in Range(FlattenSeq(out.pdfs[home.file])) : isOfLoan(b, r, row) /\ row.packet = n
  <2> DEFINE file == home.file
             pages == Range(FlattenSeq(out.pdfs[file]))
  <2>1. file \in DOMAIN out.pdfs /\ RowsOfBranch(book, home) \subseteq pages
    BY <1>4, <1>14, <1>16, <1>18, <1>20 DEF pdfs
  <2>2. \A m \in own : rowOf(m) \in pages /\ rowOf(m).pair = b /\ rowOf(m).loan = loan
    BY <1>7, <1>8, <1>11, <1>12, <1>13, <2>1
  <2>3. ASSUME NEW n \in PacketNumbers(JsrOf(book, b), packets)
        PROVE  \E row \in pages : row.pair = b /\ row.loan = loan /\ row.packet = n
    <3>1. PICK m \in own : merged[m].packet = n
      BY <1>3, <2>3
    <3>2. QED
      BY <1>7, <2>2, <3>1
  <2>4. QED
    BY <2>1, <2>3 DEF loan
<1>21. QED
  BY <1>17, <1>19, <1>20, Zenon DEF LoanAudited, home, packets, normal, books

(* A directory is removed only when its ZIP is there.                         *)
LEMMA PackKeeps ==
  ASSUME NEW format, NEW mode, NEW cancelled
  PROVE  NothingUnpacked(format, mode, cancelled, Pack(format, mode, cancelled))
<1> DEFINE kinds == {"pdf", "excel"}
           out == Pack(format, mode, cancelled)
           asked(k) == format = "BOTH" \/ format = (IF k = "pdf" THEN "PDF ONLY" ELSE "EXCEL ONLY")
           zipP == format \in {"PDF ONLY", "BOTH"} /\ ZipPdf(mode) /\ ~cancelled
           zipE == format \in {"EXCEL ONLY", "BOTH"} /\ ZipExcel(mode) /\ ~cancelled
           zipped(k) == IF k = "pdf" THEN zipP ELSE zipE
           left(k) == IF k = "pdf" THEN format \in {"PDF ONLY", "BOTH"} /\ ~Removes(mode, zipP)
                      ELSE format \in {"EXCEL ONLY", "BOTH"} /\ ~Removes(mode, zipE)
<1>1. out.zips = {k \in kinds : zipped(k)} /\ out.folders = {k \in kinds : left(k)}
  BY Zenon DEF Pack
<1>2. \A k \in kinds : (zipped(k) \/ left(k) <=> asked(k)) /\ (cancelled => ~zipped(k))
  <2>1. (zipP => format \in {"PDF ONLY", "BOTH"}) /\ (zipE => format \in {"EXCEL ONLY", "BOTH"})
        /\ (cancelled => ~zipP /\ ~zipE)
    BY Zenon
  <2>2. (Removes(mode, zipP) => zipP) /\ (Removes(mode, zipE) => zipE)
    BY Zenon DEF Removes
  <2> HIDE DEF zipP, zipE
  <2>3. (zipped("pdf") \/ left("pdf") <=> asked("pdf")) /\ (cancelled => ~zipped("pdf"))
    BY <2>1, <2>2, Zenon
  <2>4. (zipped("excel") \/ left("excel") <=> asked("excel")) /\ (cancelled => ~zipped("excel"))
    BY <2>1, <2>2, Zenon
  <2> HIDE DEF zipped, left, asked
  <2>5. QED
    BY <2>3, <2>4
<1> HIDE DEF zipped, left, asked, out, kinds
<1>3. out.zips \cup out.folders = {k \in kinds : asked(k)}
  BY <1>1, <1>2
<1>4. cancelled => out.zips = {}
  BY <1>1, <1>2
<1>5. QED
  BY <1>3, <1>4, Zenon DEF NothingUnpacked, asked, out, kinds

-----------------------------------------------------------------------------
(* The figures of a list of rows.                                             *)
LEMMA AmountsAre ==
  ASSUME NEW rows, IsFilled(rows), NEW column \in {"bank", "actual"}
  PROVE  /\ IsSequence(Amounts(rows, column)) /\ Len(Amounts(rows, column)) = Len(rows)
         /\ \A i \in 1..Len(rows) : Amounts(rows, column)[i] \in Int
<1> DEFINE N == Len(rows)
           m == Amounts(rows, column)
<1>1. DOMAIN rows = 1..N /\ N \in Nat
  BY DEF IsFilled, IsSequence
<1>2. m = [i \in 1..N |-> Numeric(rows[i][column])]
  BY <1>1 DEF Amounts
<1>3. DOMAIN m = 1..N /\ m = [i \in 1..N |-> m[i]]
  BY <1>2
<1>4. \A i \in 1..N : m[i] \in Int
  BY <1>1, <1>2 DEF IsFilled, IsNumeric, Numeric
<1> HIDE DEF m
<1>5. IsSequence(m) /\ Len(m) = N
  BY <1>1, <1>3, AsSequence
<1>6. QED
  BY <1>4, <1>5 DEF m

(* What the second stage makes of an account.                                 *)
GroupOf(rows, a) == {r \in WithAccount(rows) : rows[r].account = a}
LEMMA ConsolidateIs ==
  ASSUME NEW rows, IsFilled(rows)
  PROVE  /\ DOMAIN Consolidate(rows) = {rows[r].account : r \in WithAccount(rows)}
         /\ IsFiniteSet(DOMAIN Consolidate(rows))
         /\ \A a \in DOMAIN Consolidate(rows) :
              /\ Consolidate(rows)[a].bank = AddedAt(Amounts(rows, "bank"), GroupOf(rows, a))
              /\ Consolidate(rows)[a].actual = AddedAt(Amounts(rows, "actual"), GroupOf(rows, a))
              /\ Consolidate(rows)[a].issues = IssuesOf(rows, GroupOf(rows, a))
<1> DEFINE A == {rows[r].account : r \in WithAccount(rows)}
           out == Consolidate(rows)
<1>1. DOMAIN out = A
  BY Zenon DEF Consolidate
<1>2. IsFiniteSet(A)
  <2>1. IsFiniteSet(WithAccount(rows))
    <3>1. DOMAIN rows = 1..Len(rows) /\ Len(rows) \in Nat
      BY DEF IsFilled, IsSequence
    <3>2. IsFiniteSet(DOMAIN rows) /\ WithAccount(rows) \subseteq DOMAIN rows
      BY <3>1, FirstNumbers, Zenon DEF WithAccount
    <3>3. QED
      BY <3>2, FS_Subset
  <2> DEFINE f == [r \in WithAccount(rows) |-> rows[r].account]
  <2>2. IsFiniteSet({f[r] : r \in WithAccount(rows)})
    <3>1. f = [r \in WithAccount(rows) |-> f[r]]
      OBVIOUS
    <3> HIDE DEF f
    <3>2. QED
      BY <2>1, <3>1, ImageIsFinite
  <2>3. {f[r] : r \in WithAccount(rows)} = A
    OBVIOUS
  <2>4. QED
    BY <2>2, <2>3
<1>3. ASSUME NEW a \in A
      PROVE  /\ out[a].bank = AddedAt(Amounts(rows, "bank"), GroupOf(rows, a))
             /\ out[a].actual = AddedAt(Amounts(rows, "actual"), GroupOf(rows, a))
             /\ out[a].issues = IssuesOf(rows, GroupOf(rows, a))
  <2> HIDE DEF A
  <2>1. out = [b \in A |->
                 [bank |-> AddedAt(Amounts(rows, "bank"), GroupOf(rows, b)),
                  actual |-> AddedAt(Amounts(rows, "actual"), GroupOf(rows, b)),
                  issues |-> IssuesOf(rows, GroupOf(rows, b)),
                  packet |-> FirstNonEmpty([r \in DOMAIN rows |-> rows[r].packet], GroupOf(rows, b)),
                  carat |-> AverageCarat(Amounts(rows, "carat"), GroupOf(rows, b))]]
    BY DEF Consolidate, GroupOf, A
  <2> HIDE DEF out
  <2>2. QED
    BY <2>1
<1>4. QED
  BY <1>1, <1>2, <1>3

LEMMA WeightsKept ==
  ASSUME NEW rows, IsFilled(rows)
  PROVE  WeightsAreKept(rows, Consolidate(rows))
<1> DEFINE out == Consolidate(rows)
           A == DOMAIN out
           names == SetToSeq(A)
           M == Len(names)
<1>0. DOMAIN rows = 1..Len(rows) /\ Len(rows) \in Nat
  BY DEF IsFilled, IsSequence
<1>1. /\ A = {rows[r].account : r \in WithAccount(rows)} /\ IsFiniteSet(A)
      /\ \A a \in A : /\ out[a].bank = AddedAt(Amounts(rows, "bank"), GroupOf(rows, a))
                       /\ out[a].actual = AddedAt(Amounts(rows, "actual"), GroupOf(rows, a))
                       /\ out[a].issues = IssuesOf(rows, GroupOf(rows, a))
  BY ConsolidateIs
<1> HIDE DEF out, A
<1>2. /\ IsSequence(names) /\ Range(names) = A
      /\ \A i, j \in 1..M : names[i] = names[j] => i = j
  BY <1>1, SetAsSequence
<1> HIDE DEF names
<1>3. DOMAIN names = 1..M /\ M \in Nat /\ \A a \in A : \E k \in 1..M : a = names[k]
  BY <1>2, ItemsAre DEF IsSequence
<1>4. \A k \in 1..M : names[k] \in A
  BY <1>2, <1>3 DEF Range
<1>5. ASSUME NEW column \in {"bank", "actual"}
      PROVE  Added([k \in DOMAIN names |-> out[names[k]][column]])
               = AddedAt(Amounts(rows, column), WithAccount(rows))
  <2> DEFINE s == Amounts(rows, column)
             G == [k \in 1..M |-> GroupOf(rows, names[k])]
             K == WithAccount(rows)
  <2>1. IsSequence(s) /\ Len(s) = Len(rows) /\ \A i \in 1..Len(rows) : s[i] \in Int
    BY AmountsAre
  <2>2. \A i \in 1..Len(s), j, k \in 1..M : i \in G[j] /\ i \in G[k] => j = k
    BY <1>2 DEF GroupOf
  <2>3. \A i \in 1..Len(s) : i \in K <=> \E k \in 1..M : i \in G[k]
    BY <1>1, <1>3 DEF GroupOf
  <2>4. [k \in DOMAIN names |-> out[names[k]][column]] = [k \in 1..M |-> AddedAt(s, G[k])]
    BY <1>1, <1>3, <1>4
  <2> HIDE DEF s, G, K
  <2>5. Added([k \in 1..M |-> AddedAt(s, G[k])]) = AddedAt(s, K)
    BY <1>3, <2>1, <2>2, <2>3, AddedByGroup
  <2>6. QED
    BY <2>4, <2>5 DEF s, K
<1>6. ASSUME NEW a \in A
      PROVE  out[a].issues = {} <=>
               \A r \in WithAccount(rows) : rows[r].account = a => rows[r].remark \in {Ok, ""}
  BY <1>1, Zenon DEF IssuesOf, GroupOf
<1>7. QED
  BY <1>5, <1>6, Zenon DEF WeightsAreKept, out, A, names
(* What is kept of a sum is what stands at the places that count.             *)
LEMMA AddedAtSame ==
  ASSUME NEW N, NEW s, NEW t, NEW P, DOMAIN s = 1..N, DOMAIN t = 1..N,
         \A i \in P : s[i] = t[i]
  PROVE  AddedAt(s, P) = AddedAt(t, P)
<1>1. [i \in DOMAIN s |-> IF i \in P THEN s[i] ELSE 0] = [i \in DOMAIN t |-> IF i \in P THEN t[i] ELSE 0]
  OBVIOUS
<1>2. QED
  BY <1>1 DEF AddedAt

LEMMA NoDifference == \A x, y \in Int : x - y = 0 => x = y
OBVIOUS

(* What a row of the branch workbook reads as, once it is filled in: a packet *)
(* without a remark had the carat of the master.                              *)
LEMMA RemarksAre ==
  ASSUME NEW c, IsEntry(c), NEW n \in Int, RemarkShown(CaratDiff(Entered(n), c)) \in {Ok, ""}
  PROVE  c = Entered(n)
<1>0. Entered(n) # NoEntry
  BY Zenon DEF Entered, NoEntry
<1>1. "Carat mismatch" \notin {Ok, ""}
  BY DEF Ok
<1>2. CASE c = NoEntry
  <2>1. CaratDiff(Entered(n), c) = NoEntry
    BY <1>2, Zenon DEF CaratDiff
  <2>2. NoEntry.k # "error" /\ NoEntry.k # "diff"
    BY DEF NoEntry
  <2>3. RemarkShown(NoEntry) = "Carat mismatch"
    BY <2>2, Zenon DEF RemarkShown
  <2>4. QED
    BY <1>1, <2>1, <2>3, Zenon
<1>3. CASE c # NoEntry
  <2>1. c = [k |-> "num", n |-> c.n] /\ c.n \in Int
    BY <1>3 DEF IsEntry
  <2> DEFINE d == [k |-> "diff", n |-> c.n - n]
  <2>2. CaratDiff(Entered(n), c) = d
    <3>1. CaratDiff(Entered(n), c) = [k |-> "diff", n |-> c.n - Entered(n).n]
      BY <1>0, <1>3, Zenon DEF CaratDiff
    <3>2. Entered(n).n = n
      BY DEF Entered
    <3>3. QED
      BY <3>1, <3>2
  <2>3. d.k = "diff" /\ d.n = c.n - n
    OBVIOUS
  <2> HIDE DEF d
  <2>4. d.n # 0 => RemarkShown(d) = "Carat mismatch"
    BY <2>3, Zenon DEF RemarkShown
  <2>5. c.n - n = 0
    BY <1>1, <2>2, <2>3, <2>4, Zenon
  <2>6. c.n = n
    <3>1. c.n \in Int
      BY <2>1
    <3>2. QED
      BY <2>5, <3>1, NoDifference, Zenon
  <2>7. QED
    BY <2>1, <2>6, Zenon DEF Entered
<1>4. QED
  BY <1>2, <1>3

(* The branch workbook as it is read back.                                    *)
LEMMA FilledIs ==
  ASSUME NEW rows, NEW entries, IsAudit(rows, entries)
  PROVE  /\ IsFilled(FillIn(rows, entries)) /\ DOMAIN FillIn(rows, entries) = DOMAIN rows
         /\ \A r \in DOMAIN rows :
              /\ FillIn(rows, entries)[r].account = rows[r].account
              /\ FillIn(rows, entries)[r].actual = entries[r].actual
              /\ rows[r].packet # NoPacket =>
                   /\ FillIn(rows, entries)[r].bank = Entered(rows[r].gross)
                   /\ FillIn(rows, entries)[r].remark
                        = RemarkShown(CaratDiff(Entered(rows[r].carat), entries[r].carat))
<1> DEFINE N == Len(rows)
           f == FillIn(rows, entries)
           own(r) == BranchRow(rows[r])
<1>1. DOMAIN rows = 1..N /\ N \in Nat
  BY DEF IsAudit, IsSequence
<1>2. ASSUME NEW r \in 1..N
      PROVE  /\ rows[r].gross \in Int /\ rows[r].carat \in Int
             /\ IsEntry(entries[r].actual) /\ IsEntry(entries[r].carat)
  BY <1>1 DEF IsAudit
<1>3. ASSUME NEW c, IsEntry(c) PROVE c.n \in Int
  BY <1>3 DEF IsEntry, NoEntry
<1>4. ASSUME NEW r \in 1..N
      PROVE  /\ own(r).account = rows[r].account /\ own(r).bank.n \in Int
             /\ rows[r].packet # NoPacket =>
                  own(r).bank = Entered(rows[r].gross) /\ own(r).master = Entered(rows[r].carat)
  <2>1. own(r).account = rows[r].account
    BY DEF BranchRow
  <2>2. own(r).bank = IF rows[r].packet = NoPacket THEN NoEntry ELSE Entered(rows[r].gross)
    BY DEF BranchRow
  <2>3. own(r).master = IF rows[r].packet = NoPacket THEN NoEntry ELSE Entered(rows[r].carat)
    BY DEF BranchRow
  <2>4. NoEntry.n \in Int /\ Entered(rows[r].gross).n \in Int
    BY <1>2 DEF NoEntry, Entered
  <2> HIDE DEF own
  <2>5. QED
    BY <2>1, <2>2, <2>3, <2>4
<1> HIDE DEF own
<1>5. f = [r \in 1..N |->
             [account |-> own(r).account, bank |-> own(r).bank, packet |-> "",
              actual |-> entries[r].actual, carat |-> entries[r].carat,
              remark |-> RemarkShown(CaratDiff(own(r).master, entries[r].carat))]]
  BY <1>1 DEF FillIn, own
<1> HIDE DEF f
<1>6. DOMAIN f = 1..N /\ f = [r \in 1..N |-> f[r]]
  BY <1>5
<1>7. ASSUME NEW r \in 1..N
      PROVE  /\ f[r].account = own(r).account /\ f[r].bank = own(r).bank
             /\ f[r].actual = entries[r].actual /\ f[r].carat = entries[r].carat
             /\ f[r].remark = RemarkShown(CaratDiff(own(r).master, entries[r].carat))
  BY <1>5
<1>8. IsSequence(f)
  BY <1>1, <1>6, AsSequence
<1>9. ASSUME NEW r \in 1..N
      PROVE  f[r].bank.n \in Int /\ f[r].actual.n \in Int /\ f[r].carat.n \in Int
  BY <1>2, <1>3, <1>4, <1>7
<1>10. IsFilled(f)
  BY <1>6, <1>8, <1>9 DEF IsFilled, IsNumeric
<1>11. QED
  BY <1>1, <1>4, <1>6, <1>7, <1>10 DEF f

LEMMA AuditReaches ==
  ASSUME NEW rows, NEW entries, IsAudit(rows, entries)
  PROVE  AuditReachesReport(rows, entries, Stage2(FillIn(rows, entries)))
<1> DEFINE N == Len(rows)
           f == FillIn(rows, entries)
           done == Consolidate(f)
           out == Stage2(f)
           own(a) == {r \in DOMAIN rows : rows[r].account = a}
           packed(a) == \A r \in own(a) : rows[r].packet # NoPacket
           weighed == [r \in DOMAIN rows |-> entries[r].actual.n]
           expected == [r \in DOMAIN rows |-> rows[r].gross]
<1>1. DOMAIN rows = 1..N /\ N \in Nat
  BY DEF IsAudit, IsSequence
<1>2. /\ IsFilled(f) /\ DOMAIN f = DOMAIN rows
      /\ \A r \in DOMAIN rows :
           /\ f[r].account = rows[r].account
           /\ f[r].actual = entries[r].actual
           /\ rows[r].packet # NoPacket =>
                /\ f[r].bank = Entered(rows[r].gross)
                /\ f[r].remark = RemarkShown(CaratDiff(Entered(rows[r].carat), entries[r].carat))
  BY FilledIs
<1> HIDE DEF f
<1>3. /\ DOMAIN done = {f[r].account : r \in WithAccount(f)}
      /\ \A a \in DOMAIN done :
           /\ done[a].bank = AddedAt(Amounts(f, "bank"), GroupOf(f, a))
           /\ done[a].actual = AddedAt(Amounts(f, "actual"), GroupOf(f, a))
           /\ done[a].issues = IssuesOf(f, GroupOf(f, a))
  BY <1>2, ConsolidateIs
<1>4. out = [a \in DOMAIN done |-> [account |-> done[a], diff |-> done[a].actual - done[a].bank]]
  BY Zenon DEF Stage2
<1> HIDE DEF done, out
<1>5. DOMAIN out = DOMAIN done
  BY <1>4
<1>6. ASSUME NEW a \in DOMAIN out
      PROVE  GroupOf(f, a) = own(a) /\ own(a) \subseteq 1..N
  <2>1. a # ""
    BY <1>3, <1>5, <1>6, Zenon DEF WithAccount
  <2>2. ASSUME NEW r PROVE r \in GroupOf(f, a) <=> r \in own(a)
    <3>1. r \in GroupOf(f, a) <=> (r \in DOMAIN f /\ f[r].account # "") /\ f[r].account = a
      BY Zenon DEF GroupOf, WithAccount
    <3>2. r \in DOMAIN f => f[r].account = rows[r].account
      BY <1>2
    <3>3. r \in GroupOf(f, a) <=> r \in DOMAIN rows /\ rows[r].account = a
      BY <1>2, <2>1, <3>1, <3>2, Zenon
    <3>4. QED
      BY <3>3, Zenon
  <2>3. GroupOf(f, a) = own(a)
    BY <2>2, Zenon
  <2>4. QED
    BY <1>1, <2>3
<1>7. ASSUME NEW a \in DOMAIN out, packed(a)
      PROVE  /\ out[a].account.issues = {} => \A r \in own(a) : entries[r].carat = Entered(rows[r].carat)
             /\ out[a].diff = AddedAt(weighed, own(a)) - AddedAt(expected, own(a))
  <2>1. out[a].account = done[a] /\ out[a].diff = done[a].actual - done[a].bank
    BY <1>4, <1>5
  <2>2. \A r \in own(a) : r \in 1..N /\ rows[r].packet # NoPacket
    BY <1>6, <1>7
  <2>3. GroupOf(f, a) = own(a)
    BY <1>6
  <2> HIDE DEF own
  <2>4. ASSUME done[a].issues = {}, NEW r \in own(a) PROVE entries[r].carat = Entered(rows[r].carat)
    <3>0. {f[q].remark : q \in own(a)} \ {Ok, ""} = {}
      BY <1>3, <1>5, <2>3, <2>4, Zenon DEF IssuesOf
    <3>1. f[r].remark \in {Ok, ""}
      BY <2>4, <3>0, Zenon
    <3>2. RemarkShown(CaratDiff(Entered(rows[r].carat), entries[r].carat)) \in {Ok, ""}
      BY <1>1, <1>2, <2>2, <3>1, Zenon
    <3>3. rows[r].carat \in Int /\ IsEntry(entries[r].carat)
      BY <1>1, <2>2 DEF IsAudit
    <3>4. QED
      BY <3>2, <3>3, RemarksAre
  <2>5. AddedAt(Amounts(f, "actual"), own(a)) = AddedAt(weighed, own(a))
    <3> DEFINE s == Amounts(f, "actual")
    <3>1. s = [r \in 1..N |-> Numeric(f[r].actual)]
      BY <1>1, <1>2 DEF Amounts
    <3>2. DOMAIN s = 1..N /\ DOMAIN weighed = 1..N
      BY <1>1, <3>1
    <3>3. \A r \in own(a) : s[r] = weighed[r]
      <4>1. ASSUME NEW r \in 1..N PROVE Numeric(entries[r].actual) = entries[r].actual.n
        <5>1. IsEntry(entries[r].actual)
          BY <1>1 DEF IsAudit
        <5>2. QED
          BY <5>1 DEF IsEntry, NoEntry, Numeric
      <4>2. QED
        BY <1>1, <1>2, <2>2, <3>1, <4>1
    <3> HIDE DEF s, weighed
    <3>4. QED
      BY <3>2, <3>3, AddedAtSame DEF s
  <2>6. AddedAt(Amounts(f, "bank"), own(a)) = AddedAt(expected, own(a))
    <3> DEFINE s == Amounts(f, "bank")
    <3>1. s = [r \in 1..N |-> Numeric(f[r].bank)]
      BY <1>1, <1>2 DEF Amounts
    <3>2. DOMAIN s = 1..N /\ DOMAIN expected = 1..N
      BY <1>1, <3>1
    <3>3. \A r \in own(a) : s[r] = expected[r]
      <4>1. \A g : Numeric(Entered(g)) = g
        BY DEF Numeric, Entered
      <4>2. QED
        BY <1>1, <1>2, <2>2, <3>1, <4>1
    <3> HIDE DEF s, expected
    <3>4. QED
      BY <3>2, <3>3, AddedAtSame DEF s
  <2>7. QED
    BY <1>3, <1>5, <2>1, <2>3, <2>4, <2>5, <2>6, Zenon
<1>8. QED
  BY <1>7, Zenon DEF AuditReachesReport, out, f

-----------------------------------------------------------------------------
(* A list of accounts that names none twice, and every one by its digits.     *)
AccountList(pdf) ==
  /\ IsSequence(pdf) /\ \A i \in 1..Len(pdf) : pdf[i] # 0
  /\ \A i, j \in 1..Len(pdf) : pdf[i] = pdf[j] => i = j

LEMMA ExtractedIs ==
  ASSUME NEW rows, NEW numbers, IsLayout(rows, numbers)
  PROVE  AccountList(Extracted(numbers, rows))
<1> DEFINE shape == {rows[r].digits : r \in {q \in DOMAIN rows : rows[q].account # 0}}
           K == {x \in Range(numbers) : x.digits \in shape}
           found == Kept(numbers, K)
           P == {i \in DOMAIN found : \A j \in 1..(i - 1) : found[j].account # found[i].account}
           first == InOrder(P)
           pdf == [k \in DOMAIN first |-> found[first[k]].account]
<1>1. Extracted(numbers, rows) = pdf
  BY Zenon DEF Extracted
<1>2. IsSequence(numbers) /\ \A x \in Range(numbers) : x.account # 0
  BY ItemsAre DEF IsLayout, IsSequence
<1> HIDE DEF K
<1>3. IsSequence(found) /\ \A i \in 1..Len(found) : found[i] \in Range(numbers)
  BY <1>2, KeptIs
<1> HIDE DEF found
<1>4. DOMAIN found = 1..Len(found) /\ Len(found) \in Nat
  BY <1>3 DEF IsSequence
<1>5. P \subseteq 1..Len(found)
  BY <1>4
<1>6. \A a, b \in P : found[a].account = found[b].account => a = b
  <2>1. ASSUME NEW a \in P, NEW b \in P, found[a].account = found[b].account, a < b PROVE FALSE
    <3>1. a \in 1..(b - 1)
      BY <1>5, <2>1
    <3>2. QED
      BY <2>1, <3>1
  <2>2. \A a, b \in P : a \in Nat /\ b \in Nat /\ (a < b \/ b < a \/ a = b)
    BY <1>5
  <2> HIDE DEF P
  <2>3. QED
    BY <2>1, <2>2, Zenon
<1> HIDE DEF P
<1>7. /\ IsSequence(first) /\ \A i \in 1..Len(first) : first[i] \in P
      /\ \A i, j \in 1..Len(first) : i < j => first[i] < first[j]
  BY <1>4, <1>5, InOrderIs
<1> HIDE DEF first
<1>8. DOMAIN first = 1..Len(first) /\ Len(first) \in Nat
  BY <1>7 DEF IsSequence
<1>9. DOMAIN pdf = 1..Len(first) /\ pdf = [i \in 1..Len(first) |-> pdf[i]]
      /\ \A i \in 1..Len(first) : pdf[i] = found[first[i]].account
  BY <1>8
<1> HIDE DEF pdf
<1>10. IsSequence(pdf) /\ Len(pdf) = Len(first)
  BY <1>8, <1>9, AsSequence
<1>11. ASSUME NEW i \in 1..Len(first) PROVE pdf[i] # 0
  BY <1>2, <1>3, <1>5, <1>7, <1>9
<1>12. ASSUME NEW i \in 1..Len(first), NEW j \in 1..Len(first), pdf[i] = pdf[j] PROVE i = j
  <2>1. first[i] = first[j] /\ first[i] \in Nat
    BY <1>5, <1>6, <1>7, <1>9, <1>12
  <2>2. ~(i < j) /\ ~(j < i)
    BY <1>7, <2>1
  <2>3. QED
    BY <2>2
<1>13. QED
  BY <1>1, <1>10, <1>11, <1>12 DEF AccountList

LEMMA TrimmedIs ==
  ASSUME NEW rows, NEW pdf, AccountList(pdf)
  PROVE  AccountList(Trimmed(rows, pdf))
<1> DEFINE M == Len(pdf)
           at == MatchedAt(rows, pdf)
<1>1. IsSequence(pdf) /\ DOMAIN pdf = 1..M /\ M \in Nat
  BY DEF AccountList, IsSequence
<1>2. CASE at = {}
  BY <1>2 DEF Trimmed
<1>3. CASE at # {}
  <2> DEFINE a == Min(at)
             b == Max(at)
             cut == SubSeq(pdf, a, b)
  <2>1. at \subseteq 1..M
    BY <1>1 DEF MatchedAt
  <2> HIDE DEF at
  <2>2. a \in 1..M /\ b \in 1..M /\ a <= b
    <3>1. at \subseteq Nat /\ at \subseteq 0..M
      BY <2>1
    <3>2. a \in at /\ b \in at /\ a <= b
      BY <1>1, <1>3, <3>1, MinIs, MaxIs
    <3>3. QED
      BY <2>1, <3>2
  <2>3. Trimmed(rows, pdf) = cut
    BY <1>3, Zenon DEF Trimmed, at
  <2> HIDE DEF a, b
  <2>4. \E T : pdf \in Seq(T)
    BY <1>1, IsSeqOf
  <2>5. cut = [i \in 1..(b - a + 1) |-> pdf[i + a - 1]]
    BY <1>1, <2>2, <2>4
  <2> DEFINE n == b - a + 1
  <2>6. n \in Nat /\ DOMAIN cut = 1..n /\ cut = [i \in 1..n |-> cut[i]]
        /\ \A i \in 1..n : cut[i] = pdf[i + a - 1] /\ i + a - 1 \in 1..M
    BY <2>2, <2>5
  <2> HIDE DEF cut, n
  <2>7. IsSequence(cut) /\ Len(cut) = n
    BY <2>6, AsSequence
  <2>8. \A i \in 1..n : cut[i] # 0
    BY <2>6 DEF AccountList
  <2>9. \A i, j \in 1..n : cut[i] = cut[j] => i = j
    <3>1. ASSUME NEW i \in 1..n, NEW j \in 1..n, cut[i] = cut[j] PROVE i = j
      <4>1. i + a - 1 = j + a - 1
        BY <2>6, <3>1 DEF AccountList
      <4>2. QED
        BY <2>2, <2>6, <4>1
    <3>2. QED
      BY <3>1
  <2>10. QED
    BY <2>3, <2>7, <2>8, <2>9 DEF AccountList
<1>4. QED
  BY <1>2, <1>3
(* The rows laid out: each has one slot, and what is not a slot of a row is a *)
(* gap.                                                                       *)
Groups(rows, pdf) ==
  [i \in DOMAIN pdf |-> IF RowsOf(rows, pdf[i]) = <<>> THEN <<Gap>> ELSE RowsOf(rows, pdf[i])]

LEMMA RowsOfIs ==
  ASSUME NEW rows, IsSequence(rows), NEW a
  PROVE  /\ IsSequence(RowsOf(rows, a))
         /\ \A k \in 1..Len(RowsOf(rows, a)) :
              RowsOf(rows, a)[k] \in 1..Len(rows) /\ rows[RowsOf(rows, a)[k]].account = a
         /\ \A i, j \in 1..Len(RowsOf(rows, a)) : i < j => RowsOf(rows, a)[i] < RowsOf(rows, a)[j]
         /\ \A r \in 1..Len(rows) : rows[r].account = a =>
              \E k \in 1..Len(RowsOf(rows, a)) : RowsOf(rows, a)[k] = r
<1> DEFINE N == Len(rows)
           P == {i \in DOMAIN rows : rows[i].account = a}
<1>1. DOMAIN rows = 1..N /\ N \in Nat
  BY DEF IsSequence
<1>2. P \subseteq 1..N
  BY <1>1
<1>3. /\ IsSequence(InOrder(P))
      /\ \A i \in 1..Len(InOrder(P)) : InOrder(P)[i] \in P
      /\ \A i, j \in 1..Len(InOrder(P)) : i < j => InOrder(P)[i] < InOrder(P)[j]
      /\ \A b \in P : \E i \in 1..Len(InOrder(P)) : InOrder(P)[i] = b
  <2> HIDE DEF P
  <2>1. QED
    BY <1>1, <1>2, InOrderIs
<1>4. QED
  BY <1>1, <1>3 DEF RowsOf

(* The slots of an account: those of its rows, or one gap.                    *)
IsGroup(rows, a, s) ==
  /\ IsSequence(s) /\ Len(s) >= 1
  /\ \A k \in 1..Len(s) : s[k] = Gap => Len(s) = 1
  /\ \A k \in 1..Len(s) : s[k] = Gap \/ (s[k] \in 1..Len(rows) /\ rows[s[k]].account = a)
  /\ \A j, k \in 1..Len(s) : j < k => s[j] < s[k]
  /\ \A r \in 1..Len(rows) : rows[r].account = a => \E k \in 1..Len(s) : s[k] = r

LEMMA GroupsAreLists ==
  ASSUME NEW rows, IsSequence(rows), NEW pdf, IsSequence(pdf)
  PROVE  /\ IsSequence(Groups(rows, pdf)) /\ Len(Groups(rows, pdf)) = Len(pdf)
         /\ \A i \in 1..Len(pdf) : IsGroup(rows, pdf[i], Groups(rows, pdf)[i])
<1> DEFINE M == Len(pdf)
           g == Groups(rows, pdf)
<1>0. Len(rows) \in Nat
  BY DEF IsSequence
<1>1. DOMAIN pdf = 1..M /\ M \in Nat
  BY DEF IsSequence
<1>2. g = [i \in 1..M |-> IF RowsOf(rows, pdf[i]) = <<>> THEN <<Gap>> ELSE RowsOf(rows, pdf[i])]
  BY <1>1 DEF Groups
<1> HIDE DEF g
<1>3. DOMAIN g = 1..M /\ g = [i \in 1..M |-> g[i]]
  BY <1>2
<1>4. IsSequence(g) /\ Len(g) = M
  BY <1>1, <1>3, AsSequence
<1>5. ASSUME NEW i \in 1..M PROVE IsGroup(rows, pdf[i], g[i])
  <2> DEFINE s == RowsOf(rows, pdf[i])
  <2>1. /\ IsSequence(s)
        /\ \A k \in 1..Len(s) : s[k] \in 1..Len(rows) /\ rows[s[k]].account = pdf[i]
        /\ \A j, k \in 1..Len(s) : j < k => s[j] < s[k]
        /\ \A r \in 1..Len(rows) : rows[r].account = pdf[i] => \E k \in 1..Len(s) : s[k] = r
    BY RowsOfIs
  <2>2. g[i] = IF s = <<>> THEN <<Gap>> ELSE s
    BY <1>2
  <2> HIDE DEF s
  <2>3. CASE s = <<>>
    <3>1. g[i] = <<Gap>> /\ Len(g[i]) = 1 /\ g[i][1] = Gap
      BY <2>2, <2>3
    <3>2. IsSequence(<<Gap>>)
      BY DEF IsSequence
    <3>3. \A r \in 1..Len(rows) : rows[r].account # pdf[i]
      BY <2>1, <2>3
    <3>4. QED
      BY <3>1, <3>2, <3>3 DEF IsGroup
  <2>4. CASE s # <<>>
    <3>1. g[i] = s
      BY <2>2, <2>4
    <3>2. Len(s) \in Nat /\ Len(s) # 0
      BY <2>1, <2>4 DEF IsSequence
    <3>3. \A k \in 1..Len(s) : s[k] # Gap
      BY <1>0, <2>1 DEF Gap
    <3>4. QED
      BY <2>1, <3>1, <3>2, <3>3 DEF IsGroup
  <2>5. QED
    BY <2>3, <2>4
<1>6. QED
  BY <1>4, <1>5 DEF g

(* The slots the PDF gives: no row has two, and none is left out of those the *)
(* PDF lists.                                                                 *)
LEMMA ListedIs ==
  ASSUME NEW rows, IsSequence(rows), NEW pdf, AccountList(pdf),
         NEW listed, listed = FlattenSeq(Groups(rows, pdf))
  PROVE  /\ IsSequence(listed)
         /\ \A p \in 1..Len(listed) : listed[p] = Gap
              \/ (listed[p] \in 1..Len(rows) /\ \E i \in 1..Len(pdf) : rows[listed[p]].account = pdf[i])
         /\ \A p, q \in 1..Len(listed) : listed[p] = listed[q] /\ listed[p] # Gap => p = q
         /\ \A r \in 1..Len(rows) : \A i \in 1..Len(pdf) : rows[r].account = pdf[i] =>
              \E p \in 1..Len(listed) : listed[p] = r
<1> DEFINE M == Len(pdf)
           N == Len(rows)
           L == Len(listed)
           g == Groups(rows, pdf)
<1>1. IsSequence(pdf) /\ M \in Nat
  BY DEF AccountList, IsSequence
<1>2. IsSequence(g) /\ Len(g) = M /\ \A i \in 1..M : IsGroup(rows, pdf[i], g[i])
  BY <1>1, GroupsAreLists
<1>3. Joined(g, M, listed)
  <2>1. \A i \in 1..M : IsSequence(g[i])
    BY <1>2 DEF IsGroup
  <2>2. Joined(g, Len(g), FlattenSeq(g))
    BY <1>2, <2>1, FlattenedIs
  <2>3. QED
    BY <1>2, <2>2
<1> HIDE DEF g
<1>4. IsSequence(listed) /\ L \in Nat
  BY <1>3 DEF Joined, IsSequence
<1>5. PICK at : JoinedBy(g, M, listed, at)
  BY <1>3 DEF Joined
<1> DEFINE h == [p \in 1..L |-> at[p][1]]
           k == [p \in 1..L |-> at[p][2]]
<1>6. /\ \A p \in 1..L : h[p] \in 1..M /\ k[p] \in 1..Len(g[h[p]]) /\ listed[p] = g[h[p]][k[p]]
      /\ \A p, q \in 1..L : p < q => h[p] < h[q] \/ (h[p] = h[q] /\ k[p] < k[q])
      /\ \A i \in 1..M : \A j \in 1..Len(g[i]) : \E p \in 1..L : h[p] = i /\ k[p] = j
  BY <1>5 DEF JoinedBy
<1> HIDE DEF h, k
<1>7. \A p \in 1..L : listed[p] = Gap \/ (listed[p] \in 1..N /\ rows[listed[p]].account = pdf[h[p]])
  <2>1. ASSUME NEW p \in 1..L
        PROVE  listed[p] = Gap \/ (listed[p] \in 1..N /\ rows[listed[p]].account = pdf[h[p]])
    <3>1. IsGroup(rows, pdf[h[p]], g[h[p]])
      BY <1>2, <1>6
    <3>2. h[p] \in 1..M /\ k[p] \in 1..Len(g[h[p]]) /\ listed[p] = g[h[p]][k[p]]
      BY <1>6
    <3>3. \A j \in 1..Len(g[h[p]]) :
            g[h[p]][j] = Gap \/ (g[h[p]][j] \in 1..N /\ rows[g[h[p]][j]].account = pdf[h[p]])
      BY <3>1 DEF IsGroup
    <3>4. QED
      BY <3>2, <3>3
  <2>2. QED
    BY <2>1
<1>8. ASSUME NEW p \in 1..L, NEW q \in 1..L, listed[p] = listed[q], listed[p] # Gap, p < q PROVE FALSE
  <2>1. pdf[h[p]] = pdf[h[q]] /\ h[p] \in 1..M /\ h[q] \in 1..M
    BY <1>6, <1>7, <1>8
  <2>2. h[p] = h[q]
    BY <2>1 DEF AccountList
  <2>3. k[p] < k[q]
    BY <1>6, <1>8, <2>1, <2>2
  <2>4. g[h[p]][k[p]] < g[h[p]][k[q]]
    BY <1>2, <1>6, <2>1, <2>2, <2>3 DEF IsGroup
  <2>5. g[h[p]][k[p]] = listed[p] /\ g[h[p]][k[q]] = listed[p] /\ listed[p] \in Nat
    BY <1>6, <1>7, <1>8, <2>2
  <2>6. QED
    BY <2>4, <2>5
<1>9. \A p, q \in 1..L : listed[p] = listed[q] /\ listed[p] # Gap => p = q
  <2>1. \A p, q \in 1..L : p < q \/ q < p \/ p = q
    BY <1>4
  <2>2. QED
    BY <1>8, <2>1, Zenon
<1>10. \A r \in 1..N : \A i \in 1..M : rows[r].account = pdf[i] => \E p \in 1..L : listed[p] = r
  <2>1. ASSUME NEW r \in 1..N, NEW i \in 1..M, rows[r].account = pdf[i]
        PROVE  \E p \in 1..L : listed[p] = r
    <3>1. PICK j \in 1..Len(g[i]) : g[i][j] = r
      BY <1>2, <2>1 DEF IsGroup
    <3>2. PICK p \in 1..L : h[p] = i /\ k[p] = j
      BY <1>6
    <3>3. QED
      BY <1>6, <3>1, <3>2
  <2>2. QED
    BY <2>1
<1>11. \A p \in 1..L : listed[p] = Gap
          \/ (listed[p] \in 1..N /\ \E i \in 1..M : rows[listed[p]].account = pdf[i])
  BY <1>6, <1>7
<1>12. QED
  BY <1>4, <1>9, <1>10, <1>11

(* Where no account is on two rows, the i-th slot is of the i-th account.     *)
LEMMA ListedOnes ==
  ASSUME NEW rows, IsSequence(rows), NEW pdf, AccountList(pdf),
         NEW listed, listed = FlattenSeq(Groups(rows, pdf)),
         \A i, j \in DOMAIN rows : i # j /\ rows[i].account # 0 => rows[i].account # rows[j].account
  PROVE  /\ Len(listed) = Len(pdf)
         /\ \A i \in 1..Len(pdf) : \A r \in 1..Len(rows) : rows[r].account = pdf[i] => listed[i] = r
<1> DEFINE M == Len(pdf)
           N == Len(rows)
           g == Groups(rows, pdf)
<1>1. IsSequence(pdf) /\ M \in Nat /\ DOMAIN rows = 1..N
  BY DEF AccountList, IsSequence
<1>2. IsSequence(g) /\ Len(g) = M /\ \A i \in 1..M : IsGroup(rows, pdf[i], g[i])
  BY <1>1, GroupsAreLists
<1>3. Joined(g, M, listed)
  <2>1. \A i \in 1..M : IsSequence(g[i])
    BY <1>2 DEF IsGroup
  <2>2. Joined(g, Len(g), FlattenSeq(g))
    BY <1>2, <2>1, FlattenedIs
  <2>3. QED
    BY <1>2, <2>2
<1> HIDE DEF g
<1>4. ASSUME NEW i \in 1..M PROVE Len(g[i]) = 1
  <2> DEFINE s == g[i]
             m == Len(s)
  <2>1. IsGroup(rows, pdf[i], s)
    BY <1>2
  <2> HIDE DEF s
  <2>2. m \in Nat /\ m >= 1
    BY <2>1 DEF IsGroup, IsSequence
  <2> HIDE DEF m
  <2>3. SUFFICES ASSUME m # 1 PROVE FALSE
    BY DEF m, s
  <2>4. 1 \in 1..m /\ 2 \in 1..m
    BY <2>2, <2>3
  <2>5. s[1] # Gap /\ s[2] # Gap
    BY <2>1, <2>3, <2>4 DEF IsGroup, m
  <2>6. s[1] \in 1..N /\ rows[s[1]].account = pdf[i] /\ s[2] \in 1..N /\ rows[s[2]].account = pdf[i]
    BY <2>1, <2>4, <2>5 DEF IsGroup, m
  <2>7. s[1] < s[2]
    BY <2>1, <2>4 DEF IsGroup, m
  <2>8. s[1] # s[2]
    BY <2>6, <2>7
  <2>9. pdf[i] # 0
    BY DEF AccountList
  <2>10. QED
    BY <1>1, <2>6, <2>8, <2>9, Zenon
<1>5. Len(listed) = M /\ \A i \in 1..M : listed[i] = g[i][1]
  <2>1. \A i \in 1..M : Len(g[i]) = 1
    BY <1>4
  <2>2. QED
    BY <1>1, <1>3, <2>1, JoinedOnes
<1>6. ASSUME NEW i \in 1..M, NEW r \in 1..N, rows[r].account = pdf[i] PROVE listed[i] = r
  <2>1. PICK k \in 1..Len(g[i]) : g[i][k] = r
    BY <1>2, <1>6 DEF IsGroup
  <2>2. k = 1
    BY <1>4, <2>1
  <2>3. QED
    BY <1>5, <2>1, <2>2
<1>7. QED
  BY <1>5, <1>6

(* All the slots, and the rows the PDF does not mention in theirs.            *)
LEMMA SlotsAre ==
  ASSUME NEW rows, IsSequence(rows), NEW pdf, AccountList(pdf),
         NEW listed, listed = FlattenSeq(Groups(rows, pdf)),
         NEW slots, slots = Slots(rows, pdf)
  PROVE  /\ IsSequence(listed) /\ IsSequence(slots) /\ Len(listed) <= Len(slots)
         /\ \A p \in 1..Len(listed) : slots[p] = listed[p]
         /\ \A n \in 1..Len(slots) : slots[n] = Gap \/ slots[n] \in 1..Len(rows)
         /\ \A n, m \in 1..Len(slots) : slots[n] = slots[m] /\ slots[n] # Gap => n = m
         /\ \A r \in 1..Len(rows) : \E n \in 1..Len(slots) : slots[n] = r
         /\ \A n, m \in 1..Len(slots) : Len(listed) < n /\ n < m => slots[n] < slots[m]
<1> DEFINE N == Len(rows)
           L == Len(listed)
           P == DOMAIN rows \ Range(listed)
           rest == InOrder(P)
           T == Len(slots)
<1>1. DOMAIN rows = 1..N /\ N \in Nat
  BY DEF IsSequence
<1>2. /\ IsSequence(listed)
      /\ \A p \in 1..L : listed[p] = Gap \/ listed[p] \in 1..N
      /\ \A p, q \in 1..L : listed[p] = listed[q] /\ listed[p] # Gap => p = q
  <2>1. /\ IsSequence(listed)
        /\ \A p \in 1..L : listed[p] = Gap
             \/ (listed[p] \in 1..N /\ \E i \in 1..Len(pdf) : rows[listed[p]].account = pdf[i])
        /\ \A p, q \in 1..L : listed[p] = listed[q] /\ listed[p] # Gap => p = q
    BY ListedIs
  <2>2. QED
    BY <2>1, Zenon
<1>3. slots = listed \o rest
  BY Zenon DEF Slots, Groups, Others
<1>4. P \subseteq 1..N /\ (\A r \in 1..N : r \in P \/ \E p \in 1..L : listed[p] = r)
      /\ \A p \in 1..L : listed[p] \notin P
  <2>1. DOMAIN listed = 1..L /\ Range(listed) = {listed[i] : i \in 1..L}
    BY <1>2, IsSeqOf
  <2>2. QED
    BY <1>1, <2>1
<1> HIDE DEF P
<1>5. /\ IsSequence(rest)
      /\ \A i \in 1..Len(rest) : rest[i] \in P
      /\ \A i, j \in 1..Len(rest) : i < j => rest[i] < rest[j]
      /\ \A a \in P : \E i \in 1..Len(rest) : rest[i] = a
  BY <1>1, <1>4, InOrderIs
<1> HIDE DEF rest
<1>6. /\ IsSequence(slots) /\ T = L + Len(rest)
      /\ \A i \in 1..L : slots[i] = listed[i]
      /\ \A i \in 1..Len(rest) : slots[L + i] = rest[i]
  BY <1>2, <1>3, <1>5, Joining
<1>7. L \in Nat /\ Len(rest) \in Nat
  BY <1>2, <1>5 DEF IsSequence
<1>8. ASSUME NEW n \in 1..T, ~(n <= L)
      PROVE  n - L \in 1..Len(rest) /\ slots[n] = rest[n - L] /\ slots[n] \in P
  <2>1. n - L \in 1..Len(rest) /\ n = L + (n - L)
    BY <1>6, <1>7, <1>8
  <2>2. QED
    BY <1>5, <1>6, <2>1
<1>9. \A n \in 1..T : slots[n] = Gap \/ slots[n] \in 1..N
  <2>1. ASSUME NEW n \in 1..T PROVE slots[n] = Gap \/ slots[n] \in 1..N
    <3>1. CASE n <= L
      <4>1. n \in 1..L
        BY <1>7, <3>1
      <4>2. QED
        BY <1>2, <1>6, <4>1
    <3>2. CASE ~(n <= L)
      BY <1>4, <1>8, <3>2
    <3>3. QED
      BY <3>1, <3>2
  <2>2. QED
    BY <2>1
<1>10. \A n, m \in 1..T : L < n /\ n < m => slots[n] < slots[m]
  <2>1. ASSUME NEW n \in 1..T, NEW m \in 1..T, L < n, n < m PROVE slots[n] < slots[m]
    <3>1. n \in Nat /\ m \in Nat /\ ~(n <= L) /\ ~(m <= L)
      BY <1>7, <2>1
    <3>2. n - L \in 1..Len(rest) /\ slots[n] = rest[n - L]
      BY <1>8, <3>1
    <3>3. m - L \in 1..Len(rest) /\ slots[m] = rest[m - L]
      BY <1>8, <3>1
    <3>4. n - L < m - L
      BY <1>7, <2>1, <3>1
    <3>5. QED
      BY <1>5, <3>2, <3>3, <3>4
  <2>2. QED
    BY <2>1
<1>11. \A n, m \in 1..T : slots[n] = slots[m] /\ slots[n] # Gap => n = m
  <2>1. ASSUME NEW n \in 1..T, NEW m \in 1..T, slots[n] = slots[m], slots[n] # Gap, n < m PROVE FALSE
    <3>1. n \in Nat /\ m \in Nat
      OBVIOUS
    <3>2. CASE m <= L
      <4>1. n \in 1..L /\ m \in 1..L
        BY <1>7, <2>1, <3>1, <3>2
      <4>2. QED
        BY <1>2, <1>6, <2>1, <3>1, <4>1
    <3>3. CASE n <= L /\ ~(m <= L)
      <4>1. n \in 1..L
        BY <1>7, <3>3
      <4>2. slots[n] \notin P
        BY <1>4, <1>6, <4>1
      <4>3. QED
        BY <1>8, <2>1, <3>3, <4>2
    <3>4. CASE ~(n <= L)
      <4>1. L < n
        BY <1>7, <3>1, <3>4
      <4>2. slots[n] < slots[m]
        BY <1>10, <2>1, <4>1
      <4>3. slots[n] \in Nat
        <5>1. slots[n] \in 1..N
          BY <1>4, <1>8, <3>4
        <5>2. QED
          BY <5>1
      <4>4. QED
        BY <2>1, <4>2, <4>3
    <3>5. QED
      BY <3>2, <3>3, <3>4
  <2>2. \A n, m \in 1..T : n < m \/ m < n \/ n = m
    OBVIOUS
  <2>3. QED
    BY <2>1, <2>2, Zenon
<1>12. \A r \in 1..N : \E n \in 1..T : slots[n] = r
  <2>1. ASSUME NEW r \in 1..N PROVE \E n \in 1..T : slots[n] = r
    <3>1. CASE r \in P
      <4>1. PICK i \in 1..Len(rest) : rest[i] = r
        BY <1>5, <3>1
      <4>2. L + i \in 1..T
        BY <1>6, <1>7
      <4>3. QED
        BY <1>6, <4>1, <4>2
    <3>2. CASE r \notin P
      <4>1. PICK p \in 1..L : listed[p] = r
        BY <1>4, <3>2
      <4>2. p \in 1..T
        BY <1>6, <1>7
      <4>3. QED
        BY <1>6, <4>1, <4>2
    <3>3. QED
      BY <3>1, <3>2
  <2>2. QED
    BY <2>1
<1>13. L <= T
  BY <1>6, <1>7
<1>14. QED
  BY <1>2, <1>6, <1>9, <1>10, <1>11, <1>12, <1>13

(* A row's place in the layout, and what stands there.                        *)
LEMMA RowsFollow ==
  ASSUME NEW rows, NEW numbers, IsLayout(rows, numbers)
  PROVE  RowsFollowPdf(rows, numbers, LayOut(rows, numbers))
<1> DEFINE pdf == Trimmed(rows, Extracted(numbers, rows))
           slots == Slots(rows, pdf)
           listed == FlattenSeq(Groups(rows, pdf))
           out == LayOut(rows, numbers)
           N == Len(rows)
           M == Len(pdf)
           L == Len(listed)
           T == Len(slots)
           placed(r) == CHOOSE n \in DOMAIN out : out[n].from = r
           unique == \A i, j \in DOMAIN rows : i # j /\ rows[i].account # 0 => rows[i].account # rows[j].account
           isListed(r) == rows[r].account \in Range(pdf) /\ rows[r].account # 0
<1>1. IsSequence(rows) /\ DOMAIN rows = 1..N /\ N \in Nat
  BY DEF IsLayout, IsSequence
<1>2. AccountList(pdf)
  BY ExtractedIs, TrimmedIs
<1>3. out = [n \in DOMAIN slots |->
               IF slots[n] = Gap THEN [account |-> 0, from |-> Gap, refs |-> <<>>]
               ELSE [account |-> rows[slots[n]].account, from |-> slots[n],
                     refs |-> Retarget(rows[slots[n]].refs, slots[n], n)]]
  BY Zenon DEF LayOut, Rearrange
<1> HIDE DEF pdf
<1>4. IsSequence(pdf) /\ M \in Nat /\ \A i \in 1..M : pdf[i] # 0
  BY <1>2 DEF AccountList, IsSequence
<1>5. /\ IsSequence(listed)
      /\ \A p \in 1..L : listed[p] = Gap \/ (listed[p] \in 1..N /\ \E i \in 1..M : rows[listed[p]].account = pdf[i])
  <2>1. /\ IsSequence(listed)
        /\ \A p \in 1..L : listed[p] = Gap
             \/ (listed[p] \in 1..N /\ \E i \in 1..M : rows[listed[p]].account = pdf[i])
        /\ \A p, q \in 1..L : listed[p] = listed[q] /\ listed[p] # Gap => p = q
        /\ \A r \in 1..N : \A i \in 1..M : rows[r].account = pdf[i] => \E p \in 1..L : listed[p] = r
    BY <1>1, <1>2, ListedIs
  <2>2. QED
    BY <2>1, Zenon
<1>6. unique => L = M /\ \A i \in 1..M : \A r \in 1..N : rows[r].account = pdf[i] => listed[i] = r
  BY <1>1, <1>2, ListedOnes
<1>7. /\ IsSequence(slots) /\ L <= T
      /\ \A p \in 1..L : slots[p] = listed[p]
      /\ \A n \in 1..T : slots[n] = Gap \/ slots[n] \in 1..N
      /\ \A n, m \in 1..T : slots[n] = slots[m] /\ slots[n] # Gap => n = m
      /\ \A r \in 1..N : \E n \in 1..T : slots[n] = r
      /\ \A n, m \in 1..T : L < n /\ n < m => slots[n] < slots[m]
  <2>1. /\ IsSequence(listed) /\ IsSequence(slots) /\ L <= T
        /\ \A p \in 1..L : slots[p] = listed[p]
        /\ \A n \in 1..T : slots[n] = Gap \/ slots[n] \in 1..N
        /\ \A n, m \in 1..T : slots[n] = slots[m] /\ slots[n] # Gap => n = m
        /\ \A r \in 1..N : \E n \in 1..T : slots[n] = r
        /\ \A n, m \in 1..T : L < n /\ n < m => slots[n] < slots[m]
    BY <1>1, <1>2, SlotsAre
  <2>2. QED
    BY <2>1, Zenon
<1> HIDE DEF listed, slots
<1>8. DOMAIN slots = 1..T /\ T \in Nat /\ L \in Nat
  BY <1>5, <1>7 DEF IsSequence
<1>9. /\ DOMAIN out = 1..T
      /\ \A n \in 1..T : out[n].from = slots[n]
      /\ \A n \in 1..T : slots[n] # Gap => out[n].refs = Retarget(rows[slots[n]].refs, slots[n], n)
  BY <1>3, <1>8
<1> HIDE DEF out
<1>10. \A r \in 1..N : r # Gap
  BY DEF Gap
<1>11. ASSUME NEW r \in 1..N, NEW n \in 1..T, slots[n] = r
       PROVE  placed(r) = n /\ {m \in DOMAIN out : out[m].from = r} = {n}
  <2>1. \A m \in DOMAIN out : out[m].from = r <=> m = n
    BY <1>7, <1>9, <1>10, <1>11
  <2>2. n \in DOMAIN out
    BY <1>9
  <2>3. QED
    BY <2>1, <2>2
<1>12. \A r \in DOMAIN rows : Cardinality({m \in DOMAIN out : out[m].from = r}) = 1
  <2>1. ASSUME NEW r \in 1..N PROVE Cardinality({m \in DOMAIN out : out[m].from = r}) = 1
    <3>1. PICK n \in 1..T : slots[n] = r
      BY <1>7
    <3>2. {m \in DOMAIN out : out[m].from = r} = {n}
      BY <1>11, <3>1
    <3>3. QED
      BY <3>2, FS_Singleton
  <2>2. QED
    BY <1>1, <2>1
<1>13. ASSUME NEW n \in DOMAIN out, out[n].from # Gap
       PROVE  LET r == out[n].from
                  written == rows[r].refs
                  own == {i \in DOMAIN written : written[i].row = r /\ ~written[i].absolute}
              IN /\ DOMAIN out[n].refs = DOMAIN written
                 /\ \A i \in own : out[n].refs[i].row = n /\ ~out[n].refs[i].absolute
                 /\ \A i \in DOMAIN written \ own : out[n].refs[i] = written[i]
  <2> DEFINE r == out[n].from
             written == rows[r].refs
             refs == out[n].refs
  <2>1. refs = Retarget(written, r, n)
    BY <1>9, <1>13
  <2> HIDE DEF r, written, refs
  <2>2. refs = [i \in DOMAIN written |->
                  IF written[i].row = r /\ ~written[i].absolute THEN [row |-> n, absolute |-> FALSE] ELSE written[i]]
    BY <2>1, Zenon DEF Retarget
  <2>3. [row |-> n, absolute |-> FALSE].row = n /\ ~[row |-> n, absolute |-> FALSE].absolute
    OBVIOUS
  <2>4. DOMAIN refs = DOMAIN written
    BY <2>2
  <2>5. \A i \in DOMAIN written : written[i].row = r /\ ~written[i].absolute => refs[i] = [row |-> n, absolute |-> FALSE]
    BY <2>2
  <2>6. \A i \in DOMAIN written : ~(written[i].row = r /\ ~written[i].absolute) => refs[i] = written[i]
    BY <2>2
  <2>7. QED
    BY <2>3, <2>4, <2>5, <2>6, Zenon DEF r, written, refs
<1>14. ASSUME unique, NEW r \in 1..N, isListed(r)
       PROVE  placed(r) \in 1..L /\ pdf[placed(r)] = rows[r].account
  <2>1. PICK i \in 1..M : rows[r].account = pdf[i]
    BY <1>4, <1>14, ItemsAre
  <2>2. L = M /\ listed[i] = r
    BY <1>6, <1>14, <2>1
  <2>3. i \in 1..L /\ i \in 1..T /\ slots[i] = r
    BY <1>7, <1>8, <2>2
  <2>4. placed(r) = i
    BY <1>11, <2>3
  <2>5. QED
    BY <2>1, <2>3, <2>4
<1>15. ASSUME NEW r \in 1..N, ~isListed(r)
       PROVE  placed(r) \in 1..T /\ L < placed(r) /\ slots[placed(r)] = r
  <2>1. PICK n \in 1..T : slots[n] = r
    BY <1>7
  <2>2. placed(r) = n
    BY <1>11, <2>1
  <2>3. ASSUME n \in 1..L PROVE FALSE
    <3>1. listed[n] = r
      BY <1>7, <2>1, <2>3
    <3>2. PICK i \in 1..M : rows[r].account = pdf[i]
      BY <1>5, <1>10, <2>3, <3>1
    <3>3. pdf[i] \in Range(pdf) /\ pdf[i] # 0
      BY <1>4, IsSeqOf
    <3>4. QED
      BY <1>15, <3>2, <3>3
  <2>4. L < n
    BY <1>8, <2>3
  <2>5. QED
    BY <2>1, <2>2, <2>4
<1>16. ASSUME unique, NEW q \in 1..N, NEW r \in 1..N, ~isListed(r), isListed(q) \/ q < r
       PROVE  placed(q) < placed(r)
  <2> DEFINE n == placed(r)
             m == placed(q)
  <2>1. n \in 1..T /\ L < n /\ slots[n] = r
    BY <1>15, <1>16
  <2>2. CASE isListed(q)
    <3>1. m \in 1..L
      BY <1>14, <1>16, <2>2
    <3> HIDE DEF m, n
    <3>2. m < n
      BY <1>8, <2>1, <3>1
    <3>3. QED
      BY <3>2 DEF m, n
  <2>3. CASE ~isListed(q)
    <3>1. m \in 1..T /\ L < m /\ slots[m] = q /\ q < r
      BY <1>15, <1>16, <2>3
    <3> HIDE DEF m, n
    <3>2. m # n
      BY <2>1, <3>1
    <3>3. ~(n < m)
      <4>1. n < m => r < q
        BY <1>7, <2>1, <3>1
      <4>2. QED
        BY <3>1, <4>1
    <3>4. m < n
      BY <1>8, <2>1, <3>1, <3>2, <3>3
    <3>5. QED
      BY <3>4 DEF m, n
  <2>4. QED
    BY <2>2, <2>3
<1>17. unique => /\ \A r \in DOMAIN rows : isListed(r) => pdf[placed(r)] = rows[r].account
                 /\ \A q, r \in DOMAIN rows : ~isListed(r) /\ (isListed(q) \/ q < r) => placed(q) < placed(r)
  <2> HIDE DEF unique, placed, isListed
  <2>1. QED
    BY <1>1, <1>14, <1>16, Zenon
<1>18. QED
  BY <1>12, <1>13, <1>17, Zenon DEF RowsFollowPdf, pdf, out

-----------------------------------------------------------------------------
(* The packets.  What a row is after the duplicates are looked for, and what  *)
(* one step of the search for missing packets makes of it.                    *)
IsNoted(c) == DOMAIN c = {"row", "marks", "note"}
IsHolder(row) == DOMAIN row = {"packet", "name", "status", "remark"}

LEMMA Painted ==
  ASSUME NEW marks, NEW key, NEW colour
  PROVE  key \in DOMAIN Paint(marks, key, colour)
<1>1. CASE key \in DOMAIN marks
  BY <1>1 DEF Paint
<1>2. CASE key \notin DOMAIN marks
  BY <1>2 DEF Paint
<1>3. QED
  BY <1>1, <1>2

LEMMA TidyRow ==
  ASSUME NEW row, IsPacketRow(row), row.packet.tidy
  PROVE  [row EXCEPT !.packet = Tidied(@)] = row
<1> DEFINE p == row.packet
           a == row.name
           b == row.status
           c == row.remark
<1>1. row = [packet |-> p, name |-> a, status |-> b, remark |-> c]
  BY Zenon DEF IsPacketRow
<1>2. p \in [series : STRING, digits : Nat, number : Nat, tidy : BOOLEAN] /\ p.tidy
  BY Zenon DEF IsPacketRow
<1> HIDE DEF p, a, b, c
<1>3. Tidied(p) = p
  BY <1>2 DEF Tidied
<1>4. [row EXCEPT !.packet = Tidied(@)] = [packet |-> Tidied(p), name |-> a, status |-> b, remark |-> c]
  BY <1>1
<1>5. QED
  BY <1>1, <1>3, <1>4

LEMMA RowIsHolder ==
  ASSUME NEW row, IsPacketRow(row), NEW other, other = [row EXCEPT !.packet = Tidied(@)]
  PROVE  /\ IsHolder(other) /\ other.packet = Tidied(row.packet)
         /\ other.name = row.name /\ other.status = row.status
<1> DEFINE p == row.packet
           a == row.name
           b == row.status
           c == row.remark
<1>1. row = [packet |-> p, name |-> a, status |-> b, remark |-> c]
  BY Zenon DEF IsPacketRow
<1> HIDE DEF p, a, b, c
<1>2. other = [packet |-> Tidied(p), name |-> a, status |-> b, remark |-> c]
  BY <1>1
<1>3. row.packet = p /\ row.name = a /\ row.status = b
  BY <1>1
<1>4. QED
  BY <1>2, <1>3 DEF IsHolder

(* A row after passes 0 and 1.                                                *)
IsCompared(rows, dup, r) ==
  /\ IsNoted(dup[r]) /\ IsHolder(dup[r].row)
  /\ dup[r].row.packet = Tidied(rows[r].packet)
  /\ dup[r].row.name = rows[r].name /\ dup[r].row.status = rows[r].status
  /\ dup[r].note \in {"none", "topup", "duplicate"}
  /\ dup[r].note = "none" /\ rows[r].packet.tidy => dup[r].marks = <<>>
  /\ dup[r].note # "none" => dup[r].row.packet # NoNumber /\ "packet" \in DOMAIN dup[r].marks

LEMMA ComparedIs ==
  ASSUME NEW rows, IsPacketSheet(rows), NEW dup, dup = DuplicatePackets(rows)
  PROVE  /\ DOMAIN dup = 1..Len(rows) /\ Len(rows) \in Nat
         /\ \A r \in 1..Len(rows) : IsCompared(rows, dup, r)
         /\ \A q, r \in 1..Len(rows) :
              q # r /\ dup[q].row.packet = dup[r].row.packet /\ dup[r].row.packet # NoNumber
                => dup[r].note # "none"
<1> DEFINE N == Len(rows)
           tidy == [r \in DOMAIN rows |-> [rows[r] EXCEPT !.packet = Tidied(@)]]
           green(r) == IF tidy[r] # rows[r] THEN Paint(<<>>, "packet", "green") ELSE <<>>
           twice(r) == /\ tidy[r].packet # NoNumber
                       /\ \E s \in DOMAIN rows : s # r /\ tidy[s].packet = tidy[r].packet
           entry(r) == IF ~twice(r) THEN [row |-> tidy[r], marks |-> green(r), note |-> "none"]
                       ELSE IF TopUp(tidy[r].remark)
                       THEN [row |-> tidy[r], marks |-> Paint(green(r), "packet", "light blue"), note |-> "topup"]
                       ELSE [row |-> tidy[r], marks |-> Paint(green(r), "packet", "dark red"), note |-> "duplicate"]
<1>1. DOMAIN rows = 1..N /\ N \in Nat /\ \A r \in 1..N : IsPacketRow(rows[r])
  BY DEF IsPacketSheet, IsSequence
<1>2. dup = [r \in DOMAIN rows |-> entry(r)]
  BY Zenon DEF DuplicatePackets
<1>3. DOMAIN dup = 1..N /\ \A r \in 1..N : dup[r] = entry(r)
  BY <1>1, <1>2, Zenon
<1>4. \A r \in 1..N : tidy[r] = [rows[r] EXCEPT !.packet = Tidied(@)]
  BY <1>1
<1>5. \A r \in 1..N : rows[r].packet.tidy => green(r) = <<>>
  <2>1. ASSUME NEW r \in 1..N, rows[r].packet.tidy PROVE tidy[r] = rows[r]
    BY <1>1, <1>4, <2>1, TidyRow
  <2>2. QED
    BY <2>1, Zenon
<1>6. \A r \in 1..N :
        \/ ~twice(r) /\ dup[r] = [row |-> tidy[r], marks |-> green(r), note |-> "none"]
        \/ \E colour, note : /\ twice(r) /\ note \in {"topup", "duplicate"}
                             /\ dup[r] = [row |-> tidy[r], marks |-> Paint(green(r), "packet", colour), note |-> note]
  <2>1. ASSUME NEW r \in 1..N
        PROVE  \/ ~twice(r) /\ dup[r] = [row |-> tidy[r], marks |-> green(r), note |-> "none"]
               \/ \E colour, note : /\ twice(r) /\ note \in {"topup", "duplicate"}
                                    /\ dup[r] = [row |-> tidy[r], marks |-> Paint(green(r), "packet", colour), note |-> note]
    <3>1. dup[r] = entry(r)
      BY <1>3
    <3> HIDE DEF twice, green, tidy
    <3>2. CASE ~twice(r)
      BY <3>1, <3>2, Zenon
    <3>3. CASE twice(r) /\ TopUp(tidy[r].remark)
      BY <3>1, <3>3, Zenon
    <3>4. CASE twice(r) /\ ~TopUp(tidy[r].remark)
      BY <3>1, <3>4, Zenon
    <3>5. QED
      BY <3>2, <3>3, <3>4, Zenon
  <2>2. QED
    BY <2>1, Zenon
<1> HIDE DEF entry, green
<1>7. ASSUME NEW r \in 1..N
      PROVE  /\ IsNoted(dup[r]) /\ dup[r].row = tidy[r] /\ dup[r].note \in {"none", "topup", "duplicate"}
             /\ dup[r].note = "none" => dup[r].marks = green(r)
             /\ dup[r].note # "none" => twice(r) /\ "packet" \in DOMAIN dup[r].marks
             /\ twice(r) => dup[r].note # "none"
  <2> HIDE DEF twice, tidy
  <2>1. CASE ~twice(r) /\ dup[r] = [row |-> tidy[r], marks |-> green(r), note |-> "none"]
    BY <2>1 DEF IsNoted
  <2>2. ASSUME NEW colour, NEW note, twice(r), note \in {"topup", "duplicate"},
               dup[r] = [row |-> tidy[r], marks |-> Paint(green(r), "packet", colour), note |-> note]
        PROVE  /\ IsNoted(dup[r]) /\ dup[r].row = tidy[r] /\ dup[r].note \in {"topup", "duplicate"}
               /\ twice(r) /\ "packet" \in DOMAIN dup[r].marks
    BY <2>2, Painted DEF IsNoted
  <2>3. QED
    BY <1>6, <2>1, <2>2
<1>8. ASSUME NEW r \in 1..N PROVE IsCompared(rows, dup, r)
  <2>1. IsHolder(tidy[r]) /\ tidy[r].packet = Tidied(rows[r].packet)
        /\ tidy[r].name = rows[r].name /\ tidy[r].status = rows[r].status
    <3>1. IsPacketRow(rows[r]) /\ tidy[r] = [rows[r] EXCEPT !.packet = Tidied(@)]
      BY <1>1, <1>4
    <3> HIDE DEF tidy
    <3>2. QED
      BY <3>1, RowIsHolder
  <2>2. dup[r].row = tidy[r] /\ (dup[r].note # "none" => tidy[r].packet # NoNumber)
    BY <1>7, Zenon
  <2> HIDE DEF tidy, twice
  <2>3. QED
    BY <1>5, <1>7, <2>1, <2>2 DEF IsCompared
<1>9. ASSUME NEW q \in 1..N, NEW r \in 1..N, q # r, dup[q].row.packet = dup[r].row.packet,
             dup[r].row.packet # NoNumber
      PROVE  dup[r].note # "none"
  <2>1. dup[q].row = tidy[q] /\ dup[r].row = tidy[r]
    BY <1>7
  <2> HIDE DEF tidy
  <2>2. twice(r)
    BY <1>1, <1>9, <2>1
  <2>3. QED
    BY <1>7, <2>2
<1>10. QED
  BY <1>1, <1>3, <1>8, <1>9

(* Pass 2 on one row.                                                         *)
IsStep(sheet, r, c) ==
  \/ sheet[r].row.packet # NoNumber /\ c = sheet[r]
  \/ /\ sheet[r].row.packet = NoNumber /\ c.row = sheet[r].row /\ c.note # "resolved"
     /\ c.row.status = "closed" \/ "packet" \in DOMAIN c.marks
  \/ /\ sheet[r].row.packet = NoNumber /\ c.note = "resolved" /\ c.marks = sheet[r].marks
     /\ c.row.name = sheet[r].row.name
     /\ \E s \in DOMAIN sheet : Candidates(sheet, r) = {s} /\ c.row.packet = sheet[s].row.packet

LEMMA StepIs ==
  ASSUME NEW N \in Nat, NEW sheet, DOMAIN sheet = 1..N, NEW r \in 1..N,
         IsNoted(sheet[r]), IsHolder(sheet[r].row), NEW after, after = ResolveRow(sheet, r)
  PROVE  /\ DOMAIN after = 1..N /\ \A s \in 1..N : s # r => after[s] = sheet[s]
         /\ IsNoted(after[r]) /\ IsHolder(after[r].row) /\ IsStep(sheet, r, after[r])
<1> DEFINE row == sheet[r].row
           found == Candidates(sheet, r)
           flagged(why) == [sheet EXCEPT ![r].marks = Paint(@, "packet", "orange"), ![r].note = why]
           held(s) == [sheet EXCEPT ![r].row = [row EXCEPT !.packet = sheet[s].row.packet, !.remark = "resolved"],
                                    ![r].note = "resolved"]
           chosen == CHOOSE s \in found : TRUE
<1>1. \/ row.packet # NoNumber /\ after = sheet
      \/ row.packet = NoNumber /\ row.status = "closed" /\ after = [sheet EXCEPT ![r].note = "closed"]
      \/ \E why : row.packet = NoNumber /\ why # "resolved" /\ after = flagged(why)
      \/ row.packet = NoNumber /\ Cardinality(found) = 1 /\ after = held(chosen)
  <2> HIDE DEF flagged, held, row, found
  <2>0. "no name" # "resolved" /\ "no match" # "resolved" /\ "several" # "resolved"
    BY Zenon
  <2>1. after = IF row.packet # NoNumber THEN sheet
                ELSE IF row.status = "closed" THEN [sheet EXCEPT ![r].note = "closed"]
                ELSE IF row.name = "" THEN flagged("no name")
                ELSE IF Cardinality(found) = 1 THEN held(chosen)
                ELSE flagged(IF found = {} THEN "no match" ELSE "several")
    BY Zenon DEF ResolveRow, flagged, held, row, found
  <2>2. CASE row.packet # NoNumber
    BY <2>1, <2>2, Zenon
  <2>3. CASE row.packet = NoNumber /\ row.status = "closed"
    BY <2>1, <2>3, Zenon
  <2>4. CASE row.packet = NoNumber /\ row.status # "closed" /\ row.name = ""
    BY <2>0, <2>1, <2>4, Zenon
  <2>5. CASE row.packet = NoNumber /\ row.status # "closed" /\ row.name # "" /\ Cardinality(found) = 1
    BY <2>1, <2>5, Zenon
  <2>6. CASE row.packet = NoNumber /\ row.status # "closed" /\ row.name # "" /\ Cardinality(found) # 1
    <3>1. CASE found = {}
      BY <2>0, <2>1, <2>6, <3>1, Zenon
    <3>2. CASE found # {}
      BY <2>0, <2>1, <2>6, <3>2, Zenon
    <3>3. QED
      BY <3>1, <3>2, Zenon
  <2>7. QED
    BY <2>2, <2>3, <2>4, <2>5, <2>6, Zenon
<1> HIDE DEF chosen, found
<1>2. CASE row.packet # NoNumber /\ after = sheet
  BY <1>2 DEF IsStep
<1>3. CASE row.packet = NoNumber /\ row.status = "closed" /\ after = [sheet EXCEPT ![r].note = "closed"]
  <2>1. DOMAIN after = 1..N /\ (\A s \in 1..N : s # r => after[s] = sheet[s])
        /\ after[r] = [sheet[r] EXCEPT !.note = "closed"]
    BY <1>3
  <2>2. IsNoted(after[r]) /\ after[r].row = row /\ after[r].note = "closed"
    BY <2>1 DEF IsNoted
  <2>3. IsStep(sheet, r, after[r])
    BY <1>3, <2>2 DEF IsStep
  <2>4. QED
    BY <2>1, <2>2, <2>3
<1>4. ASSUME NEW why, row.packet = NoNumber, why # "resolved", after = flagged(why)
      PROVE  /\ DOMAIN after = 1..N /\ \A s \in 1..N : s # r => after[s] = sheet[s]
             /\ IsNoted(after[r]) /\ IsHolder(after[r].row) /\ IsStep(sheet, r, after[r])
  <2>1. DOMAIN after = 1..N /\ (\A s \in 1..N : s # r => after[s] = sheet[s])
        /\ after[r] = [sheet[r] EXCEPT !.marks = Paint(sheet[r].marks, "packet", "orange"), !.note = why]
    BY <1>4
  <2>2. /\ IsNoted(after[r]) /\ after[r].row = row /\ after[r].note = why
        /\ after[r].marks = Paint(sheet[r].marks, "packet", "orange")
    BY <2>1 DEF IsNoted
  <2>3. IsStep(sheet, r, after[r])
    BY <1>4, <2>2, Painted DEF IsStep
  <2>4. QED
    BY <2>1, <2>2, <2>3
<1>5. CASE row.packet = NoNumber /\ Cardinality(found) = 1 /\ after = held(chosen)
  <2>1. PICK s : found = {s}
    <3>1. found \subseteq 1..N
      BY DEF found, Candidates
    <3>2. IsFiniteSet(found)
      BY <3>1, FirstNumbers, FS_Subset
    <3>3. QED
      BY <1>5, <3>2, FS_Singleton
  <2>2. chosen = s /\ s \in DOMAIN sheet
    BY <2>1 DEF chosen, found, Candidates
  <2> DEFINE new == [row EXCEPT !.packet = sheet[s].row.packet, !.remark = "resolved"]
  <2>3. IsHolder(new) /\ new.packet = sheet[s].row.packet /\ new.name = row.name
    BY DEF IsHolder
  <2>4. DOMAIN after = 1..N /\ (\A q \in 1..N : q # r => after[q] = sheet[q])
        /\ after[r] = [sheet[r] EXCEPT !.row = new, !.note = "resolved"]
    BY <1>5, <2>2
  <2> HIDE DEF new
  <2>5. IsNoted(after[r]) /\ after[r].row = new /\ after[r].note = "resolved" /\ after[r].marks = sheet[r].marks
    BY <2>4 DEF IsNoted
  <2>6. IsStep(sheet, r, after[r])
    BY <1>5, <2>1, <2>2, <2>3, <2>5 DEF IsStep, found
  <2>7. QED
    BY <2>3, <2>4, <2>5, <2>6
<1>6. QED
  BY <1>1, <1>2, <1>3, <1>4, <1>5

(* What the rows are when the first n have been looked at: a row that had a   *)
(* packet is as it was, and one packet of a name goes to one row at most.     *)
IsFirstPass(dup, N) ==
  /\ N \in Nat /\ DOMAIN dup = 1..N
  /\ \A r \in 1..N : IsNoted(dup[r]) /\ IsHolder(dup[r].row) /\ dup[r].note # "resolved"
HasPacket(dup, r) == dup[r].row.packet # NoNumber

Outcome(dup, r, c) ==
  \/ /\ c.row = dup[r].row /\ c.note # "resolved"
     /\ c.row.status = "closed" \/ "packet" \in DOMAIN c.marks
  \/ /\ c.note = "resolved" /\ c.row.packet # NoNumber /\ c.marks = dup[r].marks
     /\ c.row.name = dup[r].row.name
     /\ \E s \in DOMAIN dup : /\ HasPacket(dup, s) /\ c.row.packet = dup[s].row.packet
                              /\ dup[s].row.name = dup[r].row.name
IsSettled(dup, n, r, c) ==
  /\ IsNoted(c) /\ IsHolder(c.row)
  /\ HasPacket(dup, r) \/ n < r => c = dup[r]
  /\ ~HasPacket(dup, r) /\ r <= n => Outcome(dup, r, c)
Settled(dup, n, sheet) ==
  /\ DOMAIN sheet = DOMAIN dup
  /\ \A r \in DOMAIN dup : IsSettled(dup, n, r, sheet[r])
  /\ \A q, r \in DOMAIN dup :
       sheet[q].note = "resolved" /\ sheet[r].note = "resolved" /\ dup[q].row.name = dup[r].row.name => q = r

LEMMA SettledRow ==
  ASSUME NEW dup, NEW N, IsFirstPass(dup, N), NEW n \in 0..N, NEW sheet, Settled(dup, n, sheet), NEW r \in 1..N
  PROVE  /\ sheet[r].row.name = dup[r].row.name
         /\ HasPacket(dup, r) => sheet[r] = dup[r]
         /\ sheet[r].note = "resolved" =>
              /\ ~HasPacket(dup, r) /\ sheet[r].row.packet # NoNumber
              /\ \E s \in 1..N : HasPacket(dup, s) /\ dup[s].row.name = dup[r].row.name
         /\ ~HasPacket(dup, r) /\ sheet[r].row.packet # NoNumber => sheet[r].note = "resolved"
<1>1. IsSettled(dup, n, r, sheet[r]) /\ dup[r].note # "resolved" /\ DOMAIN dup = 1..N /\ N \in Nat
  BY DEF Settled, IsFirstPass
<1> DEFINE c == sheet[r]
<1>2. CASE HasPacket(dup, r) \/ n < r
  <2>1. c = dup[r]
    BY <1>1, <1>2 DEF IsSettled
  <2>2. QED
    BY <1>1, <2>1 DEF HasPacket
<1>3. CASE ~HasPacket(dup, r) /\ ~(n < r)
  <2>1. Outcome(dup, r, c)
    BY <1>1, <1>3 DEF IsSettled
  <2>2. QED
    BY <1>1, <1>3, <2>1 DEF Outcome, HasPacket
<1>4. QED
  BY <1>2, <1>3

LEMMA HolderStays ==
  ASSUME NEW dup, NEW N, IsFirstPass(dup, N), NEW n \in 0..N, NEW sheet, Settled(dup, n, sheet), NEW r \in 1..N,
         NEW s, Candidates(sheet, r) = {s}
  PROVE  /\ s \in 1..N /\ HasPacket(dup, s) /\ dup[s].row.name = dup[r].row.name
         /\ sheet[s].row.packet = dup[s].row.packet
         /\ \A q \in 1..N : sheet[q].note = "resolved" => dup[q].row.name # dup[r].row.name
<1>1. DOMAIN sheet = 1..N
  BY DEF Settled, IsFirstPass
<1>2. \A q \in 1..N : q = s <=> sheet[q].row.packet # NoNumber /\ sheet[q].row.name = sheet[r].row.name
  BY <1>1 DEF Candidates
<1>3. s \in 1..N
  BY <1>1 DEF Candidates
<1>4. \A q \in 1..N : sheet[q].row.name = dup[q].row.name
  BY SettledRow
<1>5. ASSUME NEW q \in 1..N, sheet[q].note = "resolved", dup[q].row.name = dup[r].row.name PROVE FALSE
  <2>1. ~HasPacket(dup, q) /\ sheet[q].row.packet # NoNumber
        /\ \E t \in 1..N : HasPacket(dup, t) /\ dup[t].row.name = dup[q].row.name
    BY <1>5, SettledRow
  <2>2. PICK t \in 1..N : HasPacket(dup, t) /\ dup[t].row.name = dup[q].row.name
    BY <2>1
  <2>3. sheet[t] = dup[t]
    BY <2>2, SettledRow
  <2>4. t = s
    BY <1>2, <1>4, <1>5, <2>2, <2>3 DEF HasPacket
  <2>5. q = s
    BY <1>2, <1>4, <1>5, <2>1
  <2>6. QED
    BY <2>1, <2>2, <2>4, <2>5
<1>6. dup[s].row.name = dup[r].row.name /\ sheet[s].row.packet # NoNumber
  BY <1>2, <1>3, <1>4
<1>7. HasPacket(dup, s)
  BY <1>3, <1>5, <1>6, SettledRow
<1>8. sheet[s] = dup[s]
  BY <1>3, <1>7, SettledRow
<1>9. QED
  BY <1>3, <1>5, <1>6, <1>7, <1>8

LEMMA SettledNext ==
  ASSUME NEW dup, NEW N, IsFirstPass(dup, N), NEW n \in 0..N, n < N, NEW sheet, Settled(dup, n, sheet),
         NEW next, next = ResolveRow(sheet, n + 1)
  PROVE  Settled(dup, n + 1, next)
<1> DEFINE r == n + 1
           c == next[r]
<1>1. N \in Nat /\ DOMAIN dup = 1..N /\ DOMAIN sheet = 1..N /\ r \in 1..N /\ n < r /\ n \in Nat
  BY DEF Settled, IsFirstPass
<1>2. \A q \in 1..N : IsSettled(dup, n, q, sheet[q])
  BY <1>1 DEF Settled
<1>3. sheet[r] = dup[r] /\ IsNoted(sheet[r]) /\ IsHolder(sheet[r].row) /\ dup[r].note # "resolved"
  BY <1>1, <1>2 DEF IsSettled, IsFirstPass
<1>4. /\ DOMAIN next = 1..N /\ \A q \in 1..N : q # r => next[q] = sheet[q]
      /\ IsNoted(c) /\ IsHolder(c.row) /\ IsStep(sheet, r, c)
  <2>1. next = ResolveRow(sheet, r)
    OBVIOUS
  <2> HIDE DEF r
  <2>2. QED
    BY <1>1, <1>3, <2>1, StepIs
<1> HIDE DEF r
<1>5. \/ HasPacket(dup, r) /\ c = dup[r]
      \/ /\ ~HasPacket(dup, r) /\ Outcome(dup, r, c)
         /\ c.note = "resolved" => \A q \in 1..N : sheet[q].note = "resolved" => dup[q].row.name # dup[r].row.name
  <2>1. CASE sheet[r].row.packet # NoNumber /\ c = sheet[r]
    BY <1>3, <2>1 DEF HasPacket
  <2>2. CASE /\ sheet[r].row.packet = NoNumber /\ c.row = sheet[r].row /\ c.note # "resolved"
             /\ c.row.status = "closed" \/ "packet" \in DOMAIN c.marks
    BY <1>3, <2>2 DEF HasPacket, Outcome
  <2>3. CASE /\ sheet[r].row.packet = NoNumber /\ c.note = "resolved" /\ c.marks = sheet[r].marks
             /\ c.row.name = sheet[r].row.name
             /\ \E s \in DOMAIN sheet : Candidates(sheet, r) = {s} /\ c.row.packet = sheet[s].row.packet
    <3>1. PICK s : Candidates(sheet, r) = {s} /\ c.row.packet = sheet[s].row.packet
      BY <2>3
    <3>2. /\ s \in 1..N /\ HasPacket(dup, s) /\ dup[s].row.name = dup[r].row.name
          /\ sheet[s].row.packet = dup[s].row.packet
          /\ \A q \in 1..N : sheet[q].note = "resolved" => dup[q].row.name # dup[r].row.name
      BY <1>1, <3>1, HolderStays
    <3>3. c.row.packet # NoNumber /\ c.row.packet = dup[s].row.packet
      BY <3>1, <3>2 DEF HasPacket
    <3>4. Outcome(dup, r, c)
      BY <1>1, <1>3, <2>3, <3>2, <3>3 DEF Outcome
    <3>5. QED
      BY <1>3, <2>3, <3>2, <3>4 DEF HasPacket
  <2>4. QED
    BY <1>4, <2>1, <2>2, <2>3 DEF IsStep
<1>6. ASSUME NEW q \in 1..N PROVE IsSettled(dup, r, q, next[q])
  <2>1. CASE q = r
    <3>1. ~(r < r) /\ r <= r
      BY <1>1
    <3>2. CASE HasPacket(dup, r) /\ c = dup[r]
      BY <1>4, <2>1, <3>1, <3>2 DEF IsSettled
    <3>3. CASE ~HasPacket(dup, r) /\ Outcome(dup, r, c)
      BY <1>4, <2>1, <3>1, <3>3 DEF IsSettled
    <3>4. QED
      BY <1>5, <3>2, <3>3
  <2>2. CASE q # r
    <3>1. next[q] = sheet[q] /\ IsSettled(dup, n, q, sheet[q])
      BY <1>2, <1>4, <2>2
    <3>2. (r < q => n < q) /\ (q <= r => q <= n)
      BY <1>1, <2>2 DEF r
    <3>3. QED
      BY <3>1, <3>2 DEF IsSettled
  <2>3. QED
    BY <2>1, <2>2
<1>7. ASSUME NEW q \in 1..N, NEW p \in 1..N, next[q].note = "resolved", next[p].note = "resolved",
             dup[q].row.name = dup[p].row.name
      PROVE  q = p
  <2>1. \A x \in 1..N : x # r => next[x] = sheet[x]
    BY <1>4
  <2>2. CASE q # r /\ p # r
    <3>1. sheet[q].note = "resolved" /\ sheet[p].note = "resolved"
      BY <1>7, <2>1, <2>2
    <3>2. QED
      BY <1>1, <1>7, <3>1 DEF Settled
  <2>3. CASE q = r /\ p = r
    BY <2>3
  <2>4. CASE q = r /\ p # r
    <3>1. sheet[p].note = "resolved" /\ c.note = "resolved"
      BY <1>7, <2>1, <2>4
    <3>2. QED
      BY <1>3, <1>5, <1>7, <2>4, <3>1
  <2>5. CASE q # r /\ p = r
    <3>1. sheet[q].note = "resolved" /\ c.note = "resolved"
      BY <1>7, <2>1, <2>5
    <3>2. QED
      BY <1>3, <1>5, <1>7, <2>5, <3>1
  <2>6. QED
    BY <2>2, <2>3, <2>4, <2>5
<1>8. QED
  BY <1>1, <1>4, <1>6, <1>7 DEF Settled, r

LEMMA ResolvedIs ==
  ASSUME NEW dup, NEW N, IsFirstPass(dup, N), Len(dup) = N
  PROVE  Settled(dup, N, ResolvePackets(dup))
<1> DEFINE Upto(n, g) == /\ DOMAIN g = 0..n /\ g[0] = dup
                         /\ \A k \in 1..n : g[k] = ResolveRow(g[k - 1], k)
           T == {n \in 0..N : \E g : Upto(n, g)}
           Equation(g) == g = [n \in 0..N |-> IF n = 0 THEN dup ELSE ResolveRow(g[n - 1], n)]
<1>0. N \in Nat
  BY DEF IsFirstPass
<1>1. 0 \in T
  <2>1. Upto(0, [n \in {0} |-> dup])
    OBVIOUS
  <2>2. 0 \in 0..N
    BY <1>0
  <2> HIDE DEF Upto
  <2>3. QED
    BY <2>1, <2>2
<1>2. ASSUME NEW n \in 0..N, n < N /\ n \in T PROVE n + 1 \in T
  <2>1. PICK g : Upto(n, g)
    BY <1>2
  <2> DEFINE h == [k \in 0..(n + 1) |-> IF k = n + 1 THEN ResolveRow(g[n], n + 1) ELSE g[k]]
  <2>2. h[0] = dup
    BY <2>1
  <2>3. \A k \in 1..(n + 1) : h[k] = ResolveRow(h[k - 1], k)
    <3>1. ASSUME NEW k \in 1..(n + 1) PROVE h[k] = ResolveRow(h[k - 1], k)
      <4>1. CASE k = n + 1
        <5>1. h[k] = ResolveRow(g[n], n + 1) /\ h[k - 1] = g[n] /\ k - 1 = n
          BY <4>1
        <5>2. QED
          BY <4>1, <5>1
      <4>2. CASE k # n + 1
        <5>1. k \in 1..n /\ h[k] = g[k] /\ h[k - 1] = g[k - 1]
          BY <4>2
        <5> HIDE DEF h
        <5>2. QED
          BY <2>1, <5>1
      <4>3. QED
        BY <4>1, <4>2
    <3>2. QED
      BY <3>1
  <2>4. DOMAIN h = 0..(n + 1)
    OBVIOUS
  <2> HIDE DEF h
  <2>5. Upto(n + 1, h)
    BY <2>2, <2>3, <2>4
  <2>6. n + 1 \in 0..N
    BY <1>0, <1>2
  <2>7. QED
    BY <2>5, <2>6
<1> HIDE DEF T
<1>3. N \in T
  <2>1. \A n \in 0..N : n < N /\ n \in T => n + 1 \in T
    BY <1>2
  <2>2. QED
    BY <1>0, <1>1, <2>1, CountingUp
<1>4. PICK g : Upto(N, g)
  BY <1>3 DEF T
<1>5. \A n \in 0..N : g[n] = IF n = 0 THEN dup ELSE ResolveRow(g[n - 1], n)
  BY <1>0, <1>4
<1>6. \E f : Equation(f)
  <2> DEFINE h == [n \in 0..N |-> g[n]]
  <2>1. \A n \in 0..N : h[n] = IF n = 0 THEN dup ELSE ResolveRow(h[n - 1], n)
    <3>1. \A n \in 0..N : h[n] = g[n]
      OBVIOUS
    <3>2. \A n \in 0..N : n # 0 => n - 1 \in 0..N
      BY <1>0
    <3> HIDE DEF h
    <3>3. QED
      BY <1>5, <3>1, <3>2
  <2>2. Equation(h)
    BY <2>1
  <2>3. QED
    BY <2>2
<1> DEFINE upTo == CHOOSE f : Equation(f)
<1>7. Equation(upTo)
  BY <1>6
<1>8. ResolvePackets(dup) = upTo[N]
  BY DEF ResolvePackets
<1> HIDE DEF upTo
<1>9. upTo[0] = dup /\ \A n \in 1..N : upTo[n] = ResolveRow(upTo[n - 1], n)
  BY <1>0, <1>7
<1> DEFINE U == {n \in 0..N : Settled(dup, n, upTo[n])}
<1>10. 0 \in U
  <2>1. ASSUME NEW r \in 1..N PROVE IsSettled(dup, 0, r, dup[r]) /\ dup[r].note # "resolved"
    <3>1. 0 < r /\ ~(r <= 0)
      BY <1>0
    <3>2. QED
      BY <3>1 DEF IsSettled, IsFirstPass
  <2>2. DOMAIN dup = 1..N
    BY DEF IsFirstPass
  <2>3. Settled(dup, 0, dup)
    BY <2>1, <2>2 DEF Settled
  <2>4. QED
    BY <1>0, <1>9, <2>3
<1>11. ASSUME NEW n \in 0..N, n < N /\ n \in U PROVE n + 1 \in U
  <2>1. Settled(dup, n, upTo[n])
    BY <1>11
  <2>2. n + 1 \in 1..N /\ n + 1 - 1 = n /\ n + 1 \in 0..N
    BY <1>0, <1>11
  <2>3. upTo[n + 1] = ResolveRow(upTo[n], n + 1)
    BY <1>9, <2>2
  <2>4. Settled(dup, n + 1, upTo[n + 1])
    BY <1>11, <2>1, <2>3, SettledNext
  <2>5. QED
    BY <2>2, <2>4
<1> HIDE DEF U
<1>12. N \in U
  <2>1. \A n \in 0..N : n < N /\ n \in U => n + 1 \in U
    BY <1>11
  <2>2. QED
    BY <1>0, <1>10, <2>1, CountingUp
<1>13. QED
  BY <1>8, <1>12 DEF U

(* Pass 2b only colours packets that break their series.                      *)
LEMMA CheckedIs ==
  ASSUME NEW sheet, NEW N, DOMAIN sheet = 1..N, \A r \in 1..N : IsNoted(sheet[r]),
         NEW out, out = CheckPackets(sheet)
  PROVE  /\ DOMAIN out = 1..N
         /\ \A r \in 1..N :
              /\ out[r].row = sheet[r].row /\ out[r].note = sheet[r].note
              /\ "packet" \in DOMAIN sheet[r].marks => "packet" \in DOMAIN out[r].marks
              /\ out[r].marks = sheet[r].marks \/ BreaksSeries(sheet, sheet[r].row.packet)
<1> DEFINE breaks(r) == sheet[r].row.packet # NoNumber /\ BreaksSeries(sheet, sheet[r].row.packet)
<1>1. CASE out = sheet
  BY <1>1
<1>2. CASE out = [r \in DOMAIN sheet |->
                    IF breaks(r) THEN [sheet[r] EXCEPT !.marks = Paint(@, "packet", "orange")] ELSE sheet[r]]
  <2>1. DOMAIN out = 1..N
    BY <1>2
  <2>2. ASSUME NEW r \in 1..N
        PROVE  /\ out[r].row = sheet[r].row /\ out[r].note = sheet[r].note
               /\ "packet" \in DOMAIN sheet[r].marks => "packet" \in DOMAIN out[r].marks
               /\ out[r].marks = sheet[r].marks \/ BreaksSeries(sheet, sheet[r].row.packet)
    <3>1. CASE ~breaks(r)
      <4>1. out[r] = sheet[r]
        BY <1>2, <3>1
      <4>2. QED
        BY <4>1
    <3>2. CASE breaks(r)
      <4>1. out[r] = [sheet[r] EXCEPT !.marks = Paint(sheet[r].marks, "packet", "orange")]
        <5> HIDE DEF breaks
        <5>1. QED
          BY <1>2, <3>2
      <4>2. /\ out[r].row = sheet[r].row /\ out[r].note = sheet[r].note
            /\ out[r].marks = Paint(sheet[r].marks, "packet", "orange")
        BY <4>1 DEF IsNoted
      <4>3. QED
        BY <3>2, <4>2, Painted
    <3>3. QED
      BY <3>1, <3>2
  <2>3. QED
    BY <2>1, <2>2
<1>3. QED
  BY <1>1, <1>2, Zenon DEF CheckPackets

(* What a sheet is in the end, by what it was when the duplicates had been    *)
(* looked for.                                                                *)
IsFinal(rows, dup, mid, out) ==
  /\ DOMAIN rows = 1..Len(rows) /\ Len(rows) \in Nat /\ DOMAIN out = 1..Len(rows) /\ DOMAIN mid = 1..Len(rows)
  /\ IsFirstPass(dup, Len(rows)) /\ Settled(dup, Len(rows), mid)
  /\ \A r \in 1..Len(rows) : IsCompared(rows, dup, r)
  /\ \A q, r \in 1..Len(rows) :
       q # r /\ dup[q].row.packet = dup[r].row.packet /\ dup[r].row.packet # NoNumber => dup[r].note # "none"
  /\ \A r \in 1..Len(rows) :
       /\ out[r].row = mid[r].row /\ out[r].note = mid[r].note
       /\ "packet" \in DOMAIN mid[r].marks => "packet" \in DOMAIN out[r].marks
       /\ out[r].marks = mid[r].marks \/ BreaksSeries(mid, mid[r].row.packet)

LEMMA FinalIs ==
  ASSUME NEW rows, IsPacketSheet(rows)
  PROVE  \E dup, mid : IsFinal(rows, dup, mid, Packets(rows))
<1> DEFINE N == Len(rows)
           dup == DuplicatePackets(rows)
           mid == ResolvePackets(dup)
           out == CheckPackets(mid)
<1>0. DOMAIN rows = 1..N
  BY DEF IsPacketSheet, IsSequence
<1>1. /\ DOMAIN dup = 1..N /\ N \in Nat
      /\ \A r \in 1..N : IsCompared(rows, dup, r)
      /\ \A q, r \in 1..N :
           q # r /\ dup[q].row.packet = dup[r].row.packet /\ dup[r].row.packet # NoNumber => dup[r].note # "none"
  BY ComparedIs
<1> HIDE DEF dup
<1>2. IsFirstPass(dup, N)
  BY <1>1 DEF IsFirstPass, IsCompared
<1>3. Len(dup) = N
  <2>1. dup = [r \in 1..N |-> dup[r]]
    <3>1. dup = [r \in DOMAIN rows |-> dup[r]]
      BY Zenon DEF dup, DuplicatePackets
    <3>2. QED
      BY <1>0, <3>1
  <2>2. QED
    BY <1>1, <2>1, AsSequence
<1>4. Settled(dup, N, mid)
  BY <1>2, <1>3, ResolvedIs
<1> HIDE DEF mid
<1>5. DOMAIN mid = 1..N /\ \A r \in 1..N : IsNoted(mid[r])
  BY <1>1, <1>4 DEF Settled, IsSettled
<1>6. /\ DOMAIN out = 1..N
      /\ \A r \in 1..N :
           /\ out[r].row = mid[r].row /\ out[r].note = mid[r].note
           /\ "packet" \in DOMAIN mid[r].marks => "packet" \in DOMAIN out[r].marks
           /\ out[r].marks = mid[r].marks \/ BreaksSeries(mid, mid[r].row.packet)
  BY <1>5, CheckedIs
<1>7. Packets(rows) = out
  BY Zenon DEF Packets, dup, mid
<1> HIDE DEF out
<1>8. IsFinal(rows, dup, mid, out)
  BY <1>0, <1>1, <1>2, <1>4, <1>5, <1>6 DEF IsFinal
<1>9. QED
  BY <1>7, <1>8

LEMMA FinalRow ==
  ASSUME NEW rows, NEW dup, NEW mid, NEW out, IsFinal(rows, dup, mid, out), NEW r \in 1..Len(rows)
  PROVE  /\ IsCompared(rows, dup, r) /\ mid[r].row.name = dup[r].row.name
         /\ out[r].row = mid[r].row /\ out[r].note = mid[r].note
         /\ "packet" \in DOMAIN mid[r].marks => "packet" \in DOMAIN out[r].marks
         /\ out[r].marks = mid[r].marks \/ BreaksSeries(mid, mid[r].row.packet)
         /\ HasPacket(dup, r) => mid[r] = dup[r]
         /\ mid[r].note = "resolved" => ~HasPacket(dup, r)
         /\ ~HasPacket(dup, r) => Outcome(dup, r, mid[r])
<1> DEFINE N == Len(rows)
<1>1. N \in Nat /\ IsFirstPass(dup, N) /\ Settled(dup, N, mid) /\ DOMAIN dup = 1..N
  BY DEF IsFinal, IsFirstPass
<1>2. N \in 0..N
  BY <1>1
<1>3. /\ mid[r].row.name = dup[r].row.name /\ (HasPacket(dup, r) => mid[r] = dup[r])
      /\ mid[r].note = "resolved" => ~HasPacket(dup, r)
  BY <1>1, <1>2, SettledRow
<1>4. r <= N /\ IsSettled(dup, N, r, mid[r])
  BY <1>1 DEF Settled
<1>5. ~HasPacket(dup, r) => Outcome(dup, r, mid[r])
  BY <1>4 DEF IsSettled
<1>6. /\ IsCompared(rows, dup, r) /\ out[r].row = mid[r].row /\ out[r].note = mid[r].note
      /\ "packet" \in DOMAIN mid[r].marks => "packet" \in DOMAIN out[r].marks
      /\ out[r].marks = mid[r].marks \/ BreaksSeries(mid, mid[r].row.packet)
  BY DEF IsFinal
<1>7. QED
  BY <1>3, <1>5, <1>6

LEMMA AccountedFor ==
  ASSUME NEW rows, IsPacketSheet(rows)
  PROVE  PacketsAccounted(rows, Packets(rows))
<1> DEFINE out == Packets(rows)
           N == Len(rows)
<1>1. PICK dup, mid : IsFinal(rows, dup, mid, out)
  BY FinalIs
<1> HIDE DEF out
<1>2. DOMAIN rows = 1..N /\ DOMAIN dup = 1..N
  BY <1>1 DEF IsFinal, IsFirstPass
<1>3. ASSUME NEW q \in 1..N, NEW r \in 1..N, q # r, out[q].row.packet = out[r].row.packet,
             out[q].row.packet # NoNumber, out[q].note # "resolved", out[r].note # "resolved"
      PROVE  out[q].note \in {"duplicate", "topup"} /\ "packet" \in DOMAIN out[q].marks
  <2>1. ASSUME NEW s \in 1..N, out[s].row.packet # NoNumber, out[s].note # "resolved"
        PROVE  HasPacket(dup, s) /\ mid[s] = dup[s] /\ out[s].row = dup[s].row /\ out[s].note = dup[s].note
    <3>1. /\ out[s].row = mid[s].row /\ out[s].note = mid[s].note
          /\ HasPacket(dup, s) => mid[s] = dup[s]
          /\ ~HasPacket(dup, s) => Outcome(dup, s, mid[s])
      BY <1>1, FinalRow
    <3>2. HasPacket(dup, s)
      BY <2>1, <3>1 DEF Outcome, HasPacket
    <3>3. QED
      BY <3>1, <3>2
  <2>2. HasPacket(dup, q) /\ mid[q] = dup[q] /\ out[q].row = dup[q].row /\ out[q].note = dup[q].note
    BY <1>3, <2>1
  <2>3. out[r].row = dup[r].row
    BY <1>3, <2>1
  <2>4. dup[q].note # "none"
    BY <1>1, <1>3, <2>2, <2>3 DEF IsFinal
  <2>5. IsCompared(rows, dup, q) /\ ("packet" \in DOMAIN mid[q].marks => "packet" \in DOMAIN out[q].marks)
    BY <1>1, FinalRow
  <2>6. QED
    BY <2>2, <2>4, <2>5 DEF IsCompared
<1>4. ASSUME NEW r \in 1..N, out[r].note = "resolved"
      PROVE  /\ \E s \in 1..N : Tidied(rows[s].packet) = out[r].row.packet /\ rows[s].name = rows[r].name
             /\ \A s \in 1..N : out[s].note = "resolved" /\ rows[s].name = rows[r].name => s = r
  <2>1. out[r].row = mid[r].row /\ mid[r].note = "resolved" /\ Outcome(dup, r, mid[r])
    BY <1>1, <1>4, FinalRow
  <2>2. PICK s \in 1..N : mid[r].row.packet = dup[s].row.packet /\ dup[s].row.name = dup[r].row.name
    BY <1>2, <2>1 DEF Outcome
  <2>3. \A q \in 1..N : dup[q].row.name = rows[q].name /\ dup[q].row.packet = Tidied(rows[q].packet)
                         /\ out[q].note = mid[q].note
    BY <1>1, FinalRow DEF IsCompared
  <2>4. \A q, p \in 1..N : mid[q].note = "resolved" /\ mid[p].note = "resolved"
                             /\ dup[q].row.name = dup[p].row.name => q = p
    BY <1>1, <1>2 DEF IsFinal, Settled
  <2>5. QED
    BY <2>1, <2>2, <2>3, <2>4
<1>5. ASSUME NEW r \in 1..N, out[r].row.packet = NoNumber
      PROVE  rows[r].status = "closed" \/ "packet" \in DOMAIN out[r].marks
  <2>1. /\ IsCompared(rows, dup, r) /\ out[r].row = mid[r].row
        /\ "packet" \in DOMAIN mid[r].marks => "packet" \in DOMAIN out[r].marks
        /\ HasPacket(dup, r) => mid[r] = dup[r]
        /\ ~HasPacket(dup, r) => Outcome(dup, r, mid[r])
    BY <1>1, FinalRow
  <2>2. Outcome(dup, r, mid[r])
    BY <1>5, <2>1 DEF HasPacket
  <2>3. mid[r].row = dup[r].row /\ (mid[r].row.status = "closed" \/ "packet" \in DOMAIN mid[r].marks)
    BY <1>5, <2>1, <2>2 DEF Outcome
  <2>4. QED
    BY <2>1, <2>3 DEF IsCompared
<1>6. \A q, r \in DOMAIN rows :
        /\ q # r /\ out[q].row.packet = out[r].row.packet /\ out[q].row.packet # NoNumber
        /\ out[q].note # "resolved" /\ out[r].note # "resolved"
        => {q, r} \subseteq {s \in DOMAIN rows : "packet" \in DOMAIN out[s].marks}
           /\ {out[q].note, out[r].note} \subseteq {"duplicate", "topup"}
  BY <1>2, <1>3
<1>7. QED
  BY <1>2, <1>4, <1>5, <1>6, Zenon DEF PacketsAccounted, out

LEMMA SeriesKept ==
  ASSUME NEW rows, IsPacketSheet(rows)
  PROVE  SeriesAreKept(rows, Packets(rows))
<1> DEFINE out == Packets(rows)
           N == Len(rows)
           like(p) == {s \in DOMAIN rows : out[s].row.packet.series = p.series
                                             /\ out[s].row.packet.digits = p.digits}
           same(p) == {s \in DOMAIN rows : out[s].row.packet.series = p.series}
<1>1. PICK dup, mid : IsFinal(rows, dup, mid, out)
  BY FinalIs
<1> HIDE DEF out
<1>2. DOMAIN rows = 1..N /\ DOMAIN mid = 1..N /\ N \in Nat
  BY <1>1 DEF IsFinal
<1>3. \A r \in 1..N : out[r].row = mid[r].row
  BY <1>1, FinalRow
<1>4. NoNumber.digits = 0
  BY Zenon DEF NoNumber
<1>5. ASSUME NEW r \in DOMAIN rows, out[r].row.packet # NoNumber, out[r].row.packet.digits # 0,
             out[r].note \in {"none", "resolved"}, rows[r].packet.tidy,
             \/ Cardinality(like(out[r].row.packet)) >= MIN_PACKET_FAMILY
             \/ Cardinality(same(out[r].row.packet)) < MIN_PACKET_FAMILY
      PROVE  "packet" \notin DOMAIN out[r].marks
  <2> DEFINE p == out[r].row.packet
             K == Established(mid, p.series)
  <2>0. r \in 1..N /\ p = mid[r].row.packet
    BY <1>2, <1>3
  <2>1. DOMAIN mid[r].marks = {}
    <3>1. /\ IsCompared(rows, dup, r) /\ out[r].note = mid[r].note
          /\ HasPacket(dup, r) => mid[r] = dup[r]
          /\ ~HasPacket(dup, r) => Outcome(dup, r, mid[r])
      BY <1>1, <2>0, FinalRow
    <3>2. CASE HasPacket(dup, r)
      <4>1. mid[r] = dup[r] /\ dup[r].note = "none"
        BY <1>5, <3>1, <3>2 DEF IsCompared
      <4>2. mid[r].marks = <<>>
        BY <1>5, <3>1, <4>1 DEF IsCompared
      <4>3. QED
        BY <4>2
    <3>3. CASE ~HasPacket(dup, r)
      <4>1. mid[r].marks = dup[r].marks
        BY <1>5, <2>0, <3>1, <3>3 DEF Outcome, HasPacket
      <4>2. dup[r].note = "none"
        BY <3>1, <3>3 DEF IsCompared, HasPacket
      <4>3. mid[r].marks = <<>>
        BY <1>5, <3>1, <4>1, <4>2 DEF IsCompared
      <4>4. QED
        BY <4>3
    <3>4. QED
      BY <3>2, <3>3
  <2>2. \A s \in 1..N : s \in WithPacket(mid) <=> out[s].row.packet # NoNumber
    BY <1>2, <1>3 DEF WithPacket
  <2>3. \A s \in 1..N : s \in OfSeries(mid, p.series) <=> s \in WithPacket(mid) /\ out[s].row.packet.series = p.series
    BY <1>2, <1>3 DEF OfSeries, WithPacket
  <2>4. r \in OfSeries(mid, p.series)
    BY <1>5, <2>0, <2>2, <2>3
  <2> HIDE DEF p
  <2>5. ~BreaksSeries(mid, p)
    <3>1. CASE Cardinality(like(p)) >= MIN_PACKET_FAMILY
      <4>1. Family(mid, p) \subseteq 1..N /\ like(p) \subseteq 1..N
        BY <1>2 DEF Family, OfSeries, WithPacket
      <4>2. \A s \in 1..N : s \in like(p) <=> s \in Family(mid, p)
        <5>1. ASSUME NEW s \in 1..N
              PROVE  s \in like(p) <=> s \in Family(mid, p)
          <6>1. s \in Family(mid, p) <=> s \in OfSeries(mid, p.series) /\ out[s].row.packet.digits = p.digits
            BY <1>3 DEF Family
          <6>2. out[s].row.packet.digits = p.digits => out[s].row.packet # NoNumber
            BY <1>4, <1>5 DEF p
          <6>3. QED
            BY <1>2, <2>2, <2>3, <6>1, <6>2
        <5>2. QED
          BY <5>1
      <4>3. Family(mid, p) = like(p)
        <5> HIDE DEF like
        <5>1. QED
          BY <4>1, <4>2, Zenon
      <4>4. p.digits \in K
        <5>1. mid[r].row.packet = p
          BY <2>0
        <5>2. r \in {q \in OfSeries(mid, p.series) : Cardinality(Family(mid, mid[q].row.packet)) >= MIN_PACKET_FAMILY}
          BY <2>4, <3>1, <4>3, <5>1, Zenon
        <5>3. QED
          BY <5>1, <5>2, Zenon DEF Established
      <4> HIDE DEF K
      <4>5. p.digits \in K \ {0}
        BY <1>5, <4>4 DEF p
      <4>6. QED
        BY <1>5, <4>5, Zenon DEF BreaksSeries, p, K
    <3>2. CASE Cardinality(same(p)) < MIN_PACKET_FAMILY
      <4>1. ASSUME NEW x \in K PROVE FALSE
        <5>1. PICK q \in OfSeries(mid, p.series) : Cardinality(Family(mid, mid[q].row.packet)) >= MIN_PACKET_FAMILY
          BY <4>1, Zenon DEF Established
        <5> DEFINE F == Family(mid, mid[q].row.packet)
                   S == same(p)
        <5>2. mid[q].row.packet.series = p.series
          BY <5>1 DEF OfSeries
        <5>3. F \subseteq S /\ S \subseteq 1..N
          <6>1. \A s \in F : s \in OfSeries(mid, p.series)
            BY <5>2 DEF Family
          <6>2. \A s \in OfSeries(mid, p.series) : s \in 1..N
            BY <1>2 DEF OfSeries, WithPacket
          <6>3. \A s \in F : s \in 1..N /\ out[s].row.packet.series = p.series
            <7> HIDE DEF F
            <7>1. QED
              BY <2>3, <6>1, <6>2
          <6>4. QED
            BY <1>2, <6>3
        <5> HIDE DEF F, S
        <5>4. IsFiniteSet(S) /\ IsFiniteSet(F)
          BY <1>2, <5>3, FirstNumbers, FS_Subset
        <5>5. Cardinality(F) <= Cardinality(S) /\ Cardinality(F) \in Nat /\ Cardinality(S) \in Nat
          BY <5>3, <5>4, FS_Subset, FS_CardinalityType
        <5>6. Cardinality(F) >= MIN_PACKET_FAMILY /\ Cardinality(S) < MIN_PACKET_FAMILY
          BY <3>2, <5>1 DEF F, S
        <5>7. QED
          BY <5>5, <5>6 DEF MIN_PACKET_FAMILY
      <4> HIDE DEF K
      <4>2. K \ {0} = {}
        BY <4>1
      <4>3. QED
        BY <1>5, <4>2, Zenon DEF BreaksSeries, p, K
    <3>3. QED
      BY <1>5, <3>1, <3>2 DEF p
  <2>6. out[r].marks = mid[r].marks \/ BreaksSeries(mid, mid[r].row.packet)
    BY <1>1, <2>0, FinalRow
  <2>7. QED
    BY <2>0, <2>1, <2>5, <2>6
<1> HIDE DEF like, same
<1>6. \A r \in DOMAIN rows :
        /\ out[r].row.packet # NoNumber /\ out[r].row.packet.digits # 0
        /\ out[r].note \in {"none", "resolved"} /\ rows[r].packet.tidy
        /\ (Cardinality(like(out[r].row.packet)) >= MIN_PACKET_FAMILY
             \/ Cardinality(same(out[r].row.packet)) < MIN_PACKET_FAMILY)
        => "packet" \notin DOMAIN out[r].marks
  BY <1>5, Zenon
<1>7. QED
  BY <1>6, Zenon DEF SeriesAreKept, like, same, out

-----------------------------------------------------------------------------
(* A score is a number, since features are finite.                            *)
LEMMA ScoresAre ==
  ASSUME NEW sheet
  PROVE  PtScore(sheet) \in Nat /\ MdScore(sheet) \in Nat
<1>1. IsFiniteSet(PtFeatures) /\ IsFiniteSet(MdFeatures)
  <2>1. \A S, x : IsFiniteSet(S) => IsFiniteSet(S \cup {x})
    BY FS_AddElement
  <2>2. \A a, b, c, d, e : IsFiniteSet({a, b, c, d, e})
    <3> TAKE a, b, c, d, e
    <3>1. IsFiniteSet({} \cup {a} \cup {b} \cup {c} \cup {d} \cup {e})
      BY <2>1, FS_EmptySet, Zenon
    <3>2. {a, b, c, d, e} = {} \cup {a} \cup {b} \cup {c} \cup {d} \cup {e}
      OBVIOUS
    <3>3. QED
      BY <3>1, <3>2
  <2>4. \A S, a, b, c, d, e, f, g, h : S = {a, b, c, d, e, f, g, h} => IsFiniteSet(S)
    <3> TAKE S, a, b, c, d, e, f, g, h
    <3>1. {a, b, c, d, e, f, g, h} = {a, b, c, d, e} \cup {f, g, h, h, h}
      OBVIOUS
    <3>2. IsFiniteSet({a, b, c, d, e}) /\ IsFiniteSet({f, g, h, h, h})
      BY <2>2
    <3>3. IsFiniteSet({a, b, c, d, e} \cup {f, g, h, h, h})
      BY <3>2, FS_Union, Zenon
    <3>4. QED
      BY <3>1, <3>3
  <2>5. \A S, a, b, c, d, e, f, g, h, i, j : S = {a, b, c, d, e, f, g, h, i, j} => IsFiniteSet(S)
    <3> TAKE S, a, b, c, d, e, f, g, h, i, j
    <3>1. {a, b, c, d, e, f, g, h, i, j} = {a, b, c, d, e} \cup {f, g, h, i, j}
      OBVIOUS
    <3>2. IsFiniteSet({a, b, c, d, e}) /\ IsFiniteSet({f, g, h, i, j})
      BY <2>2
    <3>3. IsFiniteSet({a, b, c, d, e} \cup {f, g, h, i, j})
      BY <3>2, FS_Union, Zenon
    <3>4. QED
      BY <3>1, <3>3
  <2>6. IsFiniteSet(PtFeatures)
    BY <2>4, Zenon DEF PtFeatures
  <2>7. IsFiniteSet(MdFeatures)
    BY <2>5, Zenon DEF MdFeatures
  <2>8. QED
    BY <2>6, <2>7
<1>2. Points(sheet, PtFeatures) \in Nat /\ Points(sheet, MdFeatures) \in Nat
  <2>1. {f \in PtFeatures : Has(sheet, f)} \subseteq PtFeatures /\ {f \in MdFeatures : Has(sheet, f)} \subseteq MdFeatures
    OBVIOUS
  <2> QED
    BY <1>1, <2>1, FS_Subset, FS_CardinalityType DEF Points
<1>3. QED
  BY <1>2 DEF PtScore, MdScore

(* The sheets that clearly are a role are read in it.                         *)
LEMMA SheetsAreRead ==
  ASSUME NEW book, IsSequence(book)
  PROVE  ClearSheetsAreRead(book, IdentifySheets(book))
<1> DEFINE pt == Take(book, "payments")
           md == Take(book, "master")
           out == IdentifySheets(book)
           N == Len(book)
<1>1. DOMAIN book = 1..N /\ N \in Nat
  BY DEF IsSequence
<1>2. ASSUME NEW role
      PROVE  /\ \/ Take(book, role) = 0
                \/ Take(book, role) \in DOMAIN book /\ Suits(role, book[Take(book, role)])
             /\ ClearSheets(book, role) # {} => Take(book, role) \in ClearSheets(book, role)
  <2> DEFINE all == {i \in DOMAIN book : Suits(role, book[i])}
             clear == {i \in all : Score(role, book[i]) > Weak(role)}
  <2>1. Take(book, role) = IF clear # {} THEN Max(clear) ELSE IF all # {} THEN Min(all) ELSE 0
    BY DEF Take
  <2>2. clear = ClearSheets(book, role)
    BY DEF ClearSheets
  <2>3. all \subseteq 1..N /\ clear \subseteq all
    BY <1>1
  <2>4. clear # {} => Max(clear) \in clear
    <3> HIDE DEF clear, all
    <3>1. clear \subseteq 0..N
      BY <2>3
    <3>2. QED
      BY <1>1, <3>1, MaxIs
  <2>5. all # {} => Min(all) \in all
    <3> HIDE DEF all
    <3>1. all \subseteq Nat
      BY <2>3
    <3>2. QED
      BY <3>1, MinIs
  <2>6. \A i \in all : i \in DOMAIN book /\ Suits(role, book[i])
    OBVIOUS
  <2> HIDE DEF all, clear
  <2>7. CASE clear # {}
    <3>1. Take(book, role) = Max(clear)
      BY <2>1, <2>7
    <3>2. QED
      BY <2>2, <2>3, <2>4, <2>6, <2>7, <3>1, Zenon
  <2>8. CASE clear = {}
    BY <2>1, <2>2, <2>5, <2>6, <2>8
  <2>9. QED
    BY <2>7, <2>8
<1>3. out.pt = (IF pt = 0 /\ md = 0 /\ N = 1 THEN 1 ELSE pt) /\ out.md = md
  BY DEF IdentifySheets
<1>4. pt # 0 => pt # md
  <2> SUFFICES ASSUME pt # 0, pt = md PROVE FALSE
    OBVIOUS
  <2>1. Suits("payments", book[pt]) /\ Suits("master", book[pt])
    BY <1>2
  <2>2. PtScore(book[pt]) >= MdScore(book[pt]) /\ MdScore(book[pt]) > PtScore(book[pt])
    BY <2>1 DEF Suits
  <2>3. QED
    BY <2>2, ScoresAre
<1> HIDE DEF out, pt, md
<1>5. \A role : Cardinality(ClearSheets(book, role)) = 1 => ClearSheets(book, role) # {}
  BY FS_EmptySet
<1>6. \A i \in DOMAIN book : i # 0
  BY <1>1
<1>7. ClearSheets(book, "payments") # {} => out.pt \in ClearSheets(book, "payments")
  BY <1>2, <1>3, <1>6 DEF pt, ClearSheets
<1>8. ClearSheets(book, "master") # {} => out.md \in ClearSheets(book, "master")
  BY <1>2, <1>3 DEF md
<1>9. out.pt # 0 => out.pt # out.md
  BY <1>3, <1>4
<1>10. QED
  BY <1>5, <1>7, <1>8, <1>9 DEF ClearSheetsAreRead, out

-----------------------------------------------------------------------------
(* Columns found by their names.                                              *)
LEMMA FitsExactly ==
  ASSUME NEW name, NEW heading
  PROVE  Fits(1, name, heading) <=> name = heading
BY DEF Fits

(* A heading that is a name, and no earlier name is a heading: that column.   *)
LEMMA FoundByName ==
  ASSUME NEW names, IsSequence(names), NEW headings, IsSequence(headings),
         \A c, d \in DOMAIN headings : headings[c] = headings[d] => c = d,
         NEW n \in DOMAIN names, NEW c \in DOMAIN headings, headings[c] = names[n],
         \A m \in DOMAIN names, d \in DOMAIN headings : m < n => headings[d] # names[m]
  PROVE  FindColumn(names, headings) = c
<1> DEFINE hits == {p \in (1..4) \X (DOMAIN names) \X (DOMAIN headings) :
                      Fits(p[1], names[p[2]], headings[p[3]])}
           before(p, q) == \/ p[1] < q[1]
                           \/ p[1] = q[1] /\ (p[2] < q[2] \/ (p[2] = q[2] /\ p[3] <= q[3]))
           first == <<1, n, c>>
<1>1. DOMAIN names = 1..Len(names) /\ Len(names) \in Nat /\ DOMAIN headings = 1..Len(headings) /\ Len(headings) \in Nat
  BY DEF IsSequence
<1>2. first \in hits
  <2>1. Fits(1, names[n], headings[c])
    BY FitsExactly
  <2>2. first[1] = 1 /\ first[2] = n /\ first[3] = c /\ first \in (1..4) \X (DOMAIN names) \X (DOMAIN headings)
    OBVIOUS
  <2> HIDE DEF first
  <2>3. QED
    BY <2>1, <2>2
<1>3. \A p \in hits : p[1] \in 1..4 /\ p[2] \in DOMAIN names /\ p[3] \in DOMAIN headings
                      /\ (p[1] = 1 => names[p[2]] = headings[p[3]])
  BY FitsExactly
<1>4. \A p \in hits : before(first, p)
  <2> TAKE p \in hits
  <2>1. CASE p[1] = 1
    <3>1. ~(p[2] < n)
      BY <1>3, <2>1
    <3>2. p[2] = n => p[3] = c
      BY <1>3, <2>1
    <3>3. QED
      BY <1>1, <1>3, <2>1, <3>1, <3>2
  <2>2. CASE p[1] # 1
    BY <1>3, <2>2
  <2>3. QED
    BY <2>1, <2>2
<1>5. \A p \in hits : before(p, first) => p[3] = c
  <2> SUFFICES ASSUME NEW p \in hits, before(p, first) PROVE p[3] = c
    OBVIOUS
  <2>1. p[1] = 1
    BY <1>3
  <2>2. ~(p[2] < n)
    BY <1>3, <2>1
  <2>3. p[2] = n
    BY <1>1, <1>3, <2>1, <2>2
  <2>4. QED
    BY <1>3, <2>1, <2>3
<1>6. FindColumn(names, headings) = (CHOOSE p \in hits : \A q \in hits : before(p, q))[3]
  BY <1>2 DEF FindColumn
<1> HIDE DEF hits, before
<1>7. \E p \in hits : \A q \in hits : before(p, q)
  BY <1>2, <1>4
<1> DEFINE found == CHOOSE p \in hits : \A q \in hits : before(p, q)
<1>8. found \in hits /\ \A q \in hits : before(found, q)
  BY <1>7
<1> HIDE DEF found, first
<1>9. before(found, first)
  BY <1>2, <1>8
<1>10. QED
  BY <1>5, <1>6, <1>8, <1>9 DEF found

(* Where no name fits a heading in any way, no column is found.               *)
LEMMA NotFound ==
  ASSUME NEW names, NEW headings,
         \A n \in DOMAIN names, c \in DOMAIN headings, strategy \in 1..4 : ~Fits(strategy, names[n], headings[c])
  PROVE  FindColumn(names, headings) = 0
<1> DEFINE hits == {p \in (1..4) \X (DOMAIN names) \X (DOMAIN headings) :
                      Fits(p[1], names[p[2]], headings[p[3]])}
<1>1. hits = {}
  OBVIOUS
<1>2. QED
  BY <1>1 DEF FindColumn

(* A name of three words and more, two of which look like no word the other   *)
(* does, is not taken for a heading that has no two words like any of its.    *)
Looks(v, w) == w = v \/ {v, w} \in Alike
LEMMA NoFit ==
  ASSUME NEW name, IsSequence(name), NEW heading, IsSequence(heading), NEW words,
         Len(name) >= 3, \A i, j \in 1..Len(name) : name[i] = name[j] => i = j,
         \A i \in 1..Len(name) : \A w : Looks(name[i], w) => w \in words,
         \A i \in 1..Len(name) : \A w : Looks(name[i], w) => \E j \in 1..Len(name) : ~Looks(name[j], w),
         \A x, y \in words \cap Range(heading) : x = y,
         NEW strategy \in 1..4
  PROVE  ~Fits(strategy, name, heading)
<1>1. DOMAIN name = 1..Len(name) /\ Len(name) \in Nat /\ DOMAIN heading = 1..Len(heading) /\ Len(heading) \in Nat
  BY DEF IsSequence
<1>2. \A i \in 1..Len(name) : name[i] \in words /\ Looks(name[i], name[i])
  BY DEF Looks
<1>3. 1 \in 1..Len(name) /\ 2 \in 1..Len(name) /\ 3 \in 1..Len(name)
  BY <1>1
<1>4. \A i \in DOMAIN heading : heading[i] \in Range(heading)
  BY DEF Range
<1>5. name # heading
  <2> SUFFICES ASSUME name = heading PROVE FALSE
    OBVIOUS
  <2>1. name[1] \in words \cap Range(heading) /\ name[2] \in words \cap Range(heading)
    BY <1>1, <1>2, <1>3, <1>4
  <2>2. QED
    BY <1>3, <2>1
<1>6. ~Within(name, heading)
  <2> SUFFICES ASSUME NEW i \in 1..(Len(heading) - Len(name) + 1),
                      SubSeq(heading, i, i + Len(name) - 1) = name
               PROVE  FALSE
    BY DEF Within
  <2> DEFINE m == i + Len(name) - 1
  <2>1. i \in 1..Len(heading) /\ m \in i..Len(heading)
    BY <1>1
  <2>2. heading \in Seq(Range(heading))
    BY IsSeqOf
  <2>3. SubSeq(heading, i, m) = [k \in 1..(1 + m - i) |-> heading[k + i - 1]]
    BY <2>1, <2>2
  <2>4. name = [k \in 1..Len(name) |-> heading[k + i - 1]]
    BY <1>1, <2>1, <2>3
  <2>5. name[1] = heading[i] /\ name[2] = heading[i + 1] /\ i + 1 \in 1..Len(heading)
    <3>1. \A k \in 1..Len(name) : name[k] = heading[k + i - 1]
      BY <2>4
    <3>2. name[1] = heading[1 + i - 1] /\ name[2] = heading[2 + i - 1]
      BY <1>3, <3>1
    <3>3. 1 + i - 1 = i /\ 2 + i - 1 = i + 1 /\ i + 1 \in 1..Len(heading)
      BY <1>1
    <3>4. QED
      BY <3>2, <3>3
  <2>6. name[1] \in words \cap Range(heading) /\ name[2] \in words \cap Range(heading)
    BY <1>1, <1>2, <1>3, <1>4, <2>1, <2>5
  <2>7. QED
    BY <1>3, <2>6
<1>7. ~Overlaps(name, heading)
  <2> DEFINE ct == Range(name)
             overlap == ct \cap Range(heading)
             three == {name[1], name[2], name[3]}
  <2>1. IsFiniteSet(ct) /\ Cardinality(ct) \in Nat /\ Cardinality(ct) >= 3
    <3>1. name \in Bijection(1..Len(name), ct)
      BY <1>1 DEF Bijection, Injection, IsInjective, Surjection, Range, IsSequence
    <3>2. IsFiniteSet(1..Len(name)) /\ Cardinality(1..Len(name)) = Len(name)
      BY <1>1, FirstNumbers
    <3> DEFINE V == 1..Len(name)
    <3>3. ExistsBijection(V, ct)
      BY <3>1 DEF ExistsBijection
    <3> HIDE DEF V, ct
    <3>4. IsFiniteSet(ct) /\ Cardinality(ct) = Cardinality(V)
      BY <3>2, <3>3, FS_Bijection DEF V
    <3>5. QED
      BY <1>1, <3>2, <3>4 DEF V
  <2>2. \A x, y \in overlap : x = y
    <3>1. \A x \in overlap : x \in words \cap Range(heading)
      BY <1>1, <1>2 DEF Range
    <3> HIDE DEF overlap
    <3>2. QED
      BY <3>1
  <2>3. Cardinality(overlap) = 0 \/ Cardinality(overlap) = 1
    <3> HIDE DEF overlap
    <3>1. CASE overlap = {}
      BY <3>1, FS_EmptySet
    <3>2. ASSUME NEW x \in overlap PROVE Cardinality(overlap) = 1
      <4>1. overlap = {x}
        BY <2>2, <3>2
      <4>2. QED
        BY <4>1, FS_Singleton
    <3>3. QED
      BY <3>1, <3>2
  <2> HIDE DEF ct, overlap
  <2>4. ~(2 * Cardinality(overlap) >= Cardinality(ct)) /\ Cardinality(ct) >= 2
    BY <2>1, <2>3
  <2>5. QED
    BY <2>4 DEF Overlaps, ct, overlap
<1>8. ~Similar(name, heading)
  <2> SUFFICES ASSUME Len(name) = Len(heading), \A i \in DOMAIN name : Looks(name[i], heading[i]) PROVE FALSE
    BY DEF Similar, Looks
  <2>1. \A i \in 1..Len(name) : heading[i] \in words \cap Range(heading)
    BY <1>1, <1>4
  <2>2. PICK j \in 1..Len(name) : ~Looks(name[j], heading[1])
    BY <1>1, <1>3
  <2>3. heading[j] = heading[1]
    BY <1>3, <2>1
  <2>4. QED
    BY <1>1, <2>2, <2>3
<1>9. strategy = 1 \/ strategy = 2 \/ strategy = 3 \/ strategy = 4
  OBVIOUS
<1>10. QED
  BY <1>5, <1>6, <1>7, <1>8, <1>9 DEF Fits

-----------------------------------------------------------------------------
(* The headings of a sheet are sequences of words, each there once.           *)
LEMMA HeadingsAre ==
  ASSUME NEW sheet, IsSheet(sheet)
  PROVE  /\ IsSequence(sheet.headings) /\ DOMAIN sheet.headings = 1..Len(sheet.headings) /\ Len(sheet.headings) \in Nat
         /\ \A c, d \in DOMAIN sheet.headings : sheet.headings[c] = sheet.headings[d] => c = d
         /\ 0 \notin DOMAIN sheet.headings
         /\ \A c \in DOMAIN sheet.headings : IsSequence(sheet.headings[c])
<1>1. /\ IsSequence(sheet.headings) /\ \A c, d \in DOMAIN sheet.headings : sheet.headings[c] = sheet.headings[d] => c = d
      /\ \A c \in DOMAIN sheet.headings : IsSequence(sheet.headings[c])
  BY DEF IsSheet
<1>2. DOMAIN sheet.headings = 1..Len(sheet.headings) /\ Len(sheet.headings) \in Nat
  BY <1>1 DEF IsSequence
<1>3. QED
  BY <1>1, <1>2

(* The column of an amount is that of its usual name, where there is one.     *)
LEMMA ColumnNamed ==
  ASSUME NEW sheet, IsSheet(sheet), NEW known, NEW role, IsSequence(PtNames[role]), Len(PtNames[role]) >= 1,
         HasAmount(sheet, known, role, PtNames[role][1])
  PROVE  /\ PtColumn(sheet, role, known) \in DOMAIN sheet.headings
         /\ sheet.headings[PtColumn(sheet, role, known)] = PtNames[role][1]
<1> DEFINE names == PtNames[role]
<1>1. WithHint(PtNames[role], known[role].source) = names
  BY DEF HasAmount, Remembered, WithHint
<1>2. IsSequence(names) /\ Len(names) >= 1 /\ names[1] = PtNames[role][1]
  OBVIOUS
<1>3. PICK c \in DOMAIN sheet.headings : sheet.headings[c] = PtNames[role][1]
  BY DEF HasAmount, Named
<1> HIDE DEF names
<1>4. 1 \in DOMAIN names /\ \A m \in DOMAIN names : ~(m < 1)
  BY <1>2 DEF IsSequence
<1>5. FindColumn(names, sheet.headings) = c
  BY <1>2, <1>3, <1>4, HeadingsAre, FoundByName
<1>6. PtColumn(sheet, role, known) = c
  BY <1>1, <1>5, HeadingsAre DEF PtColumn
<1>7. QED
  BY <1>3, <1>6

(* Nor has an amount a column where nothing fits its names.                   *)
LEMMA NoColumn ==
  ASSUME NEW sheet, IsSheet(sheet), NEW known, NEW role, role \notin Intents, known[role] = NothingKnown,
         IsSequence(PtNames[role]),
         \A n \in DOMAIN PtNames[role], c \in DOMAIN sheet.headings, strategy \in 1..4 :
           ~Fits(strategy, PtNames[role][n], sheet.headings[c])
  PROVE  PtColumn(sheet, role, known) = 0
<1>1. known[role].source = <<>> /\ known[role].position = 0
  BY DEF NothingKnown
<1>2. WithHint(PtNames[role], known[role].source) = PtNames[role]
  BY <1>1 DEF WithHint
<1>3. FindColumn(PtNames[role], sheet.headings) = 0
  BY NotFound
<1>4. FindColumn(WithHint(PtNames[role], known[role].source), sheet.headings) = 0
  BY <1>2, <1>3
<1>5. known[role].position \notin DOMAIN sheet.headings
  BY <1>1, HeadingsAre
<1>6. QED
  BY <1>4, <1>5, Zenon DEF PtColumn

-----------------------------------------------------------------------------
(* Words with nothing that looks like them.                                   *)
LEMMA Unlike ==
  ASSUME NEW v, NEW w, Looks(v, w),
         v \notin {"visit", "visits", "fee", "fees", "deduction", "deduciton", "asayer", "assayer"}
  PROVE  w = v
<1>1. \A S \in Alike : v \notin S
  BY DEF Alike
<1>2. v \in {v, w}
  OBVIOUS
<1>3. QED
  BY <1>1, <1>2 DEF Looks

(* Words with one that looks like them.                                       *)
LEMMA Lookalikes ==
  ASSUME NEW w
  PROVE  /\ Looks("fee", w) => w \in {"fee", "fees"}
         /\ Looks("fees", w) => w \in {"fee", "fees"}
         /\ Looks("assayer", w) => w \in {"assayer", "asayer"}
<1>1. \A S \in Alike : "fee" \in S \/ "fees" \in S => S = {"fee", "fees"}
  BY DEF Alike
<1>2. \A S \in Alike : "assayer" \in S => S = {"asayer", "assayer"}
  BY DEF Alike
<1>3. \A v : v \in {v, w} /\ w \in {v, w}
  OBVIOUS
<1>4. QED
  BY <1>1, <1>2, <1>3 DEF Looks

(* Charges a sheet has no column for are read from none.                      *)
LEMMA CancelColumns ==
  ASSUME NEW sheet, IsSheet(sheet), NEW known
  PROVE  /\ LacksAmount(sheet, known, "branchCancel", {"branch", "cancellation", "charges"})
              => PtColumn(sheet, "branchCancel", known) = 0 /\ ~Named(sheet, <<"branch", "cancellation", "charges">>)
         /\ LacksAmount(sheet, known, "andaman", {"andaman", "nicobar", "branch", "expenses"})
              => PtColumn(sheet, "andaman", known) = 0
                 /\ ~Named(sheet, <<"andaman", "nicobar", "branch", "expenses">>)
<1>1. ASSUME NEW role, NEW words, NEW name, role \notin Intents, PtNames[role] = <<name>>, IsSequence(name),
             Len(name) >= 3, \A i, j \in 1..Len(name) : name[i] = name[j] => i = j,
             \A i \in 1..Len(name) :
               /\ name[i] \in words
               /\ name[i] \notin {"visit", "visits", "fee", "fees", "deduction", "deduciton", "asayer", "assayer"},
             LacksAmount(sheet, known, role, words)
      PROVE  PtColumn(sheet, role, known) = 0 /\ ~Named(sheet, name)
  <2>1. known[role] = NothingKnown
        /\ \A c \in DOMAIN sheet.headings : \A x, y \in words \cap Range(sheet.headings[c]) : x = y
    BY <1>1 DEF LacksAmount, SharesTwo
  <2>2. Len(name) \in Nat /\ DOMAIN name = 1..Len(name) /\ 1 \in 1..Len(name) /\ 2 \in 1..Len(name)
    BY <1>1 DEF IsSequence
  <2>3. \A i \in 1..Len(name) : \A w : Looks(name[i], w) => w = name[i]
    BY <1>1, Unlike
  <2>4. \A i \in 1..Len(name) : \A w : Looks(name[i], w) => \E j \in 1..Len(name) : ~Looks(name[j], w)
    BY <1>1, <2>2, <2>3
  <2>5. \A c \in DOMAIN sheet.headings, strategy \in 1..4 : ~Fits(strategy, name, sheet.headings[c])
    <3> TAKE c \in DOMAIN sheet.headings, strategy \in 1..4
    <3>1. IsSequence(sheet.headings[c])
      BY HeadingsAre
    <3>2. \A i \in 1..Len(name) : \A w : Looks(name[i], w) => w \in words
      BY <1>1, <2>3
    <3>3. QED
      BY <1>1, <2>1, <2>4, <3>1, <3>2, NoFit
  <2>6. IsSequence(<<name>>) /\ DOMAIN <<name>> = {1} /\ <<name>>[1] = name
    BY DEF IsSequence
  <2>7. \A n \in DOMAIN PtNames[role], c \in DOMAIN sheet.headings, strategy \in 1..4 :
          ~Fits(strategy, PtNames[role][n], sheet.headings[c])
    BY <1>1, <2>5, <2>6
  <2>8. PtColumn(sheet, role, known) = 0
    BY <1>1, <2>1, <2>6, <2>7, NoColumn
  <2>9. ~Named(sheet, name)
    <3>1. 1 \in 1..4
      OBVIOUS
    <3>2. QED
      BY <2>5, <3>1, FitsExactly DEF Named
  <2>10. QED
    BY <2>8, <2>9
<1>2. "branchCancel" \notin Intents /\ "andaman" \notin Intents
  BY DEF Intents
<1>3. LacksAmount(sheet, known, "branchCancel", {"branch", "cancellation", "charges"})
        => PtColumn(sheet, "branchCancel", known) = 0 /\ ~Named(sheet, <<"branch", "cancellation", "charges">>)
  <2> DEFINE name == <<"branch", "cancellation", "charges">>
             words == {"branch", "cancellation", "charges"}
  <2>1. PtNames["branchCancel"] = <<name>>
    BY DEF PtNames
  <2>2. IsSequence(name) /\ Len(name) = 3
    BY DEF IsSequence
  <2>3. \A i \in 1..3 : i = 1 \/ i = 2 \/ i = 3
    OBVIOUS
  <2>4. \A i, j \in 1..3 : name[i] = name[j] => i = j
    BY <2>3
  <2>5. \A i \in 1..3 : /\ name[i] \in words
                        /\ name[i] \notin {"visit", "visits", "fee", "fees", "deduction", "deduciton", "asayer", "assayer"}
    BY <2>3
  <2> HIDE DEF name, words
  <2>6. /\ Len(name) >= 3
        /\ \A i, j \in 1..Len(name) : name[i] = name[j] => i = j
        /\ \A i \in 1..Len(name) :
             /\ name[i] \in words
             /\ name[i] \notin {"visit", "visits", "fee", "fees", "deduction", "deduciton", "asayer", "assayer"}
    BY <2>2, <2>4, <2>5
  <2>7. LacksAmount(sheet, known, "branchCancel", words)
          => PtColumn(sheet, "branchCancel", known) = 0 /\ ~Named(sheet, name)
    BY <1>1, <1>2, <2>1, <2>2, <2>6
  <2>8. QED
    BY <2>7 DEF name, words
<1>4. LacksAmount(sheet, known, "andaman", {"andaman", "nicobar", "branch", "expenses"})
        => PtColumn(sheet, "andaman", known) = 0
           /\ ~Named(sheet, <<"andaman", "nicobar", "branch", "expenses">>)
  <2> DEFINE name == <<"andaman", "nicobar", "branch", "expenses">>
             words == {"andaman", "nicobar", "branch", "expenses"}
  <2>1. PtNames["andaman"] = <<name>>
    BY DEF PtNames
  <2>2. IsSequence(name) /\ Len(name) = 4
    BY DEF IsSequence
  <2>3. \A i \in 1..4 : i = 1 \/ i = 2 \/ i = 3 \/ i = 4
    OBVIOUS
  <2>4. \A i, j \in 1..4 : name[i] = name[j] => i = j
    BY <2>3
  <2>5. \A i \in 1..4 : /\ name[i] \in words
                        /\ name[i] \notin {"visit", "visits", "fee", "fees", "deduction", "deduciton", "asayer", "assayer"}
    BY <2>3
  <2> HIDE DEF name, words
  <2>6. /\ Len(name) >= 3
        /\ \A i, j \in 1..Len(name) : name[i] = name[j] => i = j
        /\ \A i \in 1..Len(name) :
             /\ name[i] \in words
             /\ name[i] \notin {"visit", "visits", "fee", "fees", "deduction", "deduciton", "asayer", "assayer"}
    BY <2>2, <2>4, <2>5
  <2>7. LacksAmount(sheet, known, "andaman", words)
          => PtColumn(sheet, "andaman", known) = 0 /\ ~Named(sheet, name)
    BY <1>1, <1>2, <2>1, <2>2, <2>6
  <2>8. QED
    BY <2>7 DEF name, words
<1>5. QED
  BY <1>3, <1>4

-----------------------------------------------------------------------------
(* Sums over columns of a row.                                                *)
IsLine(row) == IsSequence(row) /\ \A c \in DOMAIN row : row[c].n \in Int

LEMMA FloatsAre ==
  ASSUME NEW row, IsLine(row)
  PROVE  /\ \A P : FloatsAt(row, P) \in Int
         /\ \A c : FloatAt(row, c) = FloatsAt(row, {c})
         /\ \A P, Q : P \cap Q \cap DOMAIN row = {} => FloatsAt(row, P \cup Q) = FloatsAt(row, P) + FloatsAt(row, Q)
         /\ \A P, Q : (\A c \in DOMAIN row : c \in P <=> c \in Q) => FloatsAt(row, P) = FloatsAt(row, Q)
<1> DEFINE v == [c \in DOMAIN row |-> Float(row[c])]
<1>1. DOMAIN row = 1..Len(row) /\ Len(row) \in Nat
  BY DEF IsLine, IsSequence
<1>2. DOMAIN v = 1..Len(row) /\ v = [i \in 1..Len(row) |-> v[i]]
  BY <1>1
<1>3. IsSequence(v) /\ Len(v) = Len(row)
  BY <1>1, <1>2, AsSequence
<1>4. \A c \in DOMAIN row : v[c] = Float(row[c]) /\ Float(row[c]) \in Int
  BY DEF Float, IsLine
<1>5. \A P : FloatsAt(row, P) = AddedAt(v, P)
  BY DEF FloatsAt
<1> HIDE DEF v
<1>6. \A i \in 1..Len(v) : v[i] \in Int
  BY <1>1, <1>3, <1>4
<1>7. \A P : FloatsAt(row, P) \in Int
  BY <1>3, <1>5, <1>6, AddedAtIs
<1>8. \A c : FloatAt(row, c) = FloatsAt(row, {c})
  <2> TAKE c
  <2>1. AddedAt(v, {c}) = IF c \in 1..Len(v) THEN v[c] ELSE 0
    BY <1>3, <1>6, AddedOne
  <2>2. QED
    BY <1>1, <1>3, <1>4, <1>5, <2>1 DEF FloatAt
<1>9. \A P, Q : P \cap Q \cap DOMAIN row = {} => FloatsAt(row, P \cup Q) = FloatsAt(row, P) + FloatsAt(row, Q)
  <2> TAKE P, Q
  <2> HAVE P \cap Q \cap DOMAIN row = {}
  <2>1. AddedAt(v, P \cup Q) = AddedAt(v, P) + AddedAt(v, Q)
    BY <1>1, <1>3, <1>6, AddedApart
  <2>2. QED
    BY <1>5, <2>1
<1>10. \A P, Q : (\A c \in DOMAIN row : c \in P <=> c \in Q) => FloatsAt(row, P) = FloatsAt(row, Q)
  <2> TAKE P, Q
  <2> HAVE \A c \in DOMAIN row : c \in P <=> c \in Q
  <2>1. AddedAt(v, P) = AddedAt(v, Q)
    BY <1>1, <1>2, AddedSame
  <2>2. QED
    BY <1>5, <2>1
<1>11. QED
  BY <1>7, <1>8, <1>9, <1>10

(* The column of one of some names, of which there is at most one.            *)
LEMMA OneOfThese ==
  ASSUME NEW sheet, IsSheet(sheet), NEW names, IsSequence(names),
         \A c, d \in DOMAIN sheet.headings :
           sheet.headings[c] \in Range(names) /\ sheet.headings[d] \in Range(names) => c = d
  PROVE  \A c \in DOMAIN sheet.headings : c = ColumnOfAny(sheet, names) <=> sheet.headings[c] \in Range(names)
<1> DEFINE found == {i \in DOMAIN names : names[i] \in Range(sheet.headings)}
           first == names[Min(found)]
           at == {c \in DOMAIN sheet.headings : sheet.headings[c] = first}
           N == Len(sheet.headings)
<1>1. DOMAIN sheet.headings = 1..N /\ N \in Nat /\ 0 \notin DOMAIN sheet.headings
  BY HeadingsAre
<1>2. ColumnOfAny(sheet, names) = IF found = {} THEN 0 ELSE Max(at)
  BY DEF ColumnOfAny
<1>3. found = {} => \A c \in DOMAIN sheet.headings : sheet.headings[c] \notin Range(names)
  BY DEF Range
<1>4. ASSUME found # {}
      PROVE  Max(at) \in DOMAIN sheet.headings /\ sheet.headings[Max(at)] \in Range(names)
  <2>1. found \subseteq Nat
    BY DEF IsSequence
  <2>2. Min(found) \in found
    <3> HIDE DEF found
    <3>1. QED
      BY <1>4, <2>1, MinIs
  <2>3. first \in Range(names) /\ first \in Range(sheet.headings)
    BY <2>2 DEF Range
  <2> HIDE DEF first
  <2>4. at # {} /\ at \subseteq 0..N
    BY <1>1, <2>3 DEF Range
  <2>5. Max(at) \in at
    <3> HIDE DEF at
    <3>1. QED
      BY <1>1, <2>4, MaxIs
  <2>6. QED
    BY <2>3, <2>5
<1> HIDE DEF found, at
<1>5. QED
  BY <1>1, <1>2, <1>3, <1>4

LEMMA OneOfEach ==
  ASSUME NEW sheet, IsSheet(sheet), NEW groups,
         \A g \in groups : IsSequence(g) /\ \A c, d \in DOMAIN sheet.headings :
           sheet.headings[c] \in Range(g) /\ sheet.headings[d] \in Range(g) => c = d
  PROVE  \A c \in DOMAIN sheet.headings :
           c \in {ColumnOfAny(sheet, g) : g \in groups} <=> sheet.headings[c] \in UNION {Range(g) : g \in groups}
<1>1. \A g \in groups : \A c \in DOMAIN sheet.headings : c = ColumnOfAny(sheet, g) <=> sheet.headings[c] \in Range(g)
  BY OneOfThese
<1>2. QED
  BY <1>1

-----------------------------------------------------------------------------
(* No two amounts go by one name, and only two of them say "cancelled".       *)
LEMMA AmountNames ==
  LET TB == <<"total", "pay", "base">>
      T1 == <<"total", "pay", "base", "1">>
      T2 == <<"total", "pay", "base", "2">>
      TR == <<"travel", "charges", "if", "any">>
      AC == <<"accommodation", "charges", "if", "any">>
      C1 == <<"additional", "cost", "courier", "charges">>
      C2 == <<"additional", "cost", "if", "any">>
      CV == <<"cancelled", "visits">>
      BC == <<"branch", "cancellation", "charges">>
      AN == <<"andaman", "nicobar", "branch", "expenses">>
      ER == <<"error", "deduction">>
      E1 == <<"error", "recovery", "sep", "2024">>
  IN /\ TB \notin {T1, T2, TR, AC, C1, C2, CV, BC, AN} /\ T1 \notin {T2, TR, AC, C1, C2, CV, BC, AN}
     /\ T2 \notin {TR, AC, C1, C2, CV, BC, AN} /\ TR \notin {AC, C1, C2, CV, BC, AN}
     /\ AC \notin {C1, C2, CV, BC, AN} /\ C1 \notin {C2, CV, BC, AN} /\ C2 \notin {CV, BC, AN}
     /\ CV \notin {BC, AN} /\ BC # AN /\ ER # E1
     /\ \A h \in {TB, T1, T2, TR, AC, C1, C2, AN} : ~SaysCancelled(h)
     /\ SaysCancelled(CV) /\ SaysCancelled(BC)
BY DEF SaysCancelled, Range

(* Sums over columns of some names.                                           *)
LEMMA FloatsNamed ==
  ASSUME NEW sheet, IsSheet(sheet), NEW row, IsLine(row), Len(row) = Len(sheet.headings)
  PROVE  /\ DOMAIN row = DOMAIN sheet.headings
         /\ \A H, K : H \cap K = {} => FloatsAt(row, AllNamed(sheet, H \cup K))
                                       = FloatsAt(row, AllNamed(sheet, H)) + FloatsAt(row, AllNamed(sheet, K))
         /\ \A H, P : (\A c \in DOMAIN row : c \in P <=> sheet.headings[c] \in H)
                        => FloatsAt(row, P) = FloatsAt(row, AllNamed(sheet, H))
<1>1. DOMAIN row = DOMAIN sheet.headings
  BY HeadingsAre DEF IsLine, IsSequence
<1>2. \A H, P : (\A c \in DOMAIN row : c \in P <=> sheet.headings[c] \in H)
                  => FloatsAt(row, P) = FloatsAt(row, AllNamed(sheet, H))
  <2> TAKE H, P
  <2> HAVE \A c \in DOMAIN row : c \in P <=> sheet.headings[c] \in H
  <2>1. \A c \in DOMAIN row : c \in P <=> c \in AllNamed(sheet, H)
    BY <1>1 DEF AllNamed
  <2>2. QED
    BY <2>1, FloatsAre, Zenon
<1>3. \A H, K : H \cap K = {} => FloatsAt(row, AllNamed(sheet, H \cup K))
                                 = FloatsAt(row, AllNamed(sheet, H)) + FloatsAt(row, AllNamed(sheet, K))
  <2> TAKE H, K
  <2> HAVE H \cap K = {}
  <2> DEFINE P == AllNamed(sheet, H)
             Q == AllNamed(sheet, K)
  <2>1. P \cap Q \cap DOMAIN row = {} /\ AllNamed(sheet, H \cup K) = P \cup Q
    BY DEF AllNamed
  <2> HIDE DEF P, Q
  <2>2. FloatsAt(row, P \cup Q) = FloatsAt(row, P) + FloatsAt(row, Q)
    BY <2>1, FloatsAre
  <2>3. QED
    BY <2>1, <2>2 DEF P, Q
<1>4. QED
  BY <1>1, <1>2, <1>3

(* The pay of a row with the usual columns.                                   *)
LEMMA PayOfRow ==
  ASSUME NEW sheet, IsSheet(sheet), NEW known, HasAmounts(sheet, known),
         NEW row, IsLine(row), Len(row) = Len(sheet.headings),
         NEW cols, \A role \in DOMAIN PtNames : cols[role] = PtColumn(sheet, role, known)
  PROVE  LET paid == AllNamed(sheet, {<<"total", "pay", "base">>, <<"total", "pay", "base", "1">>,
                               <<"total", "pay", "base", "2">>, <<"travel", "charges", "if", "any">>,
                               <<"accommodation", "charges", "if", "any">>,
                               <<"additional", "cost", "courier", "charges">>,
                               <<"additional", "cost", "if", "any">>,
                               <<"andaman", "nicobar", "branch", "expenses">>})
                     \cup {c \in DOMAIN sheet.headings : SaysCancelled(sheet.headings[c])}
             taken == AllNamed(sheet, {<<"error", "deduction">>, <<"error", "recovery", "sep", "2024">>})
             total == AllNamed(sheet, {<<"total", "pay">>})
         IN PtAmounts(sheet, cols, row).pay
              = IF FloatsAt(row, total) # 0 THEN FloatsAt(row, total) ELSE FloatsAt(row, paid) - FloatsAt(row, taken)
<1> DEFINE TP == <<"total", "pay">>
           TB == <<"total", "pay", "base">>
           T1 == <<"total", "pay", "base", "1">>
           T2 == <<"total", "pay", "base", "2">>
           TR == <<"travel", "charges", "if", "any">>
           AC == <<"accommodation", "charges", "if", "any">>
           C1 == <<"additional", "cost", "courier", "charges">>
           C2 == <<"additional", "cost", "if", "any">>
           CV == <<"cancelled", "visits">>
           BC == <<"branch", "cancellation", "charges">>
           AN == <<"andaman", "nicobar", "branch", "expenses">>
           ER == <<"error", "deduction">>
           E1 == <<"error", "recovery", "sep", "2024">>
           D == DOMAIN sheet.headings
           paid == AllNamed(sheet, {TB, T1, T2, TR, AC, C1, C2, AN})
                     \cup {c \in D : SaysCancelled(sheet.headings[c])}
           taken == AllNamed(sheet, {ER, E1})
           total == AllNamed(sheet, {TP})
           at(c) == FloatAt(row, c)
           extra(groups) == FloatsAt(row, {ColumnOfAny(sheet, g) : g \in groups})
           F(H) == FloatsAt(row, AllNamed(sheet, H))
           Col(role) == PtColumn(sheet, role, known)
           Named1(role, name) == Col(role) \in D /\ sheet.headings[Col(role)] = name
<1>1. /\ Named1("totalPay", TP) /\ Named1("totalBase", TB) /\ Named1("travel", TR)
      /\ Named1("cancelled", CV) /\ Named1("error", ER)
  <2>1. /\ PtNames["totalPay"][1] = TP /\ PtNames["totalBase"][1] = TB /\ PtNames["travel"][1] = TR
        /\ PtNames["cancelled"][1] = CV /\ PtNames["error"][1] = ER
    BY DEF PtNames
  <2>2. \A role \in {"totalPay", "totalBase", "travel", "cancelled", "error"} :
          IsSequence(PtNames[role]) /\ Len(PtNames[role]) >= 1
    BY DEF PtNames, IsSequence
  <2>3. /\ HasAmount(sheet, known, "totalPay", TP) /\ HasAmount(sheet, known, "totalBase", TB)
        /\ HasAmount(sheet, known, "travel", TR) /\ HasAmount(sheet, known, "cancelled", CV)
        /\ HasAmount(sheet, known, "error", ER)
    BY DEF HasAmounts
  <2> HIDE DEF TP, TB, TR, CV, ER
  <2>4. QED
    BY <2>1, <2>2, <2>3, ColumnNamed
<1>2. /\ Named1("branchCancel", BC) \/ (Col("branchCancel") = 0 /\ ~Named(sheet, BC))
      /\ Named1("andaman", AN) \/ (Col("andaman") = 0 /\ ~Named(sheet, AN))
  <2>1. PtNames["branchCancel"][1] = BC /\ PtNames["andaman"][1] = AN
    BY DEF PtNames
  <2>2. \A role \in {"branchCancel", "andaman"} : IsSequence(PtNames[role]) /\ Len(PtNames[role]) >= 1
    BY DEF PtNames, IsSequence
  <2>3. /\ \/ HasAmount(sheet, known, "branchCancel", BC)
           \/ LacksAmount(sheet, known, "branchCancel", {"branch", "cancellation", "charges"})
        /\ \/ HasAmount(sheet, known, "andaman", AN)
           \/ LacksAmount(sheet, known, "andaman", {"andaman", "nicobar", "branch", "expenses"})
    BY DEF HasAmounts
  <2>4. /\ LacksAmount(sheet, known, "branchCancel", {"branch", "cancellation", "charges"})
             => Col("branchCancel") = 0 /\ ~Named(sheet, BC)
        /\ LacksAmount(sheet, known, "andaman", {"andaman", "nicobar", "branch", "expenses"})
             => Col("andaman") = 0 /\ ~Named(sheet, AN)
    BY CancelColumns
  <2> HIDE DEF BC, AN
  <2>5. QED
    BY <2>1, <2>2, <2>3, <2>4, ColumnNamed
<1>3. MoreBase = {<<T1>>, <<T2>>} /\ MoreTravel = {<<AC>>, <<C1, C2>>} /\ MoreErrors = {<<E1>>}
  BY DEF MoreBase, MoreTravel, MoreErrors
<1>4. ~Named(sheet, C1) \/ ~Named(sheet, C2)
  BY DEF HasAmounts
<1>5. /\ TB \notin {T1, T2, TR, AC, C1, C2, CV, BC, AN} /\ T1 \notin {T2, TR, AC, C1, C2, CV, BC, AN}
      /\ T2 \notin {TR, AC, C1, C2, CV, BC, AN} /\ TR \notin {AC, C1, C2, CV, BC, AN}
      /\ AC \notin {C1, C2, CV, BC, AN} /\ C1 \notin {C2, CV, BC, AN} /\ C2 \notin {CV, BC, AN}
      /\ CV \notin {BC, AN} /\ BC # AN /\ ER # E1
      /\ \A h \in {TB, T1, T2, TR, AC, C1, C2, AN} : ~SaysCancelled(h)
      /\ SaysCancelled(CV) /\ SaysCancelled(BC)
  BY AmountNames
<1>6. /\ \A role \in {"totalPay", "totalBase", "travel", "cancelled", "error", "branchCancel", "andaman"} :
           cols[role] = Col(role)
  BY DEF PtNames
<1> HIDE DEF TP, TB, T1, T2, TR, AC, C1, C2, CV, BC, AN, ER, E1
<1>7. /\ DOMAIN row = D /\ 0 \notin D
      /\ \A c, d \in D : sheet.headings[c] = sheet.headings[d] => c = d
  BY FloatsNamed, HeadingsAre
<1>8. /\ \A H, K : H \cap K = {} => F(H \cup K) = F(H) + F(K)
      /\ \A H, P : (\A c \in D : c \in P <=> sheet.headings[c] \in H) => FloatsAt(row, P) = F(H)
      /\ \A H : F(H) \in Int
      /\ \A c : at(c) = FloatsAt(row, {c})
  BY <1>7, FloatsNamed, FloatsAre
<1> HIDE DEF F, at, extra, Col
<1>9. \A role, name : Named1(role, name) => at(Col(role)) = F({name})
  <2> TAKE role, name
  <2> HAVE Named1(role, name)
  <2> DEFINE x == Col(role)
  <2>1. \A c \in D : c \in {x} <=> sheet.headings[c] \in {name}
    BY <1>7
  <2>2. QED
    BY <1>8, <2>1
<1>10. \A c, name : c = 0 /\ ~Named(sheet, name) => at(c) = F({name})
  <2> TAKE c, name
  <2> HAVE c = 0 /\ ~Named(sheet, name)
  <2>1. \A d \in D : d \in {c} <=> sheet.headings[d] \in {name}
    BY <1>7 DEF Named
  <2>2. QED
    BY <1>8, <2>1
<1>11. /\ at(Col("totalPay")) = F({TP}) /\ at(Col("totalBase")) = F({TB}) /\ at(Col("travel")) = F({TR})
       /\ at(Col("cancelled")) = F({CV}) /\ at(Col("error")) = F({ER})
       /\ at(Col("branchCancel")) = F({BC}) /\ at(Col("andaman")) = F({AN})
  <2> HIDE DEF Named1
  <2>1. QED
    BY <1>1, <1>2, <1>9, <1>10
<1>12. ASSUME NEW groups, \A g \in groups : IsSequence(g) /\ \A c, d \in D :
                sheet.headings[c] \in Range(g) /\ sheet.headings[d] \in Range(g) => c = d
       PROVE  extra(groups) = F(UNION {Range(g) : g \in groups})
  <2>1. \A c \in D : c \in {ColumnOfAny(sheet, g) : g \in groups}
                     <=> sheet.headings[c] \in UNION {Range(g) : g \in groups}
    BY <1>12, OneOfEach
  <2> DEFINE P == {ColumnOfAny(sheet, g) : g \in groups}
  <2>2. extra(groups) = FloatsAt(row, P)
    BY DEF extra
  <2> HIDE DEF P
  <2>3. QED
    BY <1>8, <2>1, <2>2 DEF P
<1>13. extra(MoreBase) = F({T1, T2}) /\ extra(MoreTravel) = F({AC, C1, C2}) /\ extra(MoreErrors) = F({E1})
  <2>1. \A x, y : /\ IsSequence(<<x>>) /\ Range(<<x>>) = {x}
                  /\ IsSequence(<<x, y>>) /\ Range(<<x, y>>) = {x, y}
    BY DEF IsSequence, Range
  <2>2. \A g \in MoreBase \cup MoreTravel \cup MoreErrors :
          g = <<T1>> \/ g = <<T2>> \/ g = <<AC>> \/ g = <<C1, C2>> \/ g = <<E1>>
    BY <1>3
  <2>3. \A c, d \in D : sheet.headings[c] \in {C1, C2} /\ sheet.headings[d] \in {C1, C2} => c = d
    BY <1>4, <1>7 DEF Named
  <2>4. ASSUME NEW g \in MoreBase \cup MoreTravel \cup MoreErrors
        PROVE  IsSequence(g) /\ \A c, d \in D : sheet.headings[c] \in Range(g) /\ sheet.headings[d] \in Range(g) => c = d
    <3>1. \A x : \A c, d \in D : sheet.headings[c] \in {x} /\ sheet.headings[d] \in {x} => c = d
      BY <1>7
    <3>2. IsSequence(g) /\ (Range(g) = {C1, C2} \/ \E x : Range(g) = {x})
      <4>1. CASE g = <<C1, C2>>
        BY <2>1, <4>1, Zenon
      <4>2. CASE \E x : g = <<x>>
        BY <2>1, <4>2, Zenon
      <4>3. QED
        BY <2>2, <4>1, <4>2, Zenon
    <3>3. QED
      BY <2>3, <3>1, <3>2, Zenon
  <2>5. /\ UNION {Range(g) : g \in MoreBase} = {T1, T2}
        /\ UNION {Range(g) : g \in MoreTravel} = {AC, C1, C2}
        /\ UNION {Range(g) : g \in MoreErrors} = {E1}
    <3>1. \A x : UNION {Range(g) : g \in {x}} = Range(x)
      OBVIOUS
    <3>2. \A x, y : UNION {Range(g) : g \in {x, y}} = Range(x) \cup Range(y)
      OBVIOUS
    <3>3. /\ UNION {Range(g) : g \in MoreBase} = Range(<<T1>>) \cup Range(<<T2>>)
          /\ UNION {Range(g) : g \in MoreTravel} = Range(<<AC>>) \cup Range(<<C1, C2>>)
          /\ UNION {Range(g) : g \in MoreErrors} = Range(<<E1>>)
      BY <1>3, <3>1, <3>2, Zenon
    <3>4. /\ Range(<<T1>>) = {T1} /\ Range(<<T2>>) = {T2} /\ Range(<<AC>>) = {AC}
          /\ Range(<<C1, C2>>) = {C1, C2} /\ Range(<<E1>>) = {E1}
      BY <2>1, Zenon
    <3>5. \A x, y, z : {x} \cup {y} = {x, y} /\ {x} \cup {y, z} = {x, y, z}
      OBVIOUS
    <3>6. QED
      BY <3>3, <3>4, <3>5, Zenon
  <2>6. QED
    BY <1>12, <2>4, <2>5
<1> DEFINE Oth == {h \in Range(sheet.headings) : SaysCancelled(h)} \ {CV, BC}
<1>14. FloatsAt(row, OtherCancelled(sheet, cols)) = F(Oth)
  <2>1. \A c \in D : c \in OtherCancelled(sheet, cols)
                     <=> SaysCancelled(sheet.headings[c]) /\ c # Col("cancelled") /\ c # Col("branchCancel")
    BY <1>6 DEF OtherCancelled
  <2>2. \A c \in D : c = Col("cancelled") <=> sheet.headings[c] = CV
    BY <1>1, <1>7
  <2>3. \A c \in D : c = Col("branchCancel") <=> sheet.headings[c] = BC
    BY <1>2, <1>7 DEF Named
  <2>4. \A c \in D : sheet.headings[c] \in Range(sheet.headings)
    BY DEF Range
  <2>5. \A c \in D : c \in OtherCancelled(sheet, cols) <=> sheet.headings[c] \in Oth
    BY <2>1, <2>2, <2>3, <2>4
  <2> HIDE DEF Oth
  <2>6. QED
    BY <1>8, <2>5
<1> DEFINE S1 == {TB} \cup {T1, T2}
           S2 == S1 \cup {TR}
           S3 == S2 \cup {AC, C1, C2}
           S4 == S3 \cup {CV}
           S5 == S4 \cup Oth
           S6 == S5 \cup {BC}
           S7 == S6 \cup {AN}
<1>15. \A h \in Oth : SaysCancelled(h) /\ h # CV /\ h # BC
  OBVIOUS
<1>16. FloatsAt(row, paid) = F(S7)
  <2>1. \A c \in D : c \in paid <=> sheet.headings[c] \in {TB, T1, T2, TR, AC, C1, C2, AN} \/ SaysCancelled(sheet.headings[c])
    BY DEF AllNamed
  <2>2. \A c \in D : SaysCancelled(sheet.headings[c]) <=> sheet.headings[c] \in Oth \cup {CV, BC}
    BY <1>5 DEF Range
  <2> HIDE DEF Oth, paid
  <2>3. \A c \in D : c \in paid <=> sheet.headings[c] \in S7
    BY <2>1, <2>2
  <2> HIDE DEF S7
  <2>4. QED
    BY <1>8, <2>3
<1> HIDE DEF Oth
<1>17. F(S7) = F({TB}) + F({T1, T2}) + F({TR}) + F({AC, C1, C2}) + F({CV}) + F(Oth) + F({BC}) + F({AN})
  <2>1. /\ {TB} \cap {T1, T2} = {} /\ S1 \cap {TR} = {} /\ S2 \cap {AC, C1, C2} = {} /\ S3 \cap {CV} = {}
        /\ S4 \cap Oth = {} /\ S5 \cap {BC} = {} /\ S6 \cap {AN} = {}
    BY <1>5, <1>15
  <2>2. F(S1) = F({TB}) + F({T1, T2})
    BY <1>8, <2>1
  <2> HIDE DEF S1
  <2>3. F(S2) = F(S1) + F({TR})
    BY <1>8, <2>1
  <2> HIDE DEF S2
  <2>4. F(S3) = F(S2) + F({AC, C1, C2})
    BY <1>8, <2>1
  <2> HIDE DEF S3
  <2>5. F(S4) = F(S3) + F({CV})
    BY <1>8, <2>1
  <2> HIDE DEF S4
  <2>6. F(S5) = F(S4) + F(Oth)
    BY <1>8, <2>1
  <2> HIDE DEF S5
  <2>7. F(S6) = F(S5) + F({BC})
    BY <1>8, <2>1
  <2> HIDE DEF S6
  <2>8. F(S7) = F(S6) + F({AN})
    BY <1>8, <2>1
  <2> HIDE DEF S7
  <2>9. QED
    BY <2>2, <2>3, <2>4, <2>5, <2>6, <2>7, <2>8
<1>18. FloatsAt(row, taken) = F({ER}) + F({E1}) /\ FloatsAt(row, total) = F({TP})
  <2>1. {ER} \cap {E1} = {} /\ {ER, E1} = {ER} \cup {E1}
    BY <1>5
  <2>2. QED
    BY <1>8, <2>1 DEF F
<1>19. PtAmounts(sheet, cols, row).pay
         = IF at(cols.totalPay) # 0 THEN at(cols.totalPay)
           ELSE ((IF cols.totalBase # 0 THEN at(cols.totalBase)
                  ELSE IF at(cols.baseFee) > 0 THEN (at(cols.visits) + extra(MoreVisits)) * at(cols.baseFee) ELSE 0)
                   + extra(MoreBase))
                + (at(cols.travel) + extra(MoreTravel))
                + (at(cols.cancelled) + FloatsAt(row, OtherCancelled(sheet, cols)))
                + at(cols.branchCancel) + at(cols.andaman)
                - (at(cols.error) + extra(MoreErrors))
  BY DEF PtAmounts, at, extra
<1>20. /\ cols.totalPay = Col("totalPay") /\ cols.totalBase = Col("totalBase") /\ cols.totalBase # 0
       /\ cols.travel = Col("travel") /\ cols.cancelled = Col("cancelled") /\ cols.error = Col("error")
       /\ cols.branchCancel = Col("branchCancel") /\ cols.andaman = Col("andaman")
  BY <1>1, <1>6, <1>7
<1>21. PtAmounts(sheet, cols, row).pay
         = IF F({TP}) # 0 THEN F({TP})
           ELSE (F({TB}) + F({T1, T2})) + (F({TR}) + F({AC, C1, C2})) + (F({CV}) + F(Oth)) + F({BC}) + F({AN})
                - (F({ER}) + F({E1}))
  BY <1>11, <1>13, <1>14, <1>19, <1>20
<1> HIDE DEF paid, taken, total
<1>22. PtAmounts(sheet, cols, row).pay
         = IF FloatsAt(row, total) # 0 THEN FloatsAt(row, total) ELSE FloatsAt(row, paid) - FloatsAt(row, taken)
  <2>1. /\ F({TP}) \in Int /\ F({TB}) \in Int /\ F({T1, T2}) \in Int /\ F({TR}) \in Int /\ F({AC, C1, C2}) \in Int
        /\ F({CV}) \in Int /\ F(Oth) \in Int /\ F({BC}) \in Int /\ F({AN}) \in Int /\ F({ER}) \in Int /\ F({E1}) \in Int
    BY <1>8
  <2>2. QED
    BY <1>16, <1>17, <1>18, <1>21, <2>1
<1>23. QED
  BY <1>22 DEF paid, taken, total, TP, TB, T1, T2, TR, AC, C1, C2, AN, ER, E1

-----------------------------------------------------------------------------
(* The rows read of a sheet are rows of the sheet.                            *)
LineOf(sheet, row) == IsLine(row) /\ Len(row) = Len(sheet.headings)

LEMMA LinesAre ==
  ASSUME NEW sheet, IsSheet(sheet)
  PROVE  \A r \in DOMAIN sheet.rows : LineOf(sheet, sheet.rows[r])
BY DEF IsSheet, LineOf, IsLine

PtCols(sheet, known) == [role \in DOMAIN PtNames |-> PtColumn(sheet, role, known)]

LEMMA PtRowsAre ==
  ASSUME NEW sheet, IsSheet(sheet), NEW client, NEW known
  PROVE  LET rows == PtRows(sheet, client, known)
         IN /\ IsSequence(rows)
            /\ \A i \in DOMAIN rows :
                 /\ rows[i].row \in DOMAIN sheet.rows
                 /\ rows[i] = [client |-> client, row |-> rows[i].row,
                               amounts |-> PtAmounts(sheet, PtCols(sheet, known), sheet.rows[rows[i].row]),
                               payee |-> PtPayee(sheet, PtCols(sheet, known), sheet.rows[rows[i].row])]
<1> DEFINE kept == PtKept(sheet)
           rows == PtRows(sheet, client, known)
           A(r) == PtAmounts(sheet, PtCols(sheet, known), sheet.rows[r])
           B(r) == PtPayee(sheet, PtCols(sheet, known), sheet.rows[r])
<1>1. IsSequence(kept) /\ \A i \in 1..Len(kept) : kept[i] \in DOMAIN sheet.rows
  <2>1. PICK P : P \subseteq DOMAIN sheet.rows /\ kept = InOrder(P)
    BY DEF PtKept
  <2>2. Len(sheet.rows) \in Nat /\ DOMAIN sheet.rows = 1..Len(sheet.rows)
    BY DEF IsSheet, IsSequence
  <2> HIDE DEF kept
  <2>3. QED
    BY <2>1, <2>2, InOrderIs
<1>2. rows = [i \in DOMAIN kept |-> [client |-> client, row |-> kept[i], amounts |-> A(kept[i]), payee |-> B(kept[i])]]
  BY DEF PtRows, PtCols
<1> HIDE DEF kept, rows, A, B
<1>3. DOMAIN kept = 1..Len(kept) /\ Len(kept) \in Nat
  BY <1>1 DEF IsSequence
<1>4. DOMAIN rows = 1..Len(kept) /\ rows = [i \in 1..Len(kept) |-> rows[i]]
  BY <1>2, <1>3
<1>5. IsSequence(rows)
  BY <1>3, <1>4, AsSequence
<1>6. ASSUME NEW i \in DOMAIN rows
      PROVE  /\ rows[i].row \in DOMAIN sheet.rows
             /\ rows[i] = [client |-> client, row |-> rows[i].row, amounts |-> A(rows[i].row), payee |-> B(rows[i].row)]
  <2>1. rows[i] = [client |-> client, row |-> kept[i], amounts |-> A(kept[i]), payee |-> B(kept[i])]
    BY <1>2, <1>3, <1>4
  <2>2. rows[i].row = kept[i]
    BY <2>1
  <2>3. QED
    BY <1>1, <1>3, <1>4, <2>1, <2>2
<1>7. QED
  BY <1>5, <1>6 DEF rows, A, B

(* Every row's pay is the sum of its parts.                                   *)
LEMMA PayIsTheSum ==
  ASSUME NEW sheet, IsSheet(sheet), NEW client, NEW known
  PROVE  PayAddsUp(sheet, known, PtRows(sheet, client, known))
<1> DEFINE rows == PtRows(sheet, client, known)
           cols == PtCols(sheet, known)
<1> SUFFICES ASSUME HasAmounts(sheet, known), NEW i \in DOMAIN rows
             PROVE  LET paid == AllNamed(sheet, {<<"total", "pay", "base">>, <<"total", "pay", "base", "1">>,
                               <<"total", "pay", "base", "2">>, <<"travel", "charges", "if", "any">>,
                               <<"accommodation", "charges", "if", "any">>,
                               <<"additional", "cost", "courier", "charges">>,
                               <<"additional", "cost", "if", "any">>,
                               <<"andaman", "nicobar", "branch", "expenses">>})
                              \cup {c \in DOMAIN sheet.headings : SaysCancelled(sheet.headings[c])}
                        taken == AllNamed(sheet, {<<"error", "deduction">>, <<"error", "recovery", "sep", "2024">>})
                        total == AllNamed(sheet, {<<"total", "pay">>})
                        sum(S) == FloatsAt(sheet.rows[rows[i].row], S)
                    IN rows[i].amounts.pay = IF sum(total) # 0 THEN sum(total) ELSE sum(paid) - sum(taken)
  BY DEF PayAddsUp
<1>1. rows[i].row \in DOMAIN sheet.rows /\ rows[i].amounts = PtAmounts(sheet, cols, sheet.rows[rows[i].row])
  BY PtRowsAre
<1>2. IsLine(sheet.rows[rows[i].row]) /\ Len(sheet.rows[rows[i].row]) = Len(sheet.headings)
  BY <1>1, LinesAre DEF LineOf
<1>3. \A role \in DOMAIN PtNames : cols[role] = PtColumn(sheet, role, known)
  BY DEF PtCols
<1> HIDE DEF rows, cols
<1>4. QED
  BY <1>1, <1>2, <1>3, PayOfRow

(* A phone number is not passed on as a PAN.                                  *)
LEMMA PanColumn ==
  ASSUME NEW sheet, IsSheet(sheet), NEW known, Remembered(known, "pan"),
         ~Named(sheet, <<"pan", "number">>),
         NEW c \in DOMAIN sheet.headings, sheet.headings[c] = <<"assayer", "pan">>
  PROVE  PtColumn(sheet, "pan", known) = c
<1> DEFINE names == PtNames["pan"]
           OWN == <<"assayer", "pan">>
<1>1. IsSequence(names) /\ Len(names) = 3 /\ names[1] = <<"pan", "number">> /\ names[2] = OWN
  BY DEF PtNames, IsSequence
<1>2. WithHint(names, known["pan"].source) = names
  BY DEF Remembered, WithHint
<1>3. c # 0
  BY HeadingsAre
<1>4. FindColumn(names, sheet.headings) = c
  <2> HIDE DEF names
  <2>1. 2 \in DOMAIN names /\ DOMAIN names = 1..3
    BY <1>1 DEF IsSequence
  <2>2. \A m \in DOMAIN names, d \in DOMAIN sheet.headings : m < 2 => sheet.headings[d] # names[m]
    <3> TAKE m \in DOMAIN names, d \in DOMAIN sheet.headings
    <3> HAVE m < 2
    <3>1. m = 1
      BY <2>1
    <3>2. QED
      BY <1>1, <3>1 DEF Named
  <2>3. QED
    BY <1>1, <2>1, <2>2, FoundByName, HeadingsAre
<1>5. QED
  BY <1>2, <1>3, <1>4 DEF PtColumn

LEMMA PayeeOfRow ==
  ASSUME NEW sheet, IsSheet(sheet), NEW row, LineOf(sheet, row), NEW cols, NEW c \in DOMAIN sheet.headings,
         cols["pan"] = c, sheet.headings[c] = <<"assayer", "pan">>, row[c].kind = "phone",
         \A d \in DOMAIN sheet.headings : d # c /\ "pan" \in Range(sheet.headings[d]) => row[d].kind # "phone"
  PROVE  PtPayee(sheet, cols, row).pan.kind # "phone" /\ PtPayee(sheet, cols, row).phone = row[c]
<1> DEFINE others == {d \in DOMAIN sheet.headings :
                        d # c /\ "pan" \in Range(sheet.headings[d]) /\ row[d].kind # "blank"}
<1>1. DOMAIN row = DOMAIN sheet.headings /\ c # 0
  BY HeadingsAre DEF LineOf, IsLine, IsSequence
<1>2. PhoneInPan(sheet.headings[c], row[c])
  BY DEF PhoneInPan
<1>3. /\ PtPayee(sheet, cols, row).phone = row[c]
      /\ PtPayee(sheet, cols, row).pan = IF others = {} THEN Empty ELSE row[Min(others)]
  BY <1>1, <1>2 DEF PtPayee
<1>4. others \subseteq Nat /\ \A d \in others : row[d].kind # "phone"
  BY HeadingsAre
<1> HIDE DEF others
<1>5. others # {} => Min(others) \in others
  BY <1>4, MinIs
<1>6. CASE others = {}
  <2>1. PtPayee(sheet, cols, row).pan = [kind |-> "blank", n |-> 0]
    BY <1>3, <1>6 DEF Empty
  <2>2. PtPayee(sheet, cols, row).pan.kind = "blank"
    BY <2>1
  <2>3. QED
    BY <1>3, <2>2
<1>7. CASE others # {}
  <2>1. PtPayee(sheet, cols, row).pan = row[Min(others)]
    BY <1>3, <1>7
  <2>2. row[Min(others)].kind # "phone"
    BY <1>4, <1>5, <1>7
  <2>3. QED
    BY <1>3, <2>1, <2>2
<1>8. QED
  BY <1>6, <1>7

LEMMA PansArePans ==
  ASSUME NEW sheet, IsSheet(sheet), NEW client, NEW known
  PROVE  PanIsAPan(sheet, known, PtRows(sheet, client, known))
<1> DEFINE rows == PtRows(sheet, client, known)
           cols == PtCols(sheet, known)
           row(i) == sheet.rows[rows[i].row]
<1> SUFFICES ASSUME ~Named(sheet, <<"pan", "number">>), Remembered(known, "pan"),
                    NEW i \in DOMAIN rows, NEW c \in DOMAIN sheet.headings,
                    sheet.headings[c] = <<"assayer", "pan">>, row(i)[c].kind = "phone",
                    \A d \in DOMAIN sheet.headings :
                      d # c /\ "pan" \in Range(sheet.headings[d]) => row(i)[d].kind # "phone"
             PROVE  rows[i].payee.pan.kind # "phone" /\ rows[i].payee.phone = row(i)[c]
  BY Zenon DEF PanIsAPan
<1>1. rows[i].row \in DOMAIN sheet.rows /\ rows[i].payee = PtPayee(sheet, cols, row(i))
  BY PtRowsAre
<1>2. LineOf(sheet, row(i))
  BY <1>1, LinesAre
<1>3. cols["pan"] = c
  BY PanColumn DEF PtCols, PtNames
<1> HIDE DEF rows, cols
<1>4. QED
  BY <1>1, <1>2, <1>3, PayeeOfRow

-----------------------------------------------------------------------------
(* The columns of a master.                                                   *)
LEMMA MdColumnNamed ==
  ASSUME NEW sheet, IsSheet(sheet), NEW known, NEW role, known[role] = NothingKnown, IsSequence(MdNames[role]),
         NEW n \in DOMAIN MdNames[role], NEW c \in DOMAIN sheet.headings, sheet.headings[c] = MdNames[role][n],
         \A m \in DOMAIN MdNames[role] : m < n => ~Named(sheet, MdNames[role][m])
  PROVE  MdColumn(sheet, role, known) = c
<1>1. known[role].source = <<>>
  BY DEF NothingKnown
<1>2. MdNames[role] \o <<>> = MdNames[role]
  <2>1. MdNames[role] \in Seq(Range(MdNames[role]))
    BY IsSeqOf
  <2>2. QED
    BY <2>1
<1>3. \A m \in DOMAIN MdNames[role], d \in DOMAIN sheet.headings : m < n => sheet.headings[d] # MdNames[role][m]
  BY DEF Named
<1>4. FindColumn(MdNames[role], sheet.headings) = c
  BY <1>3, FoundByName, HeadingsAre
<1>5. FindColumn(MdNames[role] \o (IF known[role].source = <<>> THEN <<>> ELSE <<known[role].source>>), sheet.headings) = c
  BY <1>1, <1>2, <1>4
<1>6. c # 0
  BY HeadingsAre
<1>7. QED
  BY <1>5, <1>6, Zenon DEF MdColumn

LEMMA NoMdColumn ==
  ASSUME NEW sheet, IsSheet(sheet), NEW known, NEW role, role \notin {"zone", "sr"}, known[role] = NothingKnown,
         IsSequence(MdNames[role]),
         \A n \in DOMAIN MdNames[role], c \in DOMAIN sheet.headings, strategy \in 1..4 :
           ~Fits(strategy, MdNames[role][n], sheet.headings[c])
  PROVE  MdColumn(sheet, role, known) = 0
<1>1. known[role].source = <<>> /\ known[role].position = 0
  BY DEF NothingKnown
<1>2. MdNames[role] \o <<>> = MdNames[role]
  <2>1. MdNames[role] \in Seq(Range(MdNames[role]))
    BY IsSeqOf
  <2>2. QED
    BY <2>1
<1>3. FindColumn(MdNames[role], sheet.headings) = 0
  BY NotFound
<1>4. FindColumn(MdNames[role] \o (IF known[role].source = <<>> THEN <<>> ELSE <<known[role].source>>), sheet.headings) = 0
  BY <1>1, <1>2, <1>3
<1>5. known[role].position \notin DOMAIN sheet.headings
  BY <1>1, HeadingsAre
<1>6. role # "zone" /\ role # "sr"
  OBVIOUS
<1>7. QED
  BY <1>4, <1>5, <1>6, Zenon DEF MdColumn

(* Two different words of a final fee's name look like no third.              *)
FeeWords == {"assayer", "asayer", "fee", "fees", "final", "1"}

LEMMA FeeLooks ==
  ASSUME NEW v \in {"assayer", "fee", "fees", "final", "1"}, NEW w, Looks(v, w)
  PROVE  /\ w \in FeeWords
         /\ v = "assayer" <=> w \in {"assayer", "asayer"}
         /\ v \in {"fee", "fees"} <=> w \in {"fee", "fees"}
         /\ v = "final" <=> w = "final"
         /\ v = "1" <=> w = "1"
<1>1. CASE v = "assayer"
  BY <1>1, Lookalikes DEF FeeWords
<1>2. CASE v = "fee"
  BY <1>2, Lookalikes DEF FeeWords
<1>3. CASE v = "fees"
  BY <1>3, Lookalikes DEF FeeWords
<1>4. CASE v = "final"
  <2>1. w = v
    BY <1>4, Unlike
  <2>2. QED
    BY <1>4, <2>1 DEF FeeWords
<1>5. CASE v = "1"
  <2>1. w = v
    BY <1>5, Unlike
  <2>2. QED
    BY <1>5, <2>1 DEF FeeWords
<1>6. QED
  BY <1>1, <1>2, <1>3, <1>4, <1>5

LEMMA FinalFee ==
  ASSUME NEW name, IsSequence(name), Len(name) = 3,
         \A i \in 1..3 : name[i] \in {"assayer", "fee", "fees", "final", "1"},
         \A i, j \in 1..3 : name[i] = name[j] \/ {name[i], name[j]} = {"fee", "fees"} => i = j,
         NEW heading, IsSequence(heading), \A x, y \in FeeWords \cap Range(heading) : x = y,
         NEW strategy \in 1..4
  PROVE  ~Fits(strategy, name, heading)
<1>1. \A i \in 1..Len(name) : \A w : Looks(name[i], w) => w \in FeeWords
  BY FeeLooks
<1>2. ASSUME NEW i \in 1..Len(name), NEW w, Looks(name[i], w)
      PROVE  \E j \in 1..Len(name) : ~Looks(name[j], w)
  <2>1. PICK j \in 1..3 : j # i
    BY 1 \in 1..3, 2 \in 1..3
  <2>2. SUFFICES ASSUME Looks(name[j], w) PROVE FALSE
    BY <2>1
  <2>3. name[i] = name[j] \/ {name[i], name[j]} = {"fee", "fees"}
    <3>1. /\ name[i] \in {"assayer", "fee", "fees", "final", "1"}
          /\ name[j] \in {"assayer", "fee", "fees", "final", "1"}
      BY <2>1
    <3>2. /\ name[i] = "assayer" <=> w \in {"assayer", "asayer"}
          /\ name[i] \in {"fee", "fees"} <=> w \in {"fee", "fees"}
          /\ name[i] = "final" <=> w = "final"
          /\ name[i] = "1" <=> w = "1"
      BY <1>2, <3>1, FeeLooks
    <3>3. /\ name[j] = "assayer" <=> w \in {"assayer", "asayer"}
          /\ name[j] \in {"fee", "fees"} <=> w \in {"fee", "fees"}
          /\ name[j] = "final" <=> w = "final"
          /\ name[j] = "1" <=> w = "1"
      BY <2>2, <3>1, FeeLooks
    <3>4. QED
      BY <3>1, <3>2, <3>3
  <2>4. QED
    BY <2>1, <2>3
<1>3. \A i, j \in 1..Len(name) : name[i] = name[j] => i = j
  OBVIOUS
<1>4. Len(name) >= 3 /\ \A i \in 1..Len(name) : \A w : Looks(name[i], w) => \E j \in 1..Len(name) : ~Looks(name[j], w)
  BY <1>2
<1>5. QED
  BY <1>1, <1>3, <1>4, NoFit

(* No heading is taken for a final fee where none has two words of one.       *)
LEMMA NoFinalFee ==
  ASSUME NEW sheet, IsSheet(sheet), NEW known, known["fee1"] = NothingKnown, ~SharesTwo(sheet, FeeWords)
  PROVE  MdColumn(sheet, "fee1", known) = 0
<1> DEFINE names == MdNames["fee1"]
<1>1. names = <<<<"assayer", "fee", "1">>, <<"final", "assayer", "fees">>, <<"assayer", "fees", "1">>,
                <<"final", "assayer", "fee">>, <<"assayer", "fee", "final">>>>
  BY DEF MdNames
<1>2. IsSequence(names) /\ DOMAIN names = 1..5
  BY <1>1 DEF IsSequence
<1>3. \A n \in 1..5 : names[n] = names[1] \/ names[n] = names[2] \/ names[n] = names[3] \/ names[n] = names[4]
                      \/ names[n] = names[5]
  <2>1. \A n \in 1..5 : n = 1 \/ n = 2 \/ n = 3 \/ n = 4 \/ n = 5
    OBVIOUS
  <2> HIDE DEF names
  <2>2. QED
    BY <2>1
<1>4. \A n \in 1..5 :
        /\ IsSequence(names[n]) /\ Len(names[n]) = 3
        /\ \A i \in 1..3 : names[n][i] \in {"assayer", "fee", "fees", "final", "1"}
        /\ \A i, j \in 1..3 : names[n][i] = names[n][j] \/ {names[n][i], names[n][j]} = {"fee", "fees"} => i = j
  <2> DEFINE ok(name) == /\ IsSequence(name) /\ Len(name) = 3
                         /\ \A i \in 1..3 : name[i] \in {"assayer", "fee", "fees", "final", "1"}
                         /\ \A i, j \in 1..3 : name[i] = name[j] \/ {name[i], name[j]} = {"fee", "fees"} => i = j
  <2> DEFINE V == {"assayer", "fee", "fees", "final", "1"}
             F == {"fee", "fees"}
  <2>1. ASSUME NEW a \in V, NEW b \in V, NEW c \in V, a # b, b # c, a # c, {a, b} # F, {b, c} # F, {a, c} # F
        PROVE  ok(<<a, b, c>>)
    <3> DEFINE name == <<a, b, c>>
    <3> HIDE DEF V, F
    <3>1. IsSequence(name) /\ Len(name) = 3
      BY DEF IsSequence
    <3>2. name[1] = a /\ name[2] = b /\ name[3] = c
      OBVIOUS
    <3> HIDE DEF name
    <3>3. \A i \in 1..3 : i = 1 \/ i = 2 \/ i = 3
      OBVIOUS
    <3>4. \A i \in 1..3 : name[i] \in V
      BY <3>2, <3>3
    <3>5. {b, a} = {a, b} /\ {c, b} = {b, c} /\ {c, a} = {a, c}
      OBVIOUS
    <3>6. \A i, j \in 1..3 : name[i] = name[j] \/ {name[i], name[j]} = F => i = j
      <4> TAKE i, j \in 1..3
      <4> HAVE name[i] = name[j] \/ {name[i], name[j]} = F
      <4>1. i # j => name[i] # name[j] /\ {name[i], name[j]} # F
        BY <2>1, <3>2, <3>3, <3>5
      <4>2. QED
        BY <4>1
    <3>7. QED
      BY <3>1, <3>4, <3>6 DEF name, V, F
  <2> HIDE DEF ok
  <2>2. /\ ok(<<"assayer", "fee", "1">>) /\ ok(<<"final", "assayer", "fees">>) /\ ok(<<"assayer", "fees", "1">>)
        /\ ok(<<"final", "assayer", "fee">>) /\ ok(<<"assayer", "fee", "final">>)
    BY <2>1
  <2>3. ok(names[1]) /\ ok(names[2]) /\ ok(names[3]) /\ ok(names[4]) /\ ok(names[5])
    BY <1>1, <2>2
  <2> HIDE DEF names
  <2>4. \A n \in 1..5 : ok(names[n])
    BY <1>3, <2>3
  <2>5. QED
    BY <2>4 DEF ok
<1> HIDE DEF names
<1>5. \A c \in DOMAIN sheet.headings : IsSequence(sheet.headings[c])
                                       /\ \A x, y \in FeeWords \cap Range(sheet.headings[c]) : x = y
  BY HeadingsAre DEF SharesTwo
<1>6. \A n \in DOMAIN names, c \in DOMAIN sheet.headings, strategy \in 1..4 :
        ~Fits(strategy, names[n], sheet.headings[c])
  <2> TAKE n \in DOMAIN names, c \in DOMAIN sheet.headings, strategy \in 1..4
  <2>1. /\ IsSequence(names[n]) /\ Len(names[n]) = 3
        /\ \A i \in 1..3 : names[n][i] \in {"assayer", "fee", "fees", "final", "1"}
        /\ \A i, j \in 1..3 : names[n][i] = names[n][j] \/ {names[n][i], names[n][j]} = {"fee", "fees"} => i = j
    BY <1>2, <1>4
  <2>2. QED
    BY <1>5, <2>1, FinalFee
<1>7. QED
  BY <1>2, <1>6, NoMdColumn DEF names

(* The rows read of a master.                                                 *)
MdCols(sheet, known) == [role \in DOMAIN MdNames |-> MdColumn(sheet, role, known)]

LEMMA MdRowsAre ==
  ASSUME NEW sheet, IsSheet(sheet), NEW client, NEW known
  PROVE  LET rows == MdRows(sheet, client, known)
         IN /\ IsSequence(rows)
            /\ \A i \in DOMAIN rows :
                 /\ rows[i].row \in DOMAIN sheet.rows /\ rows[i].client = client
                 /\ rows[i].amounts = MdAmounts(sheet, MdCols(sheet, known), sheet.rows[rows[i].row])
<1> DEFINE cols == [role \in DOMAIN MdNames |-> MdColumn(sheet, role, known)]
           P == {r \in DOMAIN sheet.rows :
                /\ sheet.rows[r][cols.sr].kind # "blank" /\ ~IsTotal(sheet.rows[r][cols.sr])
                /\ ~(r > 1 /\ IsTotal(sheet.rows[r][1]))}
           kept == InOrder(P)
           rows == MdRows(sheet, client, known)
           value(r, c) == IF c = 0 THEN 0 ELSE sheet.rows[r][c].n
           A(r) == MdAmounts(sheet, cols, sheet.rows[r])
<1>1. rows = [i \in DOMAIN kept |->
               [client |-> client, row |-> kept[i], name |-> value(kept[i], cols.assayer),
                zone |-> value(kept[i], cols.zone), amounts |-> A(kept[i])]]
  BY DEF MdRows
<1>2. IsSequence(kept) /\ \A i \in 1..Len(kept) : kept[i] \in DOMAIN sheet.rows
  <2>1. P \subseteq DOMAIN sheet.rows
    OBVIOUS
  <2>2. Len(sheet.rows) \in Nat /\ DOMAIN sheet.rows = 1..Len(sheet.rows)
    BY DEF IsSheet, IsSequence
  <2> HIDE DEF P
  <2>3. QED
    BY <2>1, <2>2, InOrderIs
<1> HIDE DEF kept, rows, A, value, cols
<1>3. DOMAIN kept = 1..Len(kept) /\ Len(kept) \in Nat
  BY <1>2 DEF IsSequence
<1>4. DOMAIN rows = 1..Len(kept) /\ rows = [i \in 1..Len(kept) |-> rows[i]]
  BY <1>1, <1>3
<1>5. IsSequence(rows)
  BY <1>3, <1>4, AsSequence
<1>6. ASSUME NEW i \in DOMAIN rows
      PROVE  rows[i].row \in DOMAIN sheet.rows /\ rows[i].client = client /\ rows[i].amounts = A(rows[i].row)
  <2>1. rows[i] = [client |-> client, row |-> kept[i], name |-> value(kept[i], cols.assayer),
                   zone |-> value(kept[i], cols.zone), amounts |-> A(kept[i])]
    BY <1>1, <1>3, <1>4
  <2>2. rows[i].row = kept[i] /\ rows[i].client = client /\ rows[i].amounts = A(kept[i])
    BY <2>1
  <2>3. QED
    BY <1>2, <1>3, <1>4, <2>2
<1>7. QED
  BY <1>5, <1>6 DEF rows, A, cols, MdCols

(* The amount under a heading there is.                                       *)
LEMMA AmountUnder ==
  ASSUME NEW sheet, IsSheet(sheet), NEW row, LineOf(sheet, row), NEW c \in DOMAIN sheet.headings
  PROVE  FloatAt(row, c) = FloatsAt(row, AllNamed(sheet, {sheet.headings[c]})) /\ FloatAt(row, c) \in Int
<1> DEFINE P == {c}
           H == {sheet.headings[c]}
<1>1. IsLine(row) /\ DOMAIN row = DOMAIN sheet.headings
  BY FloatsNamed DEF LineOf
<1>2. \A d \in DOMAIN row : d \in P <=> sheet.headings[d] \in H
  BY <1>1, HeadingsAre
<1>3. FloatAt(row, c) = FloatsAt(row, P) /\ FloatsAt(row, P) \in Int
  BY <1>1, FloatsAre
<1> HIDE DEF P, H
<1>4. FloatsAt(row, P) = FloatsAt(row, AllNamed(sheet, H))
  BY <1>2, FloatsNamed DEF LineOf
<1>5. QED
  BY <1>3, <1>4 DEF H

(* An auditor is paid for every visit.                                        *)
LEMMA EveryVisitIsPaid ==
  ASSUME NEW sheet, IsSheet(sheet), NEW client, NEW known,
         known["assayerFee"] = NothingKnown, known["visits"] = NothingKnown, known["fee1"] = NothingKnown
  PROVE  VisitsArePaid(sheet, MdRows(sheet, client, known))
<1> DEFINE rows == MdRows(sheet, client, known)
           cols == MdCols(sheet, known)
           AF == <<"audit", "fee">>
           NV == <<"no", "of", "visits">>
           NV1 == <<"no", "of", "visit">>
           line(i) == sheet.rows[rows[i].row]
           value(i, heading) == FloatsAt(line(i), AllNamed(sheet, {heading}))
<1> SUFFICES ASSUME Named(sheet, AF), Named(sheet, NV),
                    ~SharesTwo(sheet, {"assayer", "asayer", "fee", "fees", "final", "1"}),
                    \A other \in {<<"auditor", "payment">>, <<"sumeru", "auditor", "fee">>,
                                  <<"base", "audit", "fees", "in", "inr">>, NV1} : ~Named(sheet, other),
                    NEW i \in DOMAIN rows
             PROVE  rows[i].amounts.fee1 = IF value(i, NV) > 0 THEN value(i, AF) * value(i, NV) ELSE value(i, AF)
  BY DEF VisitsArePaid
<1>1. ~SharesTwo(sheet, FeeWords)
  BY DEF FeeWords
<1>2. PICK fee \in DOMAIN sheet.headings : sheet.headings[fee] = AF
  BY DEF Named
<1>3. PICK visits \in DOMAIN sheet.headings : sheet.headings[visits] = NV
  BY DEF Named
<1>4. MdColumn(sheet, "fee1", known) = 0
  BY <1>1, NoFinalFee
<1>5. MdColumn(sheet, "visits", known) = visits
  <2> DEFINE names == MdNames["visits"]
  <2>1. names = <<NV1, NV>>
    BY DEF MdNames
  <2>2. IsSequence(names) /\ DOMAIN names = 1..2 /\ names[1] = NV1 /\ names[2] = NV
    BY <2>1 DEF IsSequence
  <2> HIDE DEF names, NV, NV1
  <2>3. \A m \in DOMAIN names : m < 2 => ~Named(sheet, names[m])
    BY <2>2
  <2>4. 2 \in DOMAIN names
    BY <2>2
  <2>5. QED
    BY <1>3, <2>2, <2>3, <2>4, MdColumnNamed DEF names
<1>6. MdColumn(sheet, "assayerFee", known) = fee
  <2> DEFINE names == MdNames["assayerFee"]
             A1 == <<"assayer", "fee">>
             A2 == <<"assayer", "fees">>
             A3 == <<"auditor", "payment">>
             A4 == <<"sumeru", "auditor", "fee">>
             A5 == <<"base", "audit", "fees", "in", "inr">>
  <2>1. names = <<A1, A2, A3, A4, A5, AF>>
    BY DEF MdNames
  <2>2. ~Named(sheet, A1) /\ ~Named(sheet, A2)
    <3>1. /\ "assayer" \in FeeWords \cap Range(A1) /\ "fee" \in FeeWords \cap Range(A1)
          /\ "assayer" \in FeeWords \cap Range(A2) /\ "fees" \in FeeWords \cap Range(A2)
      BY DEF FeeWords, Range
    <3>2. "assayer" # "fee" /\ "assayer" # "fees"
      OBVIOUS
    <3> HIDE DEF A1, A2
    <3>3. QED
      BY <1>1, <3>1, <3>2 DEF SharesTwo, Named
  <2>3. ~Named(sheet, A3) /\ ~Named(sheet, A4) /\ ~Named(sheet, A5)
    OBVIOUS
  <2> HIDE DEF A1, A2, A3, A4, A5, AF, names
  <2>4. IsSequence(names) /\ DOMAIN names = 1..6 /\ names[1] = A1 /\ names[2] = A2 /\ names[3] = A3
        /\ names[4] = A4 /\ names[5] = A5 /\ names[6] = AF
    BY <2>1 DEF IsSequence
  <2>5. \A m \in DOMAIN names : m < 6 => ~Named(sheet, names[m])
    <3> TAKE m \in DOMAIN names
    <3> HAVE m < 6
    <3>1. m = 1 \/ m = 2 \/ m = 3 \/ m = 4 \/ m = 5
      BY <2>4
    <3>2. QED
      BY <2>2, <2>3, <2>4, <3>1
  <2>6. 6 \in DOMAIN names
    BY <2>4
  <2>7. QED
    BY <1>2, <2>4, <2>5, <2>6, MdColumnNamed DEF names
<1>7. rows[i].row \in DOMAIN sheet.rows /\ rows[i].amounts = MdAmounts(sheet, cols, line(i))
  BY MdRowsAre
<1>8. cols.assayerFee = fee /\ cols.visits = visits /\ cols.fee1 = 0
  BY <1>4, <1>5, <1>6 DEF MdCols, MdNames
<1>9. MdAmounts(sheet, cols, line(i)).fee1 = PerVisit(FloatAt(line(i), fee), FloatAt(line(i), visits))
  BY <1>8 DEF MdAmounts
<1>10. LineOf(sheet, line(i))
  BY <1>7, LinesAre
<1> HIDE DEF line, rows, cols, AF, NV
<1>11. FloatAt(line(i), fee) = value(i, AF) /\ FloatAt(line(i), visits) = value(i, NV)
  BY <1>2, <1>3, <1>10, AmountUnder
<1>12. QED
  BY <1>7, <1>9, <1>11 DEF PerVisit

-----------------------------------------------------------------------------
(* What a row of the tracker is.                                              *)
IsPayment(p) ==
  /\ p = [client |-> p.client, row |-> p.row, amounts |-> p.amounts, payee |-> p.payee]
  /\ "zone" \in DOMAIN p.payee /\ p.payee = [x \in DOMAIN p.payee |-> p.payee[x]]
  /\ p.client \in Int /\ p.payee.name \in Int /\ p.amounts.pay \in Int

LEMMA PayIsNumber ==
  ASSUME NEW sheet, NEW cols, NEW row, IsLine(row)
  PROVE  PtAmounts(sheet, cols, row).pay \in Int
<1> DEFINE at(c) == FloatAt(row, c)
           extra(groups) == FloatsAt(row, {ColumnOfAny(sheet, g) : g \in groups})
           fee == at(cols.baseFee)
           visits == at(cols.visits) + extra(MoreVisits)
           base == IF cols.totalBase # 0 THEN at(cols.totalBase) ELSE IF fee > 0 THEN visits * fee ELSE 0
<1>1. (\A P : FloatsAt(row, P) \in Int) /\ \A c : FloatAt(row, c) = FloatsAt(row, {c})
  BY FloatsAre
<1>2. PtAmounts(sheet, cols, row).pay
        = IF at(cols.totalPay) # 0 THEN at(cols.totalPay)
          ELSE (base + extra(MoreBase)) + (at(cols.travel) + extra(MoreTravel))
               + (at(cols.cancelled) + FloatsAt(row, OtherCancelled(sheet, cols)))
               + at(cols.branchCancel) + at(cols.andaman) - (at(cols.error) + extra(MoreErrors))
  BY DEF PtAmounts
<1>3. \A c : at(c) \in Int
  BY <1>1, Zenon
<1>4. \A g : extra(g) \in Int
  BY <1>1
<1> HIDE DEF at, extra
<1>5. visits \in Int /\ fee \in Int
  BY <1>3, <1>4
<1> HIDE DEF visits, fee
<1>6. visits * fee \in Int
  BY <1>5
<1>7. base \in Int
  BY <1>3, <1>6
<1> HIDE DEF base
<1>8. FloatsAt(row, OtherCancelled(sheet, cols)) \in Int
  BY <1>1
<1>9. QED
  BY <1>2, <1>3, <1>4, <1>7, <1>8

LEMMA PayeeIs ==
  ASSUME NEW sheet, NEW cols, NEW row, IsLine(row)
  PROVE  LET payee == PtPayee(sheet, cols, row)
         IN "zone" \in DOMAIN payee /\ payee = [x \in DOMAIN payee |-> payee[x]] /\ payee.name \in Int
<1> DEFINE payee == PtPayee(sheet, cols, row)
           of(role) == IF cols[role] \in DOMAIN row THEN row[cols[role]] ELSE Empty
<1>1. PICK a, b, c, d : payee = [name |-> of("assayer").n, zone |-> of("zone").n, bank |-> a, ifsc |-> b,
                                 phone |-> c, pan |-> d]
  BY DEF PtPayee
<1>2. of("assayer").n \in Int
  BY DEF IsLine, Empty
<1> HIDE DEF of, payee
<1>3. QED
  BY <1>1, <1>2 DEF payee

LEMMA PaymentIs ==
  ASSUME NEW sheet, IsSheet(sheet), NEW client \in Int, NEW known,
         NEW i \in DOMAIN PtRows(sheet, client, known)
  PROVE  IsPayment(PtRows(sheet, client, known)[i]) /\ PtRows(sheet, client, known)[i].client = client
<1> DEFINE p == PtRows(sheet, client, known)[i]
           line == sheet.rows[p.row]
           cols == PtCols(sheet, known)
           A == PtAmounts(sheet, cols, line)
           B == PtPayee(sheet, cols, line)
<1>1. p.row \in DOMAIN sheet.rows /\ p = [client |-> client, row |-> p.row, amounts |-> A, payee |-> B]
  BY PtRowsAre
<1>2. IsLine(line)
  BY <1>1, LinesAre DEF LineOf
<1>3. A.pay \in Int /\ "zone" \in DOMAIN B /\ B = [x \in DOMAIN B |-> B[x]] /\ B.name \in Int
  BY <1>2, PayIsNumber, PayeeIs
<1> HIDE DEF p, A, B
<1>4. p.client = client /\ p.amounts = A /\ p.payee = B
  BY <1>1
<1>5. IsPayment(p)
  BY <1>1, <1>3, <1>4 DEF IsPayment
<1>6. QED
  BY <1>4, <1>5 DEF p

(* Where the master gives a client's zone to its rows.                        *)
LEMMA ZonedIs ==
  ASSUME NEW p, IsPayment(p), NEW payments, NEW audits
  PROVE  LET q == Zoned(p, payments, audits)
             lacking == \E r \in DOMAIN payments : payments[r].client = p.client /\ payments[r].payee.zone = 0
             given == MasterZone(p.client, audits)
         IN /\ q.client = p.client /\ q.amounts = p.amounts
            /\ ~lacking => q = p
            /\ lacking /\ given # 0 => q.payee.zone = given
<1> DEFINE given == MasterZone(p.client, audits)
           lacking == \E r \in DOMAIN payments : payments[r].client = p.client /\ payments[r].payee.zone = 0
           q == Zoned(p, payments, audits)
           e == [p EXCEPT !.payee.zone = given]
<1>1. q = IF lacking /\ given # 0 THEN e ELSE p
  BY DEF Zoned
<1> HIDE DEF given, lacking
<1>2. e.client = p.client /\ e.amounts = p.amounts /\ e.payee = [p.payee EXCEPT !.zone = given]
  <2>1. DOMAIN p = {"client", "row", "amounts", "payee"} /\ p = [x \in DOMAIN p |-> p[x]]
    BY DEF IsPayment
  <2>2. QED
    BY <2>1
<1>3. e.payee.zone = given
  BY <1>2 DEF IsPayment
<1> HIDE DEF e, q
<1>4. QED
  BY <1>1, <1>2, <1>3 DEF q, lacking, given

(* The rows in the order they are sorted into.                                *)
LEMMA ByClientOrders ==
  ASSUME NEW rows, IsSequence(rows), \A i \in DOMAIN rows : IsPayment(rows[i])
  PROVE  Orders(Len(rows), ByClient(rows))
<1> DEFINE R == ByClient(rows)
           c(i) == rows[i].client
           m(i) == rows[i].payee.name
<1>1. DOMAIN rows = 1..Len(rows) /\ Len(rows) \in Nat
  BY DEF IsSequence
<1>2. \A i, j \in 1..Len(rows) :
        <<i, j>> \in R <=> c(i) < c(j) \/ (c(i) = c(j) /\ m(i) < m(j)) \/ (c(i) = c(j) /\ m(i) = m(j) /\ i < j)
  <2> TAKE i, j \in 1..Len(rows)
  <2> DEFINE p == <<i, j>>
             before(a, b) == \/ rows[a].client < rows[b].client
                             \/ rows[a].client = rows[b].client /\ rows[a].payee.name < rows[b].payee.name
                             \/ /\ rows[a].client = rows[b].client /\ rows[a].payee.name = rows[b].payee.name
                                /\ a < b
  <2>1. p \in (DOMAIN rows) \X (DOMAIN rows) /\ p[1] = i /\ p[2] = j
    BY <1>1
  <2>2. R = {q \in (DOMAIN rows) \X (DOMAIN rows) : before(q[1], q[2])}
    BY DEF ByClient
  <2> HIDE DEF p, before, R
  <2>3. p \in R <=> before(i, j)
    BY <2>1, <2>2
  <2>4. QED
    BY <2>3 DEF p, before
<1>3. \A i \in 1..Len(rows) : c(i) \in Int /\ m(i) \in Int /\ i \in Int
  <2>1. \A p : IsPayment(p) => p.client \in Int /\ p.payee.name \in Int
    BY DEF IsPayment
  <2>2. QED
    BY <1>1, <2>1
<1> HIDE DEF R, c, m
<1>4. \A i, j \in 1..Len(rows) : i # j => <<i, j>> \in R \/ <<j, i>> \in R
  BY <1>2, <1>3
<1>5. \A i \in 1..Len(rows) : <<i, i>> \notin R
  BY <1>2, <1>3
<1>6. \A i, j, k \in 1..Len(rows) : <<i, j>> \in R /\ <<j, k>> \in R => <<i, k>> \in R
  BY <1>2, <1>3
<1>7. QED
  BY <1>4, <1>5, <1>6 DEF Orders, R

(* The sheet a workbook's payments are read from.                             *)
LEMMA OnePaymentsSheet ==
  ASSUME NEW book, IsSequence(book), NEW s \in DOMAIN book, ClearSheets(book, "payments") = {s}
  PROVE  IdentifySheets(book).pt = s /\ PaidFrom(book) = s
<1>1. Cardinality(ClearSheets(book, "payments")) = 1
  BY FS_Singleton
<1>2. IdentifySheets(book).pt \in ClearSheets(book, "payments")
  BY <1>1, SheetsAreRead DEF ClearSheetsAreRead
<1>3. \A t \in DOMAIN book : ClearSheets(book, "payments") = {t} <=> t = s
  OBVIOUS
<1>4. QED
  BY <1>2, <1>3 DEF PaidFrom

(* A sheet taken as the master's is a sheet of the workbook.                  *)
LEMMA TakenSheet ==
  ASSUME NEW book, IsSequence(book), NEW role
  PROVE  Take(book, role) = 0 \/ Take(book, role) \in DOMAIN book
<1> DEFINE all == {i \in DOMAIN book : Suits(role, book[i])}
           clear == {i \in all : Score(role, book[i]) > Weak(role)}
<1>1. DOMAIN book = 1..Len(book) /\ Len(book) \in Nat
  BY DEF IsSequence
<1>2. clear \subseteq DOMAIN book /\ all \subseteq DOMAIN book
  OBVIOUS
<1>3. Take(book, role) = IF clear # {} THEN Max(clear) ELSE IF all # {} THEN Min(all) ELSE 0
  BY DEF Take
<1> HIDE DEF all, clear
<1>4. clear # {} => Max(clear) \in clear
  <2>1. clear \subseteq 0..Len(book)
    BY <1>1, <1>2
  <2>2. QED
    BY <1>1, <2>1, MaxIs
<1>5. all # {} => Min(all) \in all
  <2>1. all \subseteq Nat
    BY <1>1, <1>2
  <2>2. QED
    BY <2>1, MinIs
<1>6. QED
  BY <1>2, <1>3, <1>4, <1>5

-----------------------------------------------------------------------------
(* The rows of all workbooks.                                                 *)
AreBooks(books) == IsSequence(books) /\ \A b \in DOMAIN books : IsWorkbook(books[b])

LEMMA PaymentsAre ==
  ASSUME NEW books, AreBooks(books), NEW known
  PROVE  /\ PaymentsOf(books, known) = FlattenSeq(PaymentsRead(books, known))
         /\ IsSequence(PaymentsRead(books, known)) /\ Len(PaymentsRead(books, known)) = Len(books)
         /\ \A b \in DOMAIN books :
              /\ IsSequence(PaymentsRead(books, known)[b])
              /\ \A r \in DOMAIN PaymentsRead(books, known)[b] :
                   /\ IsPayment(PaymentsRead(books, known)[b][r])
                   /\ PaymentsRead(books, known)[b][r].client = books[b].client
<1> DEFINE read == PaymentsRead(books, known)
           pt(b) == IdentifySheets(books[b].sheets).pt
           of == [b \in DOMAIN books |->
                    IF pt(b) = 0 THEN <<>> ELSE PtRows(books[b].sheets[pt(b)], books[b].client, known)]
<1>1. DOMAIN books = 1..Len(books) /\ Len(books) \in Nat
  BY DEF AreBooks, IsSequence
<1>2. ASSUME NEW b \in DOMAIN books
      PROVE  /\ pt(b) \in DOMAIN books[b].sheets /\ pt(b) # 0 /\ PaidFrom(books[b].sheets) = pt(b)
             /\ IsSheet(books[b].sheets[pt(b)]) /\ books[b].client \in Int
  <2>1. IsSequence(books[b].sheets) /\ books[b].client \in Int
        /\ \A i \in DOMAIN books[b].sheets : IsSheet(books[b].sheets[i])
    BY DEF AreBooks, IsWorkbook
  <2>2. PICK s \in DOMAIN books[b].sheets : ClearSheets(books[b].sheets, "payments") = {s}
    BY DEF AreBooks, IsWorkbook
  <2>3. pt(b) = s /\ PaidFrom(books[b].sheets) = s
    BY <2>1, <2>2, OnePaymentsSheet
  <2>4. 0 \notin DOMAIN books[b].sheets
    BY <2>1 DEF IsSequence
  <2>5. QED
    BY <2>1, <2>2, <2>3, <2>4
<1>3. read = [b \in DOMAIN books |-> PtRows(books[b].sheets[PaidFrom(books[b].sheets)], books[b].client, known)]
  BY DEF PaymentsRead
<1>4. \A b \in DOMAIN books : read[b] = PtRows(books[b].sheets[pt(b)], books[b].client, known)
  BY <1>2, <1>3
<1>5. of = read
  <2>1. \A b \in DOMAIN books : of[b] = read[b]
    BY <1>2, <1>4
  <2>2. DOMAIN of = DOMAIN books /\ of = [b \in DOMAIN books |-> of[b]] /\ read = [b \in DOMAIN books |-> read[b]]
    BY <1>3
  <2> HIDE DEF of, read
  <2>3. QED
    BY <2>1, <2>2
<1>6. PaymentsOf(books, known) = FlattenSeq(read)
  BY <1>5 DEF PaymentsOf
<1>7. IsSequence(read) /\ Len(read) = Len(books)
  <2>1. DOMAIN read = 1..Len(books) /\ read = [b \in 1..Len(books) |-> read[b]]
    BY <1>1, <1>3
  <2> HIDE DEF read
  <2>2. QED
    BY <1>1, <2>1, AsSequence
<1> HIDE DEF read, of, pt
<1>8. ASSUME NEW b \in DOMAIN books
      PROVE  /\ IsSequence(read[b])
             /\ \A r \in DOMAIN read[b] : IsPayment(read[b][r]) /\ read[b][r].client = books[b].client
  BY <1>2, <1>4, PtRowsAre, PaymentIs
<1>9. QED
  BY <1>6, <1>7, <1>8 DEF read

LEMMA AllPaymentsAre ==
  ASSUME NEW books, AreBooks(books), NEW known
  PROVE  LET all == PaymentsOf(books, known)
             read == PaymentsRead(books, known)
         IN /\ IsSequence(all)
            /\ \A p \in DOMAIN all : IsPayment(all[p])
            /\ \A b \in DOMAIN books : \A r \in DOMAIN read[b] : \E p \in DOMAIN all : all[p] = read[b][r]
<1> DEFINE all == PaymentsOf(books, known)
           read == PaymentsRead(books, known)
           N == Len(books)
<1>1. /\ all = FlattenSeq(read) /\ IsSequence(read) /\ Len(read) = N
      /\ \A b \in DOMAIN books :
           IsSequence(read[b]) /\ \A r \in DOMAIN read[b] : IsPayment(read[b][r])
  BY PaymentsAre
<1>2. DOMAIN books = 1..N /\ N \in Nat
  BY DEF AreBooks, IsSequence
<1> HIDE DEF all, read, N
<1>3. Joined(read, N, all)
  BY <1>1, <1>2, FlattenedIs
<1>4. PICK at : JoinedBy(read, N, all, at)
  BY <1>3 DEF Joined
<1>5. IsSequence(all) /\ DOMAIN all = 1..Len(all)
  BY <1>3 DEF Joined, IsSequence
<1>6. \A b \in DOMAIN books : DOMAIN read[b] = 1..Len(read[b])
  BY <1>1 DEF IsSequence
<1>7. \A p \in DOMAIN all : IsPayment(all[p])
  <2> TAKE p \in DOMAIN all
  <2>1. at[p][1] \in 1..N /\ at[p][2] \in 1..Len(read[at[p][1]]) /\ all[p] = read[at[p][1]][at[p][2]]
    BY <1>4, <1>5 DEF JoinedBy
  <2> DEFINE b == at[p][1]
             k == at[p][2]
  <2>2. b \in DOMAIN books /\ k \in 1..Len(read[b]) /\ all[p] = read[b][k]
    BY <1>2, <2>1
  <2> HIDE DEF b, k
  <2>3. k \in DOMAIN read[b]
    BY <1>6, <2>2
  <2>4. QED
    BY <1>1, <2>2, <2>3
<1>8. \A b \in DOMAIN books : \A r \in DOMAIN read[b] : \E p \in DOMAIN all : all[p] = read[b][r]
  <2>1. \A i \in 1..N : \A k \in 1..Len(read[i]) : \E p \in 1..Len(all) : at[p][1] = i /\ at[p][2] = k
    BY <1>4 DEF JoinedBy
  <2> TAKE b \in DOMAIN books
  <2> TAKE r \in DOMAIN read[b]
  <2>2. PICK p \in 1..Len(all) : at[p][1] = b /\ at[p][2] = r
    <3>1. b \in 1..N /\ r \in 1..Len(read[b])
      BY <1>2, <1>6
    <3>2. QED
      BY <2>1, <3>1
  <2>3. all[p] = read[b][r]
    BY <1>4, <2>2 DEF JoinedBy
  <2>4. QED
    BY <1>5, <2>2, <2>3
<1>9. QED
  BY <1>5, <1>7, <1>8 DEF all, read

LEMMA AuditsAre ==
  ASSUME NEW books, AreBooks(books), NEW known
  PROVE  IsSequence(AuditsOf(books, known))
<1> DEFINE md(b) == IdentifySheets(books[b].sheets).md
           of == [b \in DOMAIN books |->
                    IF md(b) = 0 THEN <<>> ELSE MdRows(books[b].sheets[md(b)], books[b].client, known)]
<1>1. DOMAIN books = 1..Len(books) /\ Len(books) \in Nat
  BY DEF AreBooks, IsSequence
<1>2. ASSUME NEW b \in DOMAIN books
      PROVE  IsSequence(of[b])
  <2>1. IsSequence(books[b].sheets) /\ \A i \in DOMAIN books[b].sheets : IsSheet(books[b].sheets[i])
    BY DEF AreBooks, IsWorkbook
  <2>2. md(b) = Take(books[b].sheets, "master")
    BY DEF IdentifySheets
  <2>3. md(b) = 0 \/ md(b) \in DOMAIN books[b].sheets
    BY <2>1, <2>2, TakenSheet
  <2>4. CASE md(b) = 0
    <3>1. of[b] = <<>>
      BY <2>4
    <3>2. QED
      BY <3>1 DEF IsSequence
  <2>5. CASE md(b) # 0
    <3>1. of[b] = MdRows(books[b].sheets[md(b)], books[b].client, known)
      BY <2>5
    <3>2. QED
      BY <2>1, <2>3, <2>5, <3>1, MdRowsAre
  <2>6. QED
    BY <2>4, <2>5
<1>3. DOMAIN of = 1..Len(books) /\ of = [b \in 1..Len(books) |-> of[b]]
  BY <1>1
<1>4. AuditsOf(books, known) = FlattenSeq(of)
  BY DEF AuditsOf
<1> HIDE DEF of
<1>5. IsSequence(of) /\ Len(of) = Len(books)
  BY <1>1, <1>3, AsSequence
<1>6. QED
  BY <1>1, <1>2, <1>4, <1>5, FlattenedIs DEF Joined

(* A zone the master gives.                                                   *)
LEMMA MasterGives ==
  ASSUME NEW rows, IsSequence(rows), NEW client,
         \E r \in DOMAIN rows : rows[r].client = client /\ rows[r].zone # 0
  PROVE  MasterZone(client, rows) # 0
<1> DEFINE zoned == {r \in DOMAIN rows : rows[r].client = client /\ rows[r].zone # 0}
<1>1. zoned # {} /\ zoned \subseteq Nat /\ \A r \in zoned : rows[r].zone # 0
  BY DEF IsSequence
<1>2. MasterZone(client, rows) = IF zoned = {} THEN 0 ELSE rows[Min(zoned)].zone
  BY DEF MasterZone
<1> HIDE DEF zoned
<1>3. Min(zoned) \in zoned
  BY <1>1, MinIs
<1>4. QED
  BY <1>1, <1>2, <1>3

(* The tracker's rows are the payments in another order, with their zones.    *)
LEMMA TrackerIs ==
  ASSUME NEW books, AreBooks(books), NEW known
  PROVE  LET all == PaymentsOf(books, known)
             md == AuditsOf(books, known)
             out == Tracker(books, known)
             order == InThisOrder(Len(all), ByClient(all))
         IN /\ Rearranges(order, Len(all))
            /\ DOMAIN out.payments = 1..Len(all) /\ Len(out.payments) = Len(all) /\ IsSequence(out.payments)
            /\ \A n \in 1..Len(all) : out.payments[n] = Zoned(all[order[n]], all, md)
            /\ out.audits = md /\ out.total = Added([r \in DOMAIN all |-> all[r].amounts.pay])
<1> DEFINE all == PaymentsOf(books, known)
           md == AuditsOf(books, known)
           out == Tracker(books, known)
           order == InThisOrder(Len(all), ByClient(all))
<1>1. IsSequence(all) /\ \A p \in DOMAIN all : IsPayment(all[p])
  BY AllPaymentsAre
<1>2. Orders(Len(all), ByClient(all)) /\ Len(all) \in Nat
  BY <1>1, ByClientOrders DEF IsSequence
<1>3. Rearranges(order, Len(all)) /\ order = [n \in 1..Len(all) |-> order[n]]
  BY <1>2, OrderIs DEF Rearranges
<1>4. out = [payments |-> [n \in DOMAIN order |-> Zoned(all[order[n]], all, md)], audits |-> md,
             total |-> Added([r \in DOMAIN all |-> all[r].amounts.pay])]
  BY DEF Tracker
<1> HIDE DEF all, md, out, order
<1>5. /\ out.payments = [n \in DOMAIN order |-> Zoned(all[order[n]], all, md)]
      /\ out.audits = md /\ out.total = Added([r \in DOMAIN all |-> all[r].amounts.pay])
  BY <1>4
<1>6. DOMAIN order = 1..Len(all)
  BY <1>3
<1>7. /\ DOMAIN out.payments = 1..Len(all) /\ out.payments = [n \in 1..Len(all) |-> out.payments[n]]
      /\ \A n \in 1..Len(all) : out.payments[n] = Zoned(all[order[n]], all, md)
  BY <1>5, <1>6
<1>8. Len(out.payments) = Len(all) /\ IsSequence(out.payments)
  BY <1>2, <1>7, AsSequence
<1>9. QED
  BY <1>3, <1>5, <1>7, <1>8 DEF all, md, out, order

(* Every payment is in the tracker once, counted, with its zone.              *)
LEMMA PaymentsAreComplete ==
  ASSUME NEW books, AreBooks(books), NEW known
  PROVE  TrackerComplete(books, PaymentsRead(books, known), Tracker(books, known))
<1> DEFINE payments == PaymentsRead(books, known)
           read == FlattenSeq(payments)
           md == AuditsOf(books, known)
           out == Tracker(books, known)
           order == InThisOrder(Len(read), ByClient(read))
           N == Len(read)
           lacking(client) == \E r \in DOMAIN read : read[r].client = client /\ read[r].payee.zone = 0
           named(client) == \A r \in DOMAIN read : read[r].client = client => read[r].payee.zone # 0
           zoned(client) == \E r \in DOMAIN out.audits : out.audits[r].client = client /\ out.audits[r].zone # 0
           times(rows, row) == Cardinality({r \in DOMAIN rows : rows[r] = row})
<1>1. PaymentsOf(books, known) = read
  BY PaymentsAre
<1>2. /\ IsSequence(read) /\ \A p \in DOMAIN read : IsPayment(read[p])
      /\ \A b \in DOMAIN books : \A r \in DOMAIN payments[b] :
           payments[b][r].client = books[b].client /\ \E p \in DOMAIN read : read[p] = payments[b][r]
  BY <1>1, AllPaymentsAre, PaymentsAre
<1>3. /\ Rearranges(order, N)
      /\ DOMAIN out.payments = 1..N /\ Len(out.payments) = N /\ IsSequence(out.payments)
      /\ \A n \in 1..N : out.payments[n] = Zoned(read[order[n]], read, md)
      /\ out.audits = md /\ out.total = Added([r \in DOMAIN read |-> read[r].amounts.pay])
  BY <1>1, TrackerIs
<1>4. IsSequence(md)
  BY AuditsAre
<1> HIDE DEF payments, read, md, out, order
<1>5. N \in Nat /\ DOMAIN read = 1..N
  BY <1>2 DEF IsSequence
<1>6. \A n \in 1..N : order[n] \in 1..N
  BY <1>3 DEF Rearranges
<1>7. ASSUME NEW n \in 1..N
      PROVE  /\ out.payments[n].client = read[order[n]].client
             /\ out.payments[n].amounts = read[order[n]].amounts
             /\ ~lacking(read[order[n]].client) => out.payments[n] = read[order[n]]
             /\ lacking(read[order[n]].client) /\ MasterZone(read[order[n]].client, md) # 0
                  => out.payments[n].payee.zone = MasterZone(read[order[n]].client, md)
  <2> DEFINE p == read[order[n]]
  <2>1. IsPayment(p)
    BY <1>2, <1>5, <1>6
  <2>2. out.payments[n] = Zoned(p, read, md)
    BY <1>3
  <2> HIDE DEF p
  <2>3. QED
    BY <2>1, <2>2, ZonedIs DEF p
<1>8. out.total = Added([r \in DOMAIN out.payments |-> out.payments[r].amounts.pay])
  <2> DEFINE s == [r \in 1..N |-> read[r].amounts.pay]
             t == [n \in 1..N |-> s[order[n]]]
  <2>1. IsSequence(s) /\ Len(s) = N
    <3>1. DOMAIN s = 1..N /\ s = [r \in 1..N |-> s[r]]
      OBVIOUS
    <3> HIDE DEF s
    <3>2. QED
      BY <1>5, <3>1, AsSequence
  <2>2. \A r \in 1..Len(s) : s[r] \in Int
    BY <1>2, <1>5, <2>1 DEF IsPayment
  <2>3. t = [r \in DOMAIN out.payments |-> out.payments[r].amounts.pay]
    <3> DEFINE u == [r \in DOMAIN out.payments |-> out.payments[r].amounts.pay]
    <3>1. DOMAIN u = 1..N /\ u = [r \in 1..N |-> u[r]] /\ t = [r \in 1..N |-> t[r]]
      BY <1>3
    <3>2. \A r \in 1..N : u[r] = t[r]
      BY <1>3, <1>6, <1>7
    <3> HIDE DEF t, u
    <3>3. t = u
      BY <3>1, <3>2
    <3>4. QED
      BY <3>3 DEF u
  <2>4. out.total = Added(s)
    BY <1>3, <1>5
  <2> HIDE DEF s
  <2>5. Added(t) = Added(s)
    BY <1>3, <2>1, <2>2, AddedRearranged
  <2> HIDE DEF t
  <2>6. QED
    BY <2>3, <2>4, <2>5
<1>9. ASSUME NEW b \in DOMAIN books, named(books[b].client), NEW r \in DOMAIN payments[b]
      PROVE  times(out.payments, payments[b][r]) = times(read, payments[b][r])
  <2> DEFINE x == payments[b][r]
  <2>1. x.client = books[b].client
    BY <1>2
  <2> HIDE DEF x
  <2>2. ~lacking(x.client)
    BY <1>9, <2>1
  <2>3. \A n \in 1..N : out.payments[n] = x <=> read[order[n]] = x
    <3> TAKE n \in 1..N
    <3>1. /\ out.payments[n].client = read[order[n]].client
          /\ ~lacking(read[order[n]].client) => out.payments[n] = read[order[n]]
      BY <1>7
    <3> HIDE DEF lacking
    <3>2. QED
      BY <2>2, <3>1
  <2> DEFINE A == {n \in DOMAIN out.payments : out.payments[n] = x}
             B == {n \in DOMAIN read : read[n] = x}
  <2>4. PlacesTo(A, order, N, B)
    BY <1>3, <1>5, <1>6, <2>3 DEF PlacesTo
  <2>5. N \in Nat /\ Rearranges(order, N)
    BY <1>3, <1>5
  <2> HIDE DEF A, B, N
  <2>6. Cardinality(A) = Cardinality(B)
    BY <2>4, <2>5, CountRearranged
  <2>7. QED
    BY <2>6 DEF A, B, x
<1>10. ASSUME NEW b \in DOMAIN books, zoned(books[b].client), NEW n \in DOMAIN out.payments,
              out.payments[n].client = books[b].client
       PROVE  out.payments[n].payee.zone # 0
  <2> DEFINE client == books[b].client
             p == read[order[n]]
  <2>1. MasterZone(client, md) # 0
    BY <1>3, <1>4, <1>10, MasterGives
  <2>2. n \in 1..N /\ order[n] \in DOMAIN read
    BY <1>3, <1>5, <1>6
  <2>3. /\ p.client = client
        /\ ~lacking(client) => out.payments[n] = p
        /\ lacking(client) => out.payments[n].payee.zone = MasterZone(client, md)
    BY <1>7, <1>10, <2>1, <2>2
  <2>4. CASE lacking(client)
    BY <2>1, <2>3, <2>4
  <2>5. CASE ~lacking(client)
    <3>1. p.payee.zone # 0
      BY <2>2, <2>3, <2>5
    <3>2. QED
      BY <2>3, <2>5, <3>1
  <2>6. QED
    BY <2>4, <2>5
<1>11. /\ Len(out.payments) = Len(read)
       /\ out.total = Added([r \in DOMAIN out.payments |-> out.payments[r].amounts.pay])
       /\ \A b \in DOMAIN books :
            /\ named(books[b].client) => \A r \in DOMAIN payments[b] :
                 times(out.payments, payments[b][r]) = times(read, payments[b][r])
            /\ zoned(books[b].client) => \A r \in DOMAIN out.payments :
                 out.payments[r].client = books[b].client => out.payments[r].payee.zone # 0
  <2> HIDE DEF named, zoned, times
  <2>1. QED
    BY <1>3, <1>8, <1>9, <1>10
<1>12. QED
  BY <1>11, Zenon DEF TrackerComplete, payments, read, out

-----------------------------------------------------------------------------
(* A service that has been called has the output of one of its inputs.       *)
RowsOut ==
  called /\ service = "rows" => input \in Inputs("rows") /\ output = ValidateRow(input)
ColumnsOut ==
  called /\ service = "normalize" =>
    input \in Inputs("normalize") /\ output = NormalizeColumn(input.kind, input.column)
MergesOut ==
  called /\ service = "merge" => input \in Inputs("merge") /\ output = MergeFolder(input)
FlatOut ==
  called /\ service = "flatten" => input \in Inputs("flatten") /\ output = Flatten(input)
MastersOut ==
  called /\ service = "idfc" =>
    input \in Inputs("idfc") /\ output = IdfcReports(input.book, input.pattern)
StagesOut ==
  called /\ service = "stage 1" => input \in Inputs("stage 1") /\ output = Stage1(input)
PacksOut ==
  called /\ service = "pack" => output = Pack(input[1], input[2], input[3])
AuditsOut ==
  called /\ service = "audit" =>
    input \in Inputs("audit") /\ output = Stage2(FillIn(input.rows, input.entries))
WeightsOut ==
  called /\ service = "stage 2" => input \in Inputs("stage 2") /\ output = Consolidate(input)
BranchesOut ==
  called /\ service = "pdfs" => input \in Inputs("pdfs") /\ output = Pdfs(input)
LayoutsOut ==
  called /\ service = "lay out" =>
    input \in Inputs("lay out") /\ output = LayOut(input.rows, input.numbers)
PacketsOut ==
  called /\ service = "packets" => input \in Inputs("packets") /\ output = Packets(input)
ConvertsOut ==
  called /\ service = "convert" => input \in Inputs("convert") /\ output = Convert(input.sheet)
RebuildsOut ==
  called /\ service = "rebuild" => input \in Inputs("rebuild") /\ output = Rebuild(input)
BooksOut ==
  called /\ service = "sheets" => input \in Inputs("sheets") /\ output = IdentifySheets(input)
PaymentsOut ==
  called /\ service = "payments" =>
    input \in Inputs("payments") /\ output = PtRows(input.sheet, 1, input.known)
FeesOut ==
  called /\ service = "audits" => input \in Inputs("audits") /\ output = MdRows(input, 1, Unhinted)
TrackersOut ==
  called /\ service = "tracker" => input \in Inputs("tracker") /\ output = Tracker(input, Unhinted)
Answered ==
  /\ RowsOut /\ ColumnsOut /\ MergesOut /\ FlatOut /\ MastersOut /\ StagesOut /\ PacksOut
  /\ AuditsOut /\ WeightsOut /\ BranchesOut /\ LayoutsOut /\ PacketsOut /\ ConvertsOut /\ RebuildsOut
  /\ BooksOut /\ PaymentsOut /\ FeesOut /\ TrackersOut

LEMMA NextIs ==
  ASSUME Next
  PROVE  /\ UNCHANGED service
         /\ service = "rows" => RunRows
         /\ service = "normalize" => RunNormalize
         /\ service = "merge" => RunMerge
         /\ service = "flatten" => RunFlatten
         /\ service = "idfc" => RunIdfc
         /\ service = "stage 1" => RunStage1
         /\ service = "pack" => RunPack
         /\ service = "audit" => RunAudit
         /\ service = "stage 2" => RunStage2
         /\ service = "pdfs" => RunPdfs
         /\ service = "lay out" => RunLayOut
         /\ service = "packets" => RunPackets
         /\ service = "convert" => RunConvert
         /\ service = "rebuild" => RunRebuild
         /\ service = "sheets" => RunSheets
         /\ service = "payments" => RunPayments
         /\ service = "audits" => RunAudits
         /\ service = "tracker" => RunTracker
<1>1. UNCHANGED service
  BY Zenon DEF Next, RunMerge, RunFlatten, RunConvert, RunRebuild, RunPdfs, RunNormalize, RunIdfc,
            RunStage1, RunPack, RunStage2, RunAudit, RunLayOut, RunPackets, RunRows, RunSheets,
            RunPayments, RunAudits, RunTracker, Call
<1>2. /\ RunMerge => service = "merge"
      /\ RunFlatten => service = "flatten"
      /\ RunConvert => service = "convert"
      /\ RunRebuild => service = "rebuild"
      /\ RunPdfs => service = "pdfs"
      /\ RunNormalize => service = "normalize"
      /\ RunIdfc => service = "idfc"
      /\ RunStage1 => service = "stage 1"
      /\ RunPack => service = "pack"
      /\ RunStage2 => service = "stage 2"
      /\ RunAudit => service = "audit"
      /\ RunLayOut => service = "lay out"
      /\ RunPackets => service = "packets"
      /\ RunRows => service = "rows"
      /\ RunSheets => service = "sheets"
      /\ RunPayments => service = "payments"
      /\ RunAudits => service = "audits"
      /\ RunTracker => service = "tracker"
  BY Zenon DEF RunMerge, RunFlatten, RunConvert, RunRebuild, RunPdfs, RunNormalize, RunIdfc,
            RunStage1, RunPack, RunStage2, RunAudit, RunLayOut, RunPackets, RunRows, RunSheets,
            RunPayments, RunAudits, RunTracker, Call
<1>3. ASSUME service = "rows" PROVE RunRows
  BY <1>2, <1>3, Zenon DEF Next
<1>4. ASSUME service = "normalize" PROVE RunNormalize
  BY <1>2, <1>4, Zenon DEF Next
<1>5. ASSUME service = "merge" PROVE RunMerge
  BY <1>2, <1>5, Zenon DEF Next
<1>6. ASSUME service = "flatten" PROVE RunFlatten
  BY <1>2, <1>6, Zenon DEF Next
<1>7. ASSUME service = "idfc" PROVE RunIdfc
  BY <1>2, <1>7, Zenon DEF Next
<1>8. ASSUME service = "stage 1" PROVE RunStage1
  BY <1>2, <1>8, Zenon DEF Next
<1>9. ASSUME service = "pack" PROVE RunPack
  BY <1>2, <1>9, Zenon DEF Next
<1>10. ASSUME service = "audit" PROVE RunAudit
  BY <1>2, <1>10, Zenon DEF Next
<1>11. ASSUME service = "stage 2" PROVE RunStage2
  BY <1>2, <1>11, Zenon DEF Next
<1>12. ASSUME service = "pdfs" PROVE RunPdfs
  BY <1>2, <1>12, Zenon DEF Next
<1>13. ASSUME service = "lay out" PROVE RunLayOut
  BY <1>2, <1>13, Zenon DEF Next
<1>14. ASSUME service = "packets" PROVE RunPackets
  BY <1>2, <1>14, Zenon DEF Next
<1>15. ASSUME service = "convert" PROVE RunConvert
  BY <1>2, <1>15, Zenon DEF Next
<1>16. ASSUME service = "rebuild" PROVE RunRebuild
  BY <1>2, <1>16, Zenon DEF Next
<1>17. ASSUME service = "sheets" PROVE RunSheets
  BY <1>2, <1>17, Zenon DEF Next
<1>18. ASSUME service = "payments" PROVE RunPayments
  BY <1>2, <1>18, Zenon DEF Next
<1>19. ASSUME service = "audits" PROVE RunAudits
  BY <1>2, <1>19, Zenon DEF Next
<1>20. ASSUME service = "tracker" PROVE RunTracker
  BY <1>2, <1>20, Zenon DEF Next
<1>21. QED
  BY <1>1, <1>3, <1>4, <1>5, <1>6, <1>7, <1>8, <1>9, <1>10, <1>11, <1>12, <1>13, <1>14, <1>15, <1>16, <1>17,
     <1>18, <1>19, <1>20, Zenon

LEMMA CallsAreAnswered == Spec => []Answered
<1>1. Init => Answered
  BY Zenon DEF Init, Answered, RowsOut, ColumnsOut, MergesOut, FlatOut, MastersOut, StagesOut, PacksOut,
     AuditsOut, WeightsOut, BranchesOut, LayoutsOut, PacketsOut, ConvertsOut, RebuildsOut,
     BooksOut, PaymentsOut, FeesOut, TrackersOut
<1>2. Answered /\ [Next]_callVars => Answered'
  <2> SUFFICES ASSUME Answered, [Next]_callVars PROVE Answered'
    OBVIOUS
  <2>1. CASE UNCHANGED callVars
    <3>1. UNCHANGED <<service, called, input, output>>
      BY <2>1, Zenon DEF callVars
    <3>2. RowsOut' /\ ColumnsOut' /\ MergesOut' /\ FlatOut'
      BY <3>1, Zenon DEF Answered, RowsOut, ColumnsOut, MergesOut, FlatOut
    <3>3. MastersOut' /\ StagesOut' /\ PacksOut' /\ AuditsOut' /\ WeightsOut'
      BY <3>1, Zenon DEF Answered, MastersOut, StagesOut, PacksOut, AuditsOut, WeightsOut
    <3>4. BranchesOut' /\ LayoutsOut' /\ PacketsOut' /\ ConvertsOut' /\ RebuildsOut'
      BY <3>1, Zenon DEF Answered, BranchesOut, LayoutsOut, PacketsOut, ConvertsOut, RebuildsOut
    <3>5. BooksOut' /\ PaymentsOut' /\ FeesOut' /\ TrackersOut'
      BY <3>1, Zenon DEF Answered, BooksOut, PaymentsOut, FeesOut, TrackersOut
    <3>6. QED
      BY <3>2, <3>3, <3>4, <3>5, Zenon DEF Answered
  <2>2. CASE Next
    <3>0. UNCHANGED service
      BY <2>2, NextIs, Zenon
    <3>1. RowsOut'
      <4>1. service = "rows" => RunRows
        BY <2>2, NextIs, Zenon
      <4>2. QED
        BY <3>0, <4>1, Zenon DEF RowsOut, RunRows, Call
    <3>2. ColumnsOut'
      <4>1. service = "normalize" => RunNormalize
        BY <2>2, NextIs, Zenon
      <4>2. QED
        BY <3>0, <4>1, Zenon DEF ColumnsOut, RunNormalize, Call
    <3>3. MergesOut'
      <4>1. service = "merge" => RunMerge
        BY <2>2, NextIs, Zenon
      <4>2. QED
        BY <3>0, <4>1, Zenon DEF MergesOut, RunMerge, Call
    <3>4. FlatOut'
      <4>1. service = "flatten" => RunFlatten
        BY <2>2, NextIs, Zenon
      <4>2. QED
        BY <3>0, <4>1, Zenon DEF FlatOut, RunFlatten, Call
    <3>5. MastersOut'
      <4>1. service = "idfc" => RunIdfc
        BY <2>2, NextIs, Zenon
      <4>2. QED
        BY <3>0, <4>1, Zenon DEF MastersOut, RunIdfc, Call
    <3>6. StagesOut'
      <4>1. service = "stage 1" => RunStage1
        BY <2>2, NextIs, Zenon
      <4>2. QED
        BY <3>0, <4>1, Zenon DEF StagesOut, RunStage1, Call
    <3>7. PacksOut'
      <4>1. service = "pack" => RunPack
        BY <2>2, NextIs, Zenon
      <4>2. QED
        BY <3>0, <4>1, Zenon DEF PacksOut, RunPack, Call
    <3>8. AuditsOut'
      <4>1. service = "audit" => RunAudit
        BY <2>2, NextIs, Zenon
      <4>2. QED
        BY <3>0, <4>1, Zenon DEF AuditsOut, RunAudit, Call
    <3>9. WeightsOut'
      <4>1. service = "stage 2" => RunStage2
        BY <2>2, NextIs, Zenon
      <4>2. QED
        BY <3>0, <4>1, Zenon DEF WeightsOut, RunStage2, Call
    <3>10. BranchesOut'
      <4>1. service = "pdfs" => RunPdfs
        BY <2>2, NextIs, Zenon
      <4>2. QED
        BY <3>0, <4>1, Zenon DEF BranchesOut, RunPdfs, Call
    <3>11. LayoutsOut'
      <4>1. service = "lay out" => RunLayOut
        BY <2>2, NextIs, Zenon
      <4>2. QED
        BY <3>0, <4>1, Zenon DEF LayoutsOut, RunLayOut, Call
    <3>12. PacketsOut'
      <4>1. service = "packets" => RunPackets
        BY <2>2, NextIs, Zenon
      <4>2. QED
        BY <3>0, <4>1, Zenon DEF PacketsOut, RunPackets, Call
    <3>13. ConvertsOut'
      <4>1. service = "convert" => RunConvert
        BY <2>2, NextIs, Zenon
      <4>2. QED
        BY <3>0, <4>1, Zenon DEF ConvertsOut, RunConvert, Call
    <3>14. RebuildsOut'
      <4>1. service = "rebuild" => RunRebuild
        BY <2>2, NextIs, Zenon
      <4>2. QED
        BY <3>0, <4>1, Zenon DEF RebuildsOut, RunRebuild, Call
    <3>15. BooksOut'
      <4>1. service = "sheets" => RunSheets
        BY <2>2, NextIs, Zenon
      <4>2. QED
        BY <3>0, <4>1, Zenon DEF BooksOut, RunSheets, Call
    <3>16. PaymentsOut'
      <4>1. service = "payments" => RunPayments
        BY <2>2, NextIs, Zenon
      <4>2. QED
        BY <3>0, <4>1, Zenon DEF PaymentsOut, RunPayments, Call
    <3>17. FeesOut'
      <4>1. service = "audits" => RunAudits
        BY <2>2, NextIs, Zenon
      <4>2. QED
        BY <3>0, <4>1, Zenon DEF FeesOut, RunAudits, Call
    <3>18. TrackersOut'
      <4>1. service = "tracker" => RunTracker
        BY <2>2, NextIs, Zenon
      <4>2. QED
        BY <3>0, <4>1, Zenon DEF TrackersOut, RunTracker, Call
    <3>19. QED
      BY <3>1, <3>2, <3>3, <3>4, <3>5, <3>6, <3>7, <3>8, <3>9, <3>10, <3>11, <3>12, <3>13, <3>14, <3>15, <3>16,
         <3>17, <3>18, Zenon DEF Answered
  <2>3. QED
    BY <2>1, <2>2
<1>3. QED
  BY <1>1, <1>2, PTL DEF Spec

(* Whatever a row says, no pass undoes the reset of a closed or top-up one,   *)
(* the differences Excel shows are those of the weights beside them, and      *)
(* validating the saved row again leaves it as it is (_validate_row in        *)
(* report_validator.py).                                                      *)
THEOREM RowsSettled == Spec => []RowsSettle
<1>1. Answered => RowsSettle
  <2> SUFFICES ASSUME called, service = "rows", input \in Inputs("rows"), output = ValidateRow(input)
               PROVE  /\ ClosedRowsStayReset(input, output)
                      /\ DifferencesAgree(input, output)
                      /\ StaysValid(input, output)
    BY DEF Answered, RowsOut, RowsSettle, After
  <2>1. IsRow(input)
    BY ServicesAssumption
  <2>2. ClosedRowsStayReset(input, output)
    <3>1. CASE Cleaned(input)
      BY <2>1, <3>1, ClosedRows
    <3>2. CASE ~Cleaned(input)
      BY <3>2 DEF ClosedRowsStayReset
    <3>3. QED
      BY <3>1, <3>2
  <2>3. DifferencesAgree(input, output)
    BY <2>1, OpenDifferences
  <2>4. StaysValid(input, output)
    BY <2>1, ClosedStays, OpenStays
  <2>5. QED
    BY <2>2, <2>3, <2>4
<1>2. QED
  BY <1>1, CallsAreAnswered, PTL

(* Whatever is in a column, purities mean the same once and again, codes that *)
(* differ stay apart and workbook and PDF show the same (arvog_columns.py).   *)
THEOREM ColumnsSettled == Spec => []ColumnsKept
<1>1. Answered => ColumnsKept
  <2> SUFFICES ASSUME called, service = "normalize", input \in Inputs("normalize"),
                      output = NormalizeColumn(input.kind, input.column)
               PROVE  /\ input.kind = "percent" => PurityOnOneScale(input.column, output)
                      /\ input.kind = "identifier" => CodesStayApart(input.column, output)
                      /\ OutputsAgree(input.kind, output)
    BY DEF Answered, ColumnsOut, ColumnsKept, After
  <2>1. IsColumn(input.kind, input.column)
    BY ServicesAssumption
  <2>2. ASSUME input.kind = "percent" PROVE PurityOnOneScale(input.column, output)
    BY <2>1, <2>2, Purities
  <2>3. ASSUME input.kind = "identifier" PROVE CodesStayApart(input.column, output)
    BY <2>3, Codes
  <2>4. OutputsAgree(input.kind, output)
    BY <2>1, Outputs
  <2>5. QED
    BY <2>2, <2>3, <2>4
<1>2. QED
  BY <1>1, CallsAreAnswered, PTL

(* Whatever folders and PDFs a merge is given, every readable page of every   *)
(* branch is in the zip, under a name no other branch has on any file system, *)
(* or what was left out is noted; and a flattened PDF has no form, and its    *)
(* summary accounts for every annotation (pdf_merger.py, pdf_flattener.py).   *)
THEOREM PdfsSettled == Spec => []PdfsKept
<1>1. Answered => PdfsKept
  <2>1. ASSUME MergesOut, called, service = "merge" PROVE MergeKeepsPages(input, output)
    <3>1. IsRoot(input) /\ output = MergeFolder(input)
      BY <2>1, ServicesAssumption DEF MergesOut
    <3>2. QED
      BY <3>1, MergeKeeps
  <2>2. ASSUME FlatOut, called, service = "flatten" PROVE FlattenIsFinal(input, output)
    <3>1. IsDocument(input) /\ output = Flatten(input)
      BY <2>2, ServicesAssumption DEF FlatOut
    <3>2. QED
      BY <3>1, FlattenKeeps
  <2>3. QED
    BY <2>1, <2>2 DEF Answered, PdfsKept, After
<1>2. QED
  BY <1>1, CallsAreAnswered, PTL

(* Whatever is in a master, every account of an IDFC one is printed once, in  *)
(* its branch's report; every packet of an Equitas one is in its branch's     *)
(* workbook once and on a page of its PDF, unless that branch failed, was not *)
(* reached before a cancel, or shares its file's name; and packing leaves     *)
(* what was asked for in a directory or a ZIP (idfc.py, equitas.py,           *)
(* workers.py).                                                               *)
THEOREM ReportsSettled == Spec => []ReportsComplete
<1>1. Answered => ReportsComplete
  <2>1. ASSUME MastersOut, called, service = "idfc" PROVE AccountsArePrinted(input.book, input.pattern, output)
    <3>1. IsMaster(input.book) /\ output = IdfcReports(input.book, input.pattern)
      BY <2>1, ServicesAssumption, Zenon DEF MastersOut
    <3>2. QED
      BY <3>1, AccountsPrinted, Zenon
  <2>2. ASSUME StagesOut, called, service = "stage 1" PROVE PacketsAreAudited(input, output)
    <3>1. IsBook(input.book) /\ output = Stage1(input)
      BY <2>2, ServicesAssumption, Zenon DEF StagesOut
    <3>2. QED
      BY <3>1, PacketsAudited, Zenon
  <2>3. ASSUME PacksOut, called, service = "pack"
        PROVE  NothingUnpacked(input[1], input[2], input[3], output)
    BY <2>3, PackKeeps, Zenon DEF PacksOut
  <2>4. QED
    BY <2>1, <2>2, <2>3, Zenon DEF Answered, ReportsComplete, After
<1>2. QED
  BY <1>1, CallsAreAnswered, PTL

(* Whatever an auditor filled in, an account's rows carry the bank's weights,  *)
(* the audited ones and the issues into the second stage without a gram or a   *)
(* remark lost, and what was entered for a packet is what its report says      *)
(* (equitas.py).                                                               *)
THEOREM AuditsSettled == Spec => []AuditReported
<1>1. Answered => AuditReported
  <2>1. ASSUME AuditsOut, called, service = "audit" PROVE AuditReachesReport(input.rows, input.entries, output)
    <3>1. IsAudit(input.rows, input.entries) /\ output = Stage2(FillIn(input.rows, input.entries))
      BY <2>1, ServicesAssumption, Zenon DEF AuditsOut
    <3>2. QED
      BY <3>1, AuditReaches, Zenon
  <2>2. ASSUME WeightsOut, called, service = "stage 2" PROVE WeightsAreKept(input, output)
    <3>1. IsFilled(input) /\ output = Consolidate(input)
      BY <2>2, ServicesAssumption, Zenon DEF WeightsOut
    <3>2. QED
      BY <3>1, WeightsKept, Zenon
  <2>3. QED
    BY <2>1, <2>2, Zenon DEF Answered, AuditReported, After
<1>2. QED
  BY <1>1, CallsAreAnswered, PTL

(* Whatever a sheet and a PDF list, the layout keeps each row once, at the     *)
(* place the PDF gives it, its relative references to itself with it and its   *)
(* others as written; a packet is on two rows only                             *)
(* when they are coloured for it or one took it from the only other holder of  *)
(* its name; and a packet of a common length is not called a break of its      *)
(* series (rearrange_rows_by_pdf, resolve_missing_packet, check_packet).       *)
THEOREM SheetsSettled == Spec => []SheetKept
<1>1. Answered => SheetKept
  <2>1. ASSUME LayoutsOut, called, service = "lay out" PROVE RowsFollowPdf(input.rows, input.numbers, output)
    <3>1. IsLayout(input.rows, input.numbers) /\ output = LayOut(input.rows, input.numbers)
      BY <2>1, ServicesAssumption, Zenon DEF LayoutsOut
    <3>2. QED
      BY <3>1, RowsFollow, Zenon
  <2>2. ASSUME PacketsOut, called, service = "packets"
        PROVE  PacketsAccounted(input, output) /\ SeriesAreKept(input, output)
    <3>1. IsPacketSheet(input) /\ output = Packets(input)
      BY <2>2, ServicesAssumption, Zenon DEF PacketsOut
    <3>2. QED
      BY <3>1, AccountedFor, SeriesKept, Zenon
  <2>3. QED
    BY <2>1, <2>2, Zenon DEF Answered, SheetKept, After
<1>2. QED
  BY <1>1, CallsAreAnswered, PTL

(* Whatever a wide master holds, each of its ornaments is a row of the audit   *)
(* sheet, in the master's order and with its own figures, under a block for    *)
(* the auditor that is there once; and whatever names the branches, each row   *)
(* is in the PDF of the last branch named above it (arvog.py).                 *)
THEOREM OrnamentsSettled == Spec => []OrnamentsKept
<1>1. Answered => OrnamentsKept
  <2>1. ASSUME ConvertsOut, called, service = "convert" PROVE EveryOrnament(input.figures, output)
    <3>1. IsWide(input.sheet, input.figures) /\ output = Convert(input.sheet)
      BY <2>1, ServicesAssumption, Zenon DEF ConvertsOut
    <3>2. QED
      BY <3>1, OrnamentsHold, Zenon
  <2>2. ASSUME BranchesOut, called, service = "pdfs" PROVE PdfForEachOrnament(input)
    <3>1. IsSequence(input.rows)
      BY <2>2, ServicesAssumption, Zenon DEF BranchesOut
    <3>2. QED
      BY <3>1, PdfsHold, Zenon
  <2>3. QED
    BY <2>1, <2>2, Zenon DEF Answered, OrnamentsKept, After
<1>2. QED
  BY <1>1, CallsAreAnswered, PTL

(* Whatever an auditor filled in, the sheet folded into a wide one with a row  *)
(* for each loan reads back as the sheet it was made from, no figure or        *)
(* heading lost, and each of its formulas still reads what it read             *)
(* (rebuild_wide_workbook in arvog_rebuild.py).                                *)
THEOREM FoldsSettled == Spec => []FoldedBack
<1>1. Answered => FoldedBack
  <2>1. ASSUME RebuildsOut, called, service = "rebuild"
        PROVE  RoundTrip(input, output.sheet) /\ FormulasMeanTheSame(input, output.sheet)
    <3>1. IsAuditSheet(input) /\ output = Rebuild(input)
      BY <2>1, ServicesAssumption, Zenon DEF RebuildsOut
    <3>2. QED
      BY <3>1, RebuildsRight, Zenon
  <2>2. QED
    BY <2>1, Zenon DEF Answered, FoldedBack, After
<1>2. QED
  BY <1>1, CallsAreAnswered, PTL

(* Whatever workbooks are consolidated, the only sheet that clearly lists      *)
(* payments, and the only clear master, are read as that; a payment whose      *)
(* total is not stated is the sum of every amount of its row, each column      *)
(* counted once; an auditor is paid for every visit; a phone number is never   *)
(* passed on as a PAN, nor lost; and every payment is in the tracker once, in  *)
(* its total and with its zone (identify_sheets, normalize_pt_sheet,           *)
(* normalize_md_sheet and consolidate_in_memory in consolidate.py).            *)
THEOREM TrackerSettled == Spec => []TrackerAddsUp
<1>1. Answered => TrackerAddsUp
  <2>1. ASSUME BooksOut, called, service = "sheets" PROVE ClearSheetsAreRead(input, output)
    <3>1. IsSequence(input) /\ output = IdentifySheets(input)
      BY <2>1, ServicesAssumption, Zenon DEF BooksOut
    <3>2. QED
      BY <3>1, SheetsAreRead, Zenon
  <2>2. ASSUME PaymentsOut, called, service = "payments"
        PROVE  PayAddsUp(input.sheet, input.known, output) /\ PanIsAPan(input.sheet, input.known, output)
    <3>1. IsSheet(input.sheet) /\ output = PtRows(input.sheet, 1, input.known)
      BY <2>2, ServicesAssumption, Zenon DEF PaymentsOut
    <3>2. QED
      BY <3>1, PayIsTheSum, PansArePans, Zenon
  <2>3. ASSUME FeesOut, called, service = "audits" PROVE VisitsArePaid(input, output)
    <3>1. IsSheet(input) /\ output = MdRows(input, 1, Unhinted)
      BY <2>3, ServicesAssumption, Zenon DEF FeesOut
    <3>2. \A role \in {"assayerFee", "visits", "fee1"} : Unhinted[role] = NothingKnown
      BY DEF Unhinted, MdNames
    <3>3. /\ Unhinted["assayerFee"] = NothingKnown /\ Unhinted["visits"] = NothingKnown
          /\ Unhinted["fee1"] = NothingKnown
      BY <3>2
    <3>4. QED
      BY <3>1, <3>3, EveryVisitIsPaid, Zenon
  <2>4. ASSUME TrackersOut, called, service = "tracker"
        PROVE  TrackerComplete(input, PaymentsRead(input, Unhinted), output)
    <3>1. AreBooks(input) /\ output = Tracker(input, Unhinted)
      BY <2>4, ServicesAssumption, Zenon DEF TrackersOut, AreBooks
    <3>2. QED
      BY <3>1, PaymentsAreComplete, Zenon
  <2>5. QED
    BY <2>1, <2>2, <2>3, <2>4, Zenon DEF Answered, TrackerAddsUp, TrackerIsWhole, After
<1>2. QED
  BY <1>1, CallsAreAnswered, PTL

=============================================================================
