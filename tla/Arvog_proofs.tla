---------------------------- MODULE Arvog_proofs ----------------------------
(***************************************************************************)
(* Proofs about Arvog: what a conversion makes of any wide master, which   *)
(* branch's PDF a row is in, and what a fold makes of any audit sheet an   *)
(* auditor filled in.                                                      *)
(***************************************************************************)
EXTENDS Arvog, Lists_proofs

-----------------------------------------------------------------------------
(* The headings are told apart: the names of the ornaments, and these from    *)
(* the figures'.                                                              *)
LEMMA RangeOfThree ==
  ASSUME NEW x, NEW y, NEW z
  PROVE  /\ Range(<<x, y, z>>) = {x, y, z} /\ IsSequence(<<x, y, z>>) /\ Len(<<x, y, z>>) = 3
         /\ DOMAIN <<x, y, z>> = 1..3
<1>1. IsSequence(<<x, y, z>>) /\ Len(<<x, y, z>>) = 3
  BY DEF IsSequence
<1>2. DOMAIN <<x, y, z>> = {1, 2, 3}
  OBVIOUS
<1>3. Range(<<x, y, z>>) = {x, y, z}
  BY <1>2 DEF Range
<1>4. QED
  BY <1>1, <1>2, <1>3

LEMMA ThreeItems ==
  ASSUME NEW s, NEW x, NEW y, NEW z, s = <<x, y, z>>, NEW j \in 1..Len(s)
  PROVE  (j = 1 /\ s[j] = x) \/ (j = 2 /\ s[j] = y) \/ (j = 3 /\ s[j] = z)
OBVIOUS

LEMMA AnchorsAre ==
  /\ Anchor(1) = "Jewellery1" /\ Anchor(2) = "Jewellery2"
  /\ Anchor(3) = "Jewellery3" /\ Anchor(4) = "Jewellery4"
BY DEF Anchor

LEMMA AnchorsDiffer ==
  ASSUME NEW m \in Numbers, NEW n \in Numbers, Anchor(m) = Anchor(n)
  PROVE  m = n
<1>1. m \in {1, 2, 3, 4} /\ n \in {1, 2, 3, 4}
  BY DEF Numbers
<1>2. QED
  BY <1>1, AnchorsAre

LEMMA FigureNames ==
  ASSUME NEW h \in Range(DATA_ATTR_ORDER)
  PROVE  h # AUDIT_BLOCK_COLUMNS[1] /\ \A n \in Numbers : h # Anchor(n)
<1>1. h \in {"Gross Wt.", "Stone Wt.", "Karat"}
  BY RangeOfThree, Zenon DEF DATA_ATTR_ORDER
<1>2. AUDIT_BLOCK_COLUMNS[1] = "Count of Ornament"
  <2>1. \A x, y, z : <<x, y, z>>[1] = x
    OBVIOUS
  <2>2. QED
    BY <2>1, Zenon DEF AUDIT_BLOCK_COLUMNS
<1>3. \A n \in Numbers : Anchor(n) \in {"Jewellery1", "Jewellery2", "Jewellery3", "Jewellery4"}
  <2>1. \A n \in Numbers : n \in {1, 2, 3, 4}
    BY DEF Numbers
  <2>2. QED
    BY <2>1, AnchorsAre, Zenon
<1>4. h # AUDIT_BLOCK_COLUMNS[1]
  BY <1>1, <1>2, Zenon
<1>5. ASSUME NEW n \in Numbers PROVE h # Anchor(n)
  BY <1>1, <1>3, Zenon
<1>6. QED
  BY <1>4, <1>5, Zenon

(* A block runs from its name to the next name or the end of the headings.    *)
RunsTo(hs, a, last) ==
  a \in DOMAIN hs /\ last \in a..Len(hs) /\ (last # Len(hs) => last + 1 \in Anchors(hs))

(* A figure is the first of its heading, before the auditor's block.          *)
FindsFigures(hs, a, data) ==
  \A h \in Range(DATA_ATTR_ORDER), c \in DOMAIN hs :
    a < c /\ hs[c] = h
      /\ (\A i \in (a + 1)..(c - 1) :
            i \notin Anchors(hs) /\ hs[i] # AUDIT_BLOCK_COLUMNS[1] /\ hs[i] # h)
    => h \in DOMAIN data /\ data[h] = c

LEMMA BlockIs ==
  ASSUME NEW hs, IsSequence(hs), NEW a, NEW last, RunsTo(hs, a, last),
         NEW n \in Numbers, hs[a] = Anchor(n)
  PROVE  /\ BlockOf(hs, a, last).name = a /\ BlockOf(hs, a, last).number = n
         /\ FindsFigures(hs, a, BlockOf(hs, a, last).data)
<1> DEFINE b == BlockOf(hs, a, last)
           split == SplitAt(hs, a + 1, last)
           names == Range(DATA_ATTR_ORDER)
           audit == AUDIT_BLOCK_COLUMNS[1]
<1>1. /\ b.name = a /\ b.number = (CHOOSE m \in Numbers : hs[a] = Anchor(m))
      /\ b.data = FirstOf(hs, names, a + 1, split - 1)
  BY Zenon DEF BlockOf
<1>2. b.number = n
  <2>1. \A m \in Numbers : hs[a] = Anchor(m) <=> m = n
    BY AnchorsDiffer, Zenon
  <2>2. QED
    BY <1>1, <2>1, Zenon
<1> HIDE DEF b, names, audit, split
<1>3. DOMAIN hs = 1..Len(hs) /\ Len(hs) \in Nat
  BY DEF IsSequence
<1>a. a \in Nat /\ last \in Nat /\ a <= last /\ last <= Len(hs)
  <2>1. a \in DOMAIN hs /\ last \in a..Len(hs)
    BY Zenon DEF RunsTo
  <2>2. QED
    BY <1>3, <2>1
<1>4. ASSUME NEW h \in names, NEW c \in DOMAIN hs, a < c, hs[c] = h,
             \A i \in (a + 1)..(c - 1) : i \notin Anchors(hs) /\ hs[i] # audit /\ hs[i] # h
      PROVE  h \in DOMAIN b.data /\ b.data[h] = c
  <2>a. c \in Nat /\ c <= Len(hs) /\ a < c /\ hs[c] = h
    <3>1. c \in 1..Len(hs)
      BY <1>3
    <3>2. QED
      BY <1>3, <1>4, <3>1
  <2>b. \A i \in (a + 1)..(c - 1) : hs[i] # audit /\ hs[i] # h
    BY <1>4, Zenon
  <2>1. h # audit /\ \A m \in Numbers : h # Anchor(m)
    BY <1>4, FigureNames, Zenon DEF names, audit
  <2>2. c \notin Anchors(hs)
    BY <1>4, <2>1, Zenon DEF Anchors
  <2>3. c <= last
    <3>1. CASE last = Len(hs)
      BY <2>a, <3>1
    <3>2. CASE last # Len(hs)
      <4>1. last + 1 \in Anchors(hs)
        BY <3>2, Zenon DEF RunsTo
      <4>2. last + 1 # c /\ last + 1 \notin (a + 1)..(c - 1)
        BY <1>4, <2>2, <4>1
      <4>3. QED
        BY <1>a, <2>a, <4>2
    <3>3. QED
      BY <3>1, <3>2
  <2> DEFINE at == {i \in (a + 1)..last : hs[i] = audit}
  <2>4. split = IF at = {} THEN last + 1 ELSE Min(at)
    BY Zenon DEF SplitAt, audit, split
  <2>5. split \in Nat /\ c < split
    <3>1. CASE at = {}
      <4> HIDE DEF at, split
      <4>1. QED
        BY <1>a, <2>a, <2>3, <2>4, <3>1
    <3>2. CASE at # {}
      <4>1. at \subseteq Nat /\ \A i \in at : i \in (a + 1)..last /\ hs[i] = audit
        BY <1>a
      <4> HIDE DEF at, split
      <4>2. split \in at
        BY <2>4, <3>2, <4>1, MinIs
      <4>3. split \in Nat /\ a + 1 <= split /\ hs[split] = audit
        BY <1>a, <4>1, <4>2
      <4>4. split # c
        BY <2>a, <2>1, <4>3, Zenon
      <4>5. split \notin (a + 1)..(c - 1)
        BY <2>b, <4>3, Zenon
      <4>6. QED
        BY <1>a, <2>a, <4>3, <4>4, <4>5
    <3>3. QED
      BY <3>1, <3>2
  <2> HIDE DEF at, split
  <2> DEFINE P(g) == {i \in (a + 1)..(split - 1) : hs[i] = g}
             D == {g \in names : \E i \in (a + 1)..(split - 1) : hs[i] = g}
  <2>6. b.data = [g \in D |-> Min(P(g))]
    BY <1>1, Zenon DEF FirstOf, b, names, split
  <2>7. c \in P(h) /\ P(h) \subseteq Nat /\ P(h) # {} /\ h \in D
    <3>1. c \in (a + 1)..(split - 1) /\ (a + 1)..(split - 1) \subseteq Nat
      BY <1>a, <2>a, <2>5
    <3>2. QED
      BY <1>4, <2>a, <3>1
  <2>8. \A y \in P(h) : c <= y
    <3>1. ASSUME NEW y \in P(h) PROVE c <= y
      <4>1. y \in Nat /\ a + 1 <= y /\ hs[y] = h
        BY <1>a, <2>5, <3>1
      <4>2. y \notin (a + 1)..(c - 1)
        BY <2>b, <4>1, Zenon
      <4>3. QED
        BY <1>a, <2>a, <4>1, <4>2
    <3>2. QED
      BY <3>1
  <2>9. Min(P(h)) \in P(h) /\ Min(P(h)) <= c
    <3> DEFINE T == P(h)
    <3>1. T \subseteq Nat /\ T # {} /\ c \in T
      BY <2>7
    <3> HIDE DEF T
    <3>2. Min(T) \in T /\ Min(T) <= c
      BY <3>1, MinIs
    <3>3. QED
      BY <3>2 DEF T
  <2>10. Min(P(h)) = c
    <3>1. Min(P(h)) \in Nat /\ c <= Min(P(h)) /\ c \in Nat
      BY <2>7, <2>8, <2>9
    <3>2. QED
      BY <2>9, <3>1
  <2>11. QED
    BY <2>6, <2>7, <2>10
<1>5. QED
  BY <1>1, <1>2, <1>4, Zenon DEF b, names, audit, FindsFigures

(* What a block says of its ornament's name, number and figures.              *)
IsBlock(sheet, b) ==
  /\ b.number \in Numbers /\ b.name \in DOMAIN sheet.headers
  /\ sheet.headers[b.name] = Anchor(b.number)
  /\ \A h \in Range(DATA_ATTR_ORDER) :
       /\ h \in DOMAIN b.data
       /\ \A r \in DOMAIN sheet.rows : HasRing(sheet, b.name, r, b.number) =>
            CellAt(sheet.rows[r], b.data[h]) = Value(<<h, r, b.number>>)

LEMMA BlocksAre ==
  ASSUME NEW sheet, NEW figures, IsWide(sheet, figures)
  PROVE  LET bs == BlocksOf(sheet.headers) IN
         /\ IsSequence(bs) /\ \A p \in 1..Len(bs) : IsBlock(sheet, bs[p])
         /\ \A p, q \in 1..Len(bs) : p < q => bs[p].name < bs[q].name
         /\ \A a \in Anchors(sheet.headers) : \E p \in 1..Len(bs) : bs[p].name = a
<1> DEFINE hs == sheet.headers
           A == Anchors(hs)
           at == InOrder(A)
           bs == BlocksOf(hs)
           end(p) == IF p < Len(at) THEN at[p + 1] - 1 ELSE Len(hs)
<1>1. IsSequence(hs)
  BY Zenon DEF IsWide
<1>2. DOMAIN hs = 1..Len(hs) /\ Len(hs) \in Nat
  BY <1>1 DEF IsSequence
<1>3. \A a : a \in A <=> a \in DOMAIN hs /\ \E n \in Numbers : hs[a] = Anchor(n)
  BY Zenon DEF Anchors
<1>4. bs = [p \in DOMAIN at |-> BlockOf(hs, at[p], end(p))]
  BY Zenon DEF BlocksOf
<1> HIDE DEF A, at, bs, hs
<1>5. /\ IsSequence(at) /\ \A i \in 1..Len(at) : at[i] \in A
      /\ \A i, j \in 1..Len(at) : i < j => at[i] < at[j]
      /\ \A a \in A : \E i \in 1..Len(at) : at[i] = a
  <2>1. A \subseteq 1..Len(hs)
    BY <1>2, <1>3
  <2>2. QED
    BY <1>2, <2>1, InOrderIs DEF at
<1>6. DOMAIN at = 1..Len(at) /\ Len(at) \in Nat
  BY <1>5 DEF IsSequence
<1>7. \A p \in 1..Len(at) : bs[p] = BlockOf(hs, at[p], end(p))
  BY <1>4, <1>6, Zenon
<1>8. IsSequence(bs) /\ Len(bs) = Len(at)
  <2>1. DOMAIN bs = 1..Len(at) /\ bs = [p \in 1..Len(at) |-> bs[p]]
    <3> DEFINE F(p) == BlockOf(hs, at[p], end(p))
    <3>1. bs = [p \in 1..Len(at) |-> F(p)]
      BY <1>4, <1>6, Zenon
    <3> HIDE DEF F
    <3>2. QED
      BY <3>1
  <2>2. QED
    BY <1>6, <2>1, AsSequence
<1>9. ASSUME NEW p \in 1..Len(at) PROVE bs[p].name = at[p] /\ IsBlock(sheet, bs[p])
  <2> DEFINE a == at[p]
             last == end(p)
             b == bs[p]
  <2>1. a \in A /\ a \in 1..Len(hs)
    BY <1>2, <1>3, <1>5
  <2>2. PICK n \in Numbers : hs[a] = Anchor(n)
    BY <1>3, <2>1, Zenon
  <2>3. last \in a..Len(hs) /\ (last # Len(hs) => last + 1 \in A)
    <3>1. CASE p < Len(at)
      <4>1. p + 1 \in 1..Len(at) /\ p < p + 1 /\ p \in 1..Len(at)
        BY <1>6, <3>1
      <4>2. at[p + 1] \in A /\ at[p] < at[p + 1]
        BY <1>5, <4>1
      <4>3. at[p + 1] \in 1..Len(hs) /\ last = at[p + 1] - 1
        BY <1>2, <1>3, <3>1, <4>2
      <4>4. last \in a..Len(hs)
        <5>1. a \in Nat /\ a < at[p + 1] /\ at[p + 1] \in Nat /\ at[p + 1] <= Len(hs)
          BY <2>1, <4>2, <4>3
        <5> HIDE DEF a, last
        <5>2. QED
          BY <1>2, <4>3, <5>1
      <4>5. last + 1 = at[p + 1]
        <5> HIDE DEF last
        <5>1. QED
          BY <4>3
      <4>6. QED
        BY <4>2, <4>4, <4>5, Zenon
    <3>2. CASE ~(p < Len(at))
      <4>1. last = Len(hs)
        BY <3>2
      <4> HIDE DEF last, a
      <4>2. QED
        BY <1>2, <2>1, <4>1
    <3>3. QED
      BY <3>1, <3>2, Zenon
  <2>4. RunsTo(hs, a, last)
    BY <1>2, <2>1, <2>3, Zenon DEF RunsTo, A
  <2>5. b = BlockOf(hs, a, last)
    BY <1>7, Zenon
  <2> HIDE DEF a, last, b
  <2>6. /\ b.name = a /\ b.number = n
        /\ FindsFigures(hs, a, b.data)
    <3>1. /\ BlockOf(hs, a, last).name = a /\ BlockOf(hs, a, last).number = n
          /\ FindsFigures(hs, a, BlockOf(hs, a, last).data)
      BY <1>1, <2>2, <2>4, BlockIs
    <3>2. QED
      BY <2>5, <3>1, Zenon
  <2>7. ASSUME NEW h \in Range(DATA_ATTR_ORDER)
        PROVE  /\ h \in DOMAIN b.data
               /\ \A r \in DOMAIN sheet.rows : HasRing(sheet, a, r, n) =>
                    CellAt(sheet.rows[r], b.data[h]) = Value(<<h, r, n>>)
    <3>1. HasFigure(sheet, a, n, h)
      BY <1>2, <2>1, <2>2, Zenon DEF IsWide, hs
    <3>2. PICK c \in DOMAIN hs :
            /\ a < c /\ hs[c] = h
            /\ \A i \in (a + 1)..(c - 1) :
                 /\ i \notin Anchors(hs) /\ hs[i] # AUDIT_BLOCK_COLUMNS[1] /\ hs[i] # h
            /\ \A r \in DOMAIN sheet.rows :
                 HasRing(sheet, a, r, n) => CellAt(sheet.rows[r], c) = Value(<<h, r, n>>)
      BY <3>1, Zenon DEF HasFigure, hs
    <3>3. h \in DOMAIN b.data /\ b.data[h] = c
      BY <2>6, <3>2, Zenon DEF FindsFigures
    <3>4. QED
      BY <3>2, <3>3, Zenon
  <2>8. b.name = at[p] /\ b.name \in DOMAIN hs
    BY <1>2, <2>1, <2>6, Zenon DEF a
  <2>9. IsBlock(sheet, b)
    BY <2>2, <2>6, <2>7, <2>8, Zenon DEF IsBlock, hs
  <2>10. QED
    BY <2>8, <2>9, Zenon DEF b
<1>10. \A p \in 1..Len(bs) : IsBlock(sheet, bs[p])
  BY <1>8, <1>9, Zenon
<1>11. ASSUME NEW p \in 1..Len(bs), NEW q \in 1..Len(bs), p < q PROVE bs[p].name < bs[q].name
  <2>1. bs[p].name = at[p] /\ bs[q].name = at[q] /\ p \in 1..Len(at) /\ q \in 1..Len(at)
    BY <1>8, <1>9, Zenon
  <2>2. QED
    BY <1>5, <1>11, <2>1, Zenon
<1>12. \A a \in A : \E p \in 1..Len(bs) : bs[p].name = a
  BY <1>5, <1>8, <1>9, Zenon
<1>13. QED
  BY <1>8, <1>10, <1>11, <1>12, Zenon DEF bs, A, hs

(* The blocks in their order, up to the cap.                                  *)
LEMMA OrnamentsAre ==
  ASSUME NEW sheet, NEW figures, IsWide(sheet, figures)
  PROVE  LET bs == MapOrnaments(sheet.headers) IN
         /\ IsSequence(bs)
         /\ \A p \in 1..Len(bs) : IsBlock(sheet, bs[p]) /\ bs[p].number <= MAX_ORNAMENTS
         /\ \A p, q \in 1..Len(bs) : p < q => bs[p].number < bs[q].number
         /\ \A a \in DOMAIN sheet.headers, n \in 1..MAX_ORNAMENTS :
              sheet.headers[a] = Anchor(n) => \E p \in 1..Len(bs) : bs[p].name = a /\ bs[p].number = n
<1> DEFINE hs == sheet.headers
           all == BlocksOf(hs)
           K == {b \in Range(all) : b.number <= MAX_ORNAMENTS}
           bs == MapOrnaments(hs)
           from == Chosen(all, K)
<1>1. bs = Kept(all, K)
  BY Zenon DEF MapOrnaments
<1>2. /\ IsSequence(all) /\ \A p \in 1..Len(all) : IsBlock(sheet, all[p])
      /\ \A p, q \in 1..Len(all) : p < q => all[p].name < all[q].name
      /\ \A a \in Anchors(hs) : \E p \in 1..Len(all) : all[p].name = a
  BY BlocksAre, Zenon
<1>3. \A b : b \in K <=> b \in Range(all) /\ b.number <= MAX_ORNAMENTS
  OBVIOUS
<1> HIDE DEF bs, all, K
<1>4. IsSequence(bs) /\ KeptInOrder(all, K)
  BY <1>1, <1>2, KeptIs, Zenon
<1>5. DOMAIN bs = 1..Len(bs) /\ DOMAIN all = 1..Len(all)
  BY <1>2, <1>4 DEF IsSequence
<1>6. /\ \A p \in 1..Len(bs) : from[p] \in 1..Len(all) /\ bs[p] = all[from[p]] /\ bs[p] \in K
      /\ \A p, q \in 1..Len(bs) : p < q => from[p] < from[q]
      /\ \A a \in 1..Len(all) : all[a] \in K => \E p \in 1..Len(bs) : from[p] = a
  BY <1>1, <1>4, <1>5, Zenon DEF KeptInOrder
<1>7. \A p \in 1..Len(bs) : IsBlock(sheet, bs[p]) /\ bs[p].number <= MAX_ORNAMENTS
  BY <1>2, <1>3, <1>6, Zenon
<1>8. ASSUME NEW p \in 1..Len(bs), NEW q \in 1..Len(bs), p < q PROVE bs[p].number < bs[q].number
  <2>1. bs[p].name < bs[q].name
    BY <1>2, <1>6, <1>8, Zenon
  <2>2. IsBlock(sheet, bs[p]) /\ IsBlock(sheet, bs[q])
    BY <1>7, Zenon
  <2>3. \A a, b \in DOMAIN hs, m, n \in Numbers : hs[a] = Anchor(m) /\ hs[b] = Anchor(n) /\ a < b => m < n
    BY Zenon DEF IsWide
  <2>4. QED
    BY <2>1, <2>2, <2>3, Zenon DEF IsBlock
<1>9. ASSUME NEW a \in DOMAIN hs, NEW n \in 1..MAX_ORNAMENTS, hs[a] = Anchor(n)
      PROVE  \E p \in 1..Len(bs) : bs[p].name = a /\ bs[p].number = n
  <2>1. n \in Numbers /\ n <= MAX_ORNAMENTS
    <3>1. \A m : m \in 1..MAX_ORNAMENTS => m \in Numbers /\ m <= MAX_ORNAMENTS
      BY DEF Numbers, MAX_ORNAMENTS
    <3>2. QED
      BY <3>1, Zenon
  <2>2. a \in Anchors(hs)
    BY <1>9, <2>1, Zenon DEF Anchors
  <2>3. PICK q \in 1..Len(all) : all[q].name = a
    BY <1>2, <2>2, Zenon
  <2>4. all[q].number = n
    <3>1. all[q].number \in Numbers /\ hs[a] = Anchor(all[q].number)
      BY <1>2, <2>3, Zenon DEF IsBlock
    <3>2. QED
      BY <1>9, <2>1, <3>1, AnchorsDiffer, Zenon
  <2>5. all[q] \in K
    <3>1. all[q] \in Range(all)
      BY <1>5, Zenon DEF Range
    <3>2. QED
      BY <1>3, <2>1, <2>4, <3>1, Zenon
  <2>6. QED
    BY <1>6, <2>3, <2>4, <2>5, Zenon
<1>10. QED
  BY <1>4, <1>7, <1>8, <1>9, Zenon DEF bs, hs

(* An ornament's name is neither nothing nor "-".                             *)
LEMMA RingIsAName ==
  ASSUME NEW r, NEW n
  PROVE  Value(<<"ring", r, n>>) # Nothing /\ Value(<<"ring", r, n>>) # Dash
<1>1. \A x, y, z, w : <<x, y, z>> # <<w>>
  <2>1. \A x, y, z, w : Len(<<x, y, z>>) = 3 /\ Len(<<w>>) = 1
    OBVIOUS
  <2>2. QED
    BY <2>1
<1>2. ASSUME NEW p, NEW q, Value(p) = Value(q) PROVE p = q
  <2>1. Value(p).of = p /\ Value(q).of = q
    BY DEF Value
  <2>2. QED
    BY <1>2, <2>1, Zenon
<1>3. \A p : Value(p) # Nothing
  BY DEF Value, Nothing
<1>4. Value(<<"ring", r, n>>) # Value(<<"-">>)
  BY <1>1, <1>2, Zenon
<1>5. QED
  BY <1>3, <1>4, Zenon DEF Dash

LEMMA ColumnsAre ==
  /\ IsSequence(LEADING_COLUMNS) /\ IsSequence(TRAILING_COLUMNS) /\ IsSequence(DATA_ATTR_ORDER)
  /\ Len(DATA_ATTR_ORDER) = 3
<1>1. \A x, y : IsSequence(<<x, y>>)
  BY DEF IsSequence
<1>2. QED
  BY <1>1, RangeOfThree, Zenon DEF LEADING_COLUMNS, TRAILING_COLUMNS, DATA_ATTR_ORDER

LEMMA PresentIs ==
  ASSUME NEW cols, IsSequence(cols), NEW hs
  PROVE  IsSequence(Present(cols, hs)) /\ \A i \in 1..Len(Present(cols, hs)) : Present(cols, hs)[i] \in Range(cols)
BY KeptIs, Zenon DEF Present

(* The row of an ornament: the loan's cells, the name, the figures.           *)
Line(sheet, r, n, line) ==
  \E lead, x, trail :
    /\ IsSequence(lead) /\ Len(lead) = Len(Present(LEADING_COLUMNS, sheet.headers))
    /\ IsSequence(trail) /\ Len(trail) = Len(Present(TRAILING_COLUMNS, sheet.headers))
    /\ line = lead \o <<x, Value(<<"ring", r, n>>)>>
                \o [j \in DOMAIN DATA_ATTR_ORDER |-> Value(<<DATA_ATTR_ORDER[j], r, n>>)] \o trail

LEMMA LoanCellsAre ==
  ASSUME NEW hs, NEW row, NEW cols, IsSequence(cols), NEW first
  PROVE  IsSequence(LoanCells(hs, row, cols, first)) /\ Len(LoanCells(hs, row, cols, first)) = Len(cols)
<1> DEFINE cells == LoanCells(hs, row, cols, first)
<1>1. DOMAIN cols = 1..Len(cols) /\ Len(cols) \in Nat
  BY DEF IsSequence
<1>2. DOMAIN cells = 1..Len(cols) /\ cells = [i \in 1..Len(cols) |-> cells[i]]
  <2> DEFINE F(j) == LET c == CellAt(row, IndexOf(hs, cols[j]))
                     IN IF ~first THEN Nothing
                        ELSE IF cols[j] = "Cluster Manager" /\ Blank(c) THEN DefaultManager ELSE c
  <2>1. cells = [j \in 1..Len(cols) |-> F(j)]
    BY <1>1, Zenon DEF LoanCells
  <2> HIDE DEF F, cells
  <2>2. QED
    BY <2>1
<1> HIDE DEF cells
<1>3. IsSequence(cells) /\ Len(cells) = Len(cols)
  BY <1>1, <1>2, AsSequence
<1>4. QED
  BY <1>3 DEF cells

(* The ornaments of a row, in the order of their numbers.                     *)
Wears(sheet, r, n) ==
  \E a \in DOMAIN sheet.headers : sheet.headers[a] = Anchor(n) /\ HasRing(sheet, a, r, n)
Exploded(sheet, r, lines, numbers) ==
  /\ IsSequence(lines) /\ DOMAIN numbers = 1..Len(lines)
  /\ \A k \in 1..Len(lines) :
       numbers[k] \in 1..MAX_ORNAMENTS /\ Wears(sheet, r, numbers[k]) /\ Line(sheet, r, numbers[k], lines[k])
  /\ \A j, k \in 1..Len(lines) : j < k => numbers[j] < numbers[k]
  /\ \A n \in 1..MAX_ORNAMENTS : Wears(sheet, r, n) => \E k \in 1..Len(lines) : numbers[k] = n

LEMMA ExplodedIs ==
  ASSUME NEW sheet, NEW figures, IsWide(sheet, figures), NEW r \in DOMAIN sheet.rows
  PROVE  \E numbers : Exploded(sheet, r, Explode(sheet.headers, sheet.rows[r]), numbers)
<1> DEFINE hs == sheet.headers
           row == sheet.rows[r]
           bs == MapOrnaments(hs)
           K == {b \in Range(bs) : IsOrnament(row, b)}
           found == Kept(bs, K)
           from == Chosen(bs, K)
           lines == Explode(hs, row)
           numbers == [k \in 1..Len(found) |-> found[k].number]
           lead == Present(LEADING_COLUMNS, hs)
           trail == Present(TRAILING_COLUMNS, hs)
<1>1. /\ IsSequence(bs)
      /\ \A p \in 1..Len(bs) : IsBlock(sheet, bs[p]) /\ bs[p].number <= MAX_ORNAMENTS
      /\ \A p, q \in 1..Len(bs) : p < q => bs[p].number < bs[q].number
      /\ \A a \in DOMAIN hs, n \in 1..MAX_ORNAMENTS :
           hs[a] = Anchor(n) => \E p \in 1..Len(bs) : bs[p].name = a /\ bs[p].number = n
  BY OrnamentsAre, Zenon
<1>2. \A b : b \in K <=> b \in Range(bs) /\ IsOrnament(row, b)
  OBVIOUS
<1>3. lines = [k \in DOMAIN found |->
        LoanCells(hs, row, lead, k = 1)
          \o <<Value(<<Anchor(found[k].number)>>), CellAt(row, found[k].name)>>
          \o Figures(row, found[k])
          \o LoanCells(hs, row, trail, k = 1)]
  BY Zenon DEF Explode
<1>4. IsSequence(lead) /\ IsSequence(trail)
  BY ColumnsAre, PresentIs, Zenon
<1> HIDE DEF bs, K, lines, lead, trail
<1>5. IsSequence(found) /\ KeptInOrder(bs, K)
  BY <1>1, KeptIs, Zenon
<1>6. DOMAIN found = 1..Len(found) /\ DOMAIN bs = 1..Len(bs) /\ Len(found) \in Nat
  BY <1>1, <1>5 DEF IsSequence
<1>7. /\ \A p \in 1..Len(found) : from[p] \in 1..Len(bs) /\ found[p] = bs[from[p]] /\ found[p] \in K
      /\ \A p, q \in 1..Len(found) : p < q => from[p] < from[q]
      /\ \A a \in 1..Len(bs) : bs[a] \in K => \E p \in 1..Len(found) : from[p] = a
  BY <1>5, <1>6, Zenon DEF KeptInOrder
<1> HIDE DEF found, from
<1>8. DOMAIN numbers = 1..Len(found) /\ \A k \in 1..Len(found) : numbers[k] = found[k].number
  OBVIOUS
<1> HIDE DEF numbers
<1>9. IsSequence(lines) /\ Len(lines) = Len(found)
  <2> DEFINE F(k) == LoanCells(hs, row, lead, k = 1)
                       \o <<Value(<<Anchor(found[k].number)>>), CellAt(row, found[k].name)>>
                       \o Figures(row, found[k])
                       \o LoanCells(hs, row, trail, k = 1)
  <2>1. lines = [k \in 1..Len(found) |-> F(k)]
    BY <1>3, <1>6, Zenon
  <2> HIDE DEF F
  <2>2. DOMAIN lines = 1..Len(found) /\ lines = [k \in 1..Len(found) |-> lines[k]]
    BY <2>1
  <2>3. QED
    BY <1>6, <2>2, AsSequence
<1>a. ASSUME NEW b \in K PROVE IsBlock(sheet, b) /\ b.number <= MAX_ORNAMENTS
  <2>1. b \in Range(bs)
    BY <1>2, <1>a, Zenon
  <2>2. PICK i \in 1..Len(bs) : b = bs[i]
    BY <1>1, <2>1, ItemsAre
  <2>3. QED
    BY <1>1, <2>2, Zenon
<1>10. ASSUME NEW b \in K
       PROVE  /\ IsBlock(sheet, b) /\ HasRing(sheet, b.name, r, b.number)
              /\ Figures(row, b) = [j \in DOMAIN DATA_ATTR_ORDER |-> Value(<<DATA_ATTR_ORDER[j], r, b.number>>)]
  <2>1. IsBlock(sheet, b) /\ IsOrnament(row, b)
    BY <1>2, <1>10, <1>a, Zenon
  <2>2. HasRing(sheet, b.name, r, b.number) \/ CellAt(row, b.name) \in {Nothing, Dash}
    BY <2>1, Zenon DEF IsWide, IsBlock
  <2>3. HasRing(sheet, b.name, r, b.number)
    BY <2>1, <2>2, Zenon DEF IsOrnament, Blank
  <2>4. ASSUME NEW j \in DOMAIN DATA_ATTR_ORDER
        PROVE  /\ DATA_ATTR_ORDER[j] \in DOMAIN b.data
               /\ CellAt(row, b.data[DATA_ATTR_ORDER[j]]) = Value(<<DATA_ATTR_ORDER[j], r, b.number>>)
    <3>1. DATA_ATTR_ORDER[j] \in Range(DATA_ATTR_ORDER)
      BY Zenon DEF Range
    <3>2. QED
      BY <2>1, <2>3, <3>1, Zenon DEF IsBlock
  <2>5. Figures(row, b) = [j \in DOMAIN DATA_ATTR_ORDER |-> Value(<<DATA_ATTR_ORDER[j], r, b.number>>)]
    <3> DEFINE V(j) == LET h == DATA_ATTR_ORDER[j]
                       IN IF h \in DOMAIN b.data THEN CellAt(row, b.data[h]) ELSE Nothing
               W(j) == Value(<<DATA_ATTR_ORDER[j], r, b.number>>)
    <3>1. \A j \in DOMAIN DATA_ATTR_ORDER : V(j) = W(j)
      BY <2>4, Zenon
    <3>2. Figures(row, b) = [j \in DOMAIN DATA_ATTR_ORDER |-> V(j)]
      BY Zenon DEF Figures
    <3> HIDE DEF V, W
    <3>3. [j \in DOMAIN DATA_ATTR_ORDER |-> V(j)] = [j \in DOMAIN DATA_ATTR_ORDER |-> W(j)]
      BY <3>1
    <3>4. QED
      BY <3>2, <3>3, Zenon DEF W
  <2>6. QED
    BY <2>1, <2>3, <2>5, Zenon
<1>11. ASSUME NEW k \in 1..Len(lines)
       PROVE  numbers[k] \in 1..MAX_ORNAMENTS /\ Wears(sheet, r, numbers[k]) /\ Line(sheet, r, numbers[k], lines[k])
  <2> DEFINE b == found[k]
             n == b.number
  <2>1. numbers[k] = n /\ b \in K /\ k \in DOMAIN found
    BY <1>6, <1>7, <1>8, <1>9, Zenon
  <2>2. IsBlock(sheet, b) /\ HasRing(sheet, b.name, r, n)
    BY <1>10, <2>1, Zenon
  <2>3. n \in 1..MAX_ORNAMENTS
    <3>1. n <= MAX_ORNAMENTS
      BY <1>a, <2>1, Zenon
    <3>2. n \in Numbers
      BY <2>2, Zenon DEF IsBlock
    <3> HIDE DEF n
    <3>3. QED
      BY <3>1, <3>2 DEF Numbers, MAX_ORNAMENTS
  <2>4. Wears(sheet, r, n)
    BY <2>2, Zenon DEF Wears, IsBlock
  <2>5. Line(sheet, r, n, lines[k])
    <3> DEFINE first == k = 1
               front == LoanCells(hs, row, lead, first)
               back == LoanCells(hs, row, trail, first)
    <3>1. lines[k] = front \o <<Value(<<Anchor(n)>>), CellAt(row, b.name)>> \o Figures(row, b) \o back
      BY <1>3, <2>1, Zenon
    <3>2. CellAt(row, b.name) = Value(<<"ring", r, n>>)
      BY <2>2, Zenon DEF HasRing
    <3>3. Figures(row, b) = [j \in DOMAIN DATA_ATTR_ORDER |-> Value(<<DATA_ATTR_ORDER[j], r, n>>)]
      BY <1>10, <2>1, Zenon
    <3>4. IsSequence(front) /\ Len(front) = Len(lead) /\ IsSequence(back) /\ Len(back) = Len(trail)
      <4> HIDE DEF first
      <4>1. QED
        BY <1>4, LoanCellsAre
    <3> HIDE DEF front, back, n, b
    <3>5. lines[k] = front \o <<Value(<<Anchor(n)>>), Value(<<"ring", r, n>>)>>
                       \o [j \in DOMAIN DATA_ATTR_ORDER |-> Value(<<DATA_ATTR_ORDER[j], r, n>>)] \o back
      BY <3>1, <3>2, <3>3, Zenon
    <3>6. QED
      BY <3>4, <3>5, Zenon DEF Line, lead, trail, hs
  <2>6. QED
    BY <2>1, <2>3, <2>4, <2>5, Zenon
<1>12. ASSUME NEW j \in 1..Len(lines), NEW k \in 1..Len(lines), j < k PROVE numbers[j] < numbers[k]
  <2>1. j \in 1..Len(found) /\ k \in 1..Len(found)
    BY <1>9, Zenon
  <2>2. /\ from[j] \in 1..Len(bs) /\ from[k] \in 1..Len(bs) /\ from[j] < from[k]
        /\ numbers[j] = bs[from[j]].number /\ numbers[k] = bs[from[k]].number
    BY <1>7, <1>8, <1>12, <2>1, Zenon
  <2>3. QED
    BY <1>1, <2>2, Zenon
<1>13. ASSUME NEW n \in 1..MAX_ORNAMENTS, Wears(sheet, r, n) PROVE \E k \in 1..Len(lines) : numbers[k] = n
  <2>1. PICK a \in DOMAIN hs : hs[a] = Anchor(n) /\ HasRing(sheet, a, r, n)
    BY <1>13, Zenon DEF Wears
  <2>2. PICK p \in 1..Len(bs) : bs[p].name = a /\ bs[p].number = n
    BY <1>1, <2>1, Zenon
  <2>3. CellAt(row, bs[p].name) = Value(<<"ring", r, n>>)
    BY <2>1, <2>2, Zenon DEF HasRing
  <2>4. IsOrnament(row, bs[p])
    BY <2>3, RingIsAName, Zenon DEF IsOrnament, Blank
  <2>5. bs[p] \in K
    BY <1>2, <1>6, <2>4, Zenon DEF Range
  <2>6. PICK k \in 1..Len(found) : from[k] = p
    BY <1>7, <2>5, Zenon
  <2>7. numbers[k] = n
    BY <1>7, <1>8, <2>2, <2>6, Zenon
  <2>8. QED
    BY <1>9, <2>7, Zenon
<1>14. Exploded(sheet, r, lines, numbers)
  BY <1>8, <1>9, <1>11, <1>12, <1>13, Zenon DEF Exploded
<1>15. QED
  BY <1>14, Zenon DEF lines, hs

(* Two lists of the same pairs, each in order, are the same.                  *)
LEMMA EarlierIsAnOrder ==
  ASSUME NEW p \in Nat \X Nat, NEW q \in Nat \X Nat, Earlier(p, q)
  PROVE  p # q /\ ~Earlier(q, p)
BY DEF Earlier

InTurn(f, m) ==
  /\ \A i \in 1..m : f[i] \in Nat \X Nat
  /\ \A i, j \in 1..m : i < j => Earlier(f[i], f[j])
AllAmong(f, m, g, n) == \A i \in 1..m : \E j \in 1..n : f[i] = g[j]

LEMMA SameOrder ==
  ASSUME NEW m \in Nat, NEW n \in Nat, NEW f, NEW g,
         InTurn(f, m), InTurn(g, n), AllAmong(f, m, g, n), AllAmong(g, n, f, m)
  PROVE  m = n /\ \A i \in 1..m : f[i] = g[i]
<1> USE DEF InTurn, AllAmong
<1>1. \A p, q \in Nat \X Nat : Earlier(p, q) => p # q /\ ~Earlier(q, p)
  BY EarlierIsAnOrder
<1> DEFINE T == {k \in 0..m : k <= n /\ \A i \in 1..k : f[i] = g[i]}
<1>2. ASSUME NEW k \in 0..m, k < m, k \in T PROVE k + 1 \in T
  <2>1. k \in Nat /\ k + 1 \in 1..m /\ k <= n /\ \A i \in 1..k : f[i] = g[i]
    BY <1>2
  <2>2. PICK j \in 1..n : f[k + 1] = g[j]
    BY <2>1
  <2>3. ~(j <= k)
    <3>1. SUFFICES ASSUME j <= k PROVE FALSE
      OBVIOUS
    <3>2. j \in 1..k /\ j \in 1..m /\ j < k + 1
      BY <2>1, <2>2, <3>1
    <3>3. f[j] = f[k + 1] /\ Earlier(f[j], f[k + 1])
      BY <2>1, <2>2, <3>2
    <3>4. QED
      BY <1>1, <2>1, <3>2, <3>3
  <2>4. k + 1 \in 1..n
    BY <2>1, <2>2, <2>3
  <2>5. PICK i \in 1..m : f[i] = g[k + 1]
    BY <2>4
  <2>6. ~(i <= k)
    <3>1. SUFFICES ASSUME i <= k PROVE FALSE
      OBVIOUS
    <3>2. i \in 1..k /\ i \in 1..n /\ i < k + 1
      BY <2>1, <2>4, <2>5, <3>1
    <3>3. g[i] = g[k + 1] /\ Earlier(g[i], g[k + 1])
      BY <2>1, <2>4, <2>5, <3>2
    <3>4. QED
      BY <1>1, <2>4, <3>2, <3>3
  <2>7. f[k + 1] = g[k + 1]
    <3>1. CASE i = k + 1 \/ j = k + 1
      BY <2>2, <2>5, <3>1
    <3>2. CASE k + 1 < i /\ k + 1 < j
      <4>1. Earlier(f[k + 1], f[i]) /\ Earlier(g[k + 1], g[j])
        BY <2>1, <2>2, <2>4, <2>5, <3>2
      <4>2. f[k + 1] \in Nat \X Nat /\ g[k + 1] \in Nat \X Nat
        BY <2>1, <2>4
      <4>3. Earlier(f[k + 1], g[k + 1]) /\ Earlier(g[k + 1], f[k + 1])
        BY <2>2, <2>5, <4>1, Zenon
      <4>4. QED
        BY <1>1, <4>2, <4>3, Zenon
    <3>3. i \in Nat /\ j \in Nat
      BY <2>2, <2>5
    <3>4. QED
      BY <2>1, <2>3, <2>6, <3>1, <3>2, <3>3
  <2>8. \A q \in 1..(k + 1) : f[q] = g[q]
    <3>1. \A q \in 1..(k + 1) : q \in 1..k \/ q = k + 1
      BY <2>1
    <3>2. QED
      BY <2>1, <2>7, <3>1, Zenon
  <2>9. k + 1 \in 0..m /\ k + 1 <= n
    BY <2>1, <2>4
  <2>10. QED
    BY <2>8, <2>9
<1>3. 0 \in T
  OBVIOUS
<1> HIDE DEF T
<1>4. m \in T
  BY <1>2, <1>3, CountingUp
<1>5. m <= n /\ \A i \in 1..m : f[i] = g[i]
  BY <1>4 DEF T
<1>6. ~(m < n)
  <2>1. SUFFICES ASSUME m < n PROVE FALSE
    OBVIOUS
  <2>2. m + 1 \in 1..n
    BY <2>1
  <2>3. PICK i \in 1..m : f[i] = g[m + 1]
    BY <2>2
  <2>4. i \in 1..n /\ i < m + 1 /\ g[i] = g[m + 1]
    BY <1>5, <2>1, <2>3
  <2>5. Earlier(g[i], g[m + 1]) /\ g[i] \in Nat \X Nat
    BY <2>2, <2>4
  <2>6. QED
    BY <1>1, <2>4, <2>5
<1>7. m = n
  <2>1. m <= n
    BY <1>5, Zenon
  <2>2. QED
    BY <1>6, <2>1
<1>8. QED
  BY <1>5, <1>7, Zenon

(* The sheet has a row for each of the figures, in their order.               *)
LEMMA ConvertedIs ==
  ASSUME NEW sheet, NEW figures, IsWide(sheet, figures)
  PROVE  LET rows == Convert(sheet).rows IN
         /\ IsSequence(rows) /\ Len(rows) = Len(figures)
         /\ \A k \in 1..Len(figures) :
              Line(sheet, figures[k][1], figures[k][2], rows[k])
<1> DEFINE hs == sheet.headers
           N == Len(sheet.rows)
           exploded(r) == IF IsLoan(hs, sheet.rows[r]) THEN Explode(hs, sheet.rows[r]) ELSE <<>>
           seqs == [r \in DOMAIN sheet.rows |-> exploded(r)]
           rows == Convert(sheet).rows
           num(r) == CHOOSE numbers : Exploded(sheet, r, seqs[r], numbers)
<1>1. IsSequence(sheet.rows) /\ IsSequence(figures)
  BY Zenon DEF IsWide
<1>2. DOMAIN sheet.rows = 1..N /\ N \in Nat /\ DOMAIN figures = 1..Len(figures) /\ Len(figures) \in Nat
  BY <1>1 DEF IsSequence
<1>3. rows = FlattenSeq(seqs)
  <2>1. \A h, s : Sheet(h, s).rows = s
    BY DEF Sheet
  <2>2. QED
    BY <2>1, Zenon DEF Convert
<1>4. IsSequence(seqs) /\ Len(seqs) = N /\ \A r \in 1..N : seqs[r] = exploded(r)
  <2> HIDE DEF exploded
  <2>1. DOMAIN seqs = 1..N /\ seqs = [r \in 1..N |-> seqs[r]] /\ \A r \in 1..N : seqs[r] = exploded(r)
    BY <1>2
  <2> HIDE DEF seqs
  <2>2. QED
    BY <1>2, <2>1, AsSequence
<1> HIDE DEF seqs, rows
<1>5. ASSUME NEW r \in 1..N, IsLoan(hs, sheet.rows[r])
      PROVE  Exploded(sheet, r, seqs[r], num(r))
  <2>1. \E numbers : Exploded(sheet, r, seqs[r], numbers)
    BY <1>2, <1>4, <1>5, ExplodedIs, Zenon
  <2>2. QED
    BY <2>1, Zenon
<1>6. ASSUME NEW r \in 1..N, ~IsLoan(hs, sheet.rows[r])
      PROVE  IsSequence(seqs[r]) /\ Len(seqs[r]) = 0
  <2>1. seqs[r] = <<>>
    BY <1>4, <1>6, Zenon
  <2>2. QED
    BY <2>1 DEF IsSequence
<1> HIDE DEF num
<1>7. Joined(seqs, N, rows)
  <2>1. \A r \in 1..N : IsSequence(seqs[r])
    BY <1>5, <1>6, Zenon DEF Exploded
  <2>2. QED
    BY <1>3, <1>4, <2>1, FlattenedIs
<1>8. IsSequence(rows) /\ Len(rows) \in Nat
  BY <1>7 DEF Joined, IsSequence
<1>9. PICK at : JoinedBy(seqs, N, rows, at)
  BY <1>7, Zenon DEF Joined
<1> DEFINE pair == [k \in 1..Len(rows) |-> <<at[k][1], num(at[k][1])[at[k][2]]>>]
<1>10. \A k \in 1..Len(rows) : pair[k] = <<at[k][1], num(at[k][1])[at[k][2]]>>
  OBVIOUS
<1> HIDE DEF pair
<1>11. ASSUME NEW k \in 1..Len(rows)
       PROVE  /\ at[k][1] \in 1..N /\ at[k][2] \in 1..Len(seqs[at[k][1]])
              /\ rows[k] = seqs[at[k][1]][at[k][2]]
              /\ IsLoan(hs, sheet.rows[at[k][1]]) /\ Exploded(sheet, at[k][1], seqs[at[k][1]], num(at[k][1]))
  <2>1. /\ at[k][1] \in 1..N /\ at[k][2] \in 1..Len(seqs[at[k][1]])
        /\ rows[k] = seqs[at[k][1]][at[k][2]]
    BY <1>9, Zenon DEF JoinedBy
  <2>2. IsLoan(hs, sheet.rows[at[k][1]])
    <3>1. SUFFICES ASSUME ~IsLoan(hs, sheet.rows[at[k][1]]) PROVE FALSE
      OBVIOUS
    <3>2. Len(seqs[at[k][1]]) = 0
      BY <1>6, <2>1, <3>1, Zenon
    <3>3. QED
      BY <2>1, <3>2
  <2>3. QED
    BY <1>5, <2>1, <2>2, Zenon
<1>12. ASSUME NEW k \in 1..Len(rows)
       PROVE  /\ pair[k][1] \in 1..N /\ pair[k][2] \in 1..MAX_ORNAMENTS /\ pair[k] = <<pair[k][1], pair[k][2]>>
              /\ IsLoan(hs, sheet.rows[pair[k][1]]) /\ Wears(sheet, pair[k][1], pair[k][2])
              /\ Line(sheet, pair[k][1], pair[k][2], rows[k])
  <2> DEFINE r == at[k][1]
             n == num(r)[at[k][2]]
  <2>1. pair[k] = <<r, n>>
    BY <1>10, Zenon
  <2>2. r \in 1..N /\ IsLoan(hs, sheet.rows[r]) /\ n \in 1..MAX_ORNAMENTS /\ Wears(sheet, r, n) /\ Line(sheet, r, n, rows[k])
    BY <1>11, Zenon DEF Exploded
  <2> HIDE DEF r, n
  <2>3. pair[k][1] = r /\ pair[k][2] = n
    BY <2>1
  <2>4. QED
    BY <2>1, <2>2, <2>3, Zenon
<1>13. ASSUME NEW j \in 1..Len(rows), NEW k \in 1..Len(rows), j < k PROVE Earlier(pair[j], pair[k])
  <2>1. pair[j][1] = at[j][1] /\ pair[k][1] = at[k][1]
        /\ pair[j][2] = num(at[j][1])[at[j][2]] /\ pair[k][2] = num(at[k][1])[at[k][2]]
    <3> DEFINE x == num(at[j][1])[at[j][2]]
               y == num(at[k][1])[at[k][2]]
    <3>1. pair[j] = <<at[j][1], x>> /\ pair[k] = <<at[k][1], y>>
      BY <1>10, Zenon
    <3> HIDE DEF x, y
    <3>2. pair[j][1] = at[j][1] /\ pair[k][1] = at[k][1] /\ pair[j][2] = x /\ pair[k][2] = y
      BY <3>1
    <3>3. QED
      BY <3>2 DEF x, y
  <2>2. at[j][1] < at[k][1] \/ (at[j][1] = at[k][1] /\ at[j][2] < at[k][2])
    BY <1>9, <1>13, Zenon DEF JoinedBy
  <2>3. CASE at[j][1] < at[k][1]
    BY <2>1, <2>3, Zenon DEF Earlier
  <2>4. CASE at[j][1] = at[k][1] /\ at[j][2] < at[k][2]
    <3>1. num(at[j][1])[at[j][2]] < num(at[j][1])[at[k][2]]
      BY <1>11, <2>4, Zenon DEF Exploded
    <3>2. QED
      BY <2>1, <2>4, <3>1, Zenon DEF Earlier
  <2>5. QED
    BY <2>2, <2>3, <2>4, Zenon
<1>14. ASSUME NEW r \in 1..N, NEW n \in 1..MAX_ORNAMENTS, IsLoan(hs, sheet.rows[r]), Wears(sheet, r, n)
       PROVE  \E k \in 1..Len(rows) : pair[k] = <<r, n>>
  <2>1. PICK i \in 1..Len(seqs[r]) : num(r)[i] = n
    BY <1>5, <1>14, Zenon DEF Exploded
  <2>2. PICK k \in 1..Len(rows) : at[k][1] = r /\ at[k][2] = i
    BY <1>9, <2>1, Zenon DEF JoinedBy
  <2>3. pair[k] = <<r, n>>
    BY <1>10, <2>1, <2>2, Zenon
  <2>4. QED
    BY <2>3, Zenon
<1>15. Range(figures) =
         {p \in (DOMAIN sheet.rows) \X (1..MAX_ORNAMENTS) :
            /\ IsLoan(hs, sheet.rows[p[1]])
            /\ \E a \in DOMAIN hs : hs[a] = Anchor(p[2]) /\ HasRing(sheet, a, p[1], p[2])}
  BY Zenon DEF IsWide
<1>16. \A p : p \in Range(figures) <=>
         p \in (1..N) \X (1..MAX_ORNAMENTS) /\ IsLoan(hs, sheet.rows[p[1]]) /\ Wears(sheet, p[1], p[2])
  BY <1>2, <1>15, Zenon DEF Wears
<1>b. \A p : p \in (1..N) \X (1..MAX_ORNAMENTS) => p \in Nat \X Nat
  BY <1>2 DEF MAX_ORNAMENTS
<1>17. ASSUME NEW k \in 1..Len(rows) PROVE pair[k] \in Range(figures) /\ pair[k] \in Nat \X Nat
  <2>1. pair[k] \in (1..N) \X (1..MAX_ORNAMENTS)
    <3> DEFINE x == pair[k][1]
               y == pair[k][2]
    <3>1. pair[k] = <<x, y>> /\ x \in 1..N /\ y \in 1..MAX_ORNAMENTS
      BY <1>12, Zenon
    <3> HIDE DEF x, y
    <3>2. <<x, y>> \in (1..N) \X (1..MAX_ORNAMENTS)
      BY <3>1
    <3>3. QED
      BY <3>1, <3>2, Zenon
  <2>2. pair[k] \in Range(figures)
    BY <1>12, <1>16, <2>1, Zenon
  <2>3. QED
    BY <2>1, <2>2, <1>b, Zenon
<1>18. ASSUME NEW i \in 1..Len(figures)
       PROVE  figures[i] \in Nat \X Nat /\ \E k \in 1..Len(rows) : pair[k] = figures[i]
  <2>1. figures[i] \in Range(figures)
    BY <1>2 DEF Range
  <2>2. figures[i] \in (1..N) \X (1..MAX_ORNAMENTS) /\ IsLoan(hs, sheet.rows[figures[i][1]])
          /\ Wears(sheet, figures[i][1], figures[i][2])
    BY <1>16, <2>1, Zenon
  <2>3. figures[i][1] \in 1..N /\ figures[i][2] \in 1..MAX_ORNAMENTS /\ figures[i] = <<figures[i][1], figures[i][2]>>
    BY <2>2
  <2>4. \E k \in 1..Len(rows) : pair[k] = <<figures[i][1], figures[i][2]>>
    BY <1>14, <2>2, <2>3, Zenon
  <2>5. figures[i] \in Nat \X Nat
    BY <2>2, <1>b, Zenon
  <2>6. QED
    BY <2>3, <2>4, <2>5, Zenon
<1>19. \A k \in 1..Len(rows) : \E i \in 1..Len(figures) : pair[k] = figures[i]
  BY <1>1, <1>17, ItemsAre, Zenon
<1>20. \A i, j \in 1..Len(figures) : i < j => Earlier(figures[i], figures[j])
  BY <1>2, Zenon DEF IsWide
<1>21. Len(rows) = Len(figures) /\ \A k \in 1..Len(rows) : pair[k] = figures[k]
  <2> DEFINE m == Len(rows)
             n == Len(figures)
  <2>1. /\ \A i \in 1..m : pair[i] \in Nat \X Nat
        /\ \A i \in 1..n : figures[i] \in Nat \X Nat
        /\ \A i, j \in 1..m : i < j => Earlier(pair[i], pair[j])
        /\ \A i \in 1..m : \E j \in 1..n : pair[i] = figures[j]
        /\ \A j \in 1..n : \E i \in 1..m : figures[j] = pair[i]
    BY <1>13, <1>17, <1>18, <1>19, Zenon
  <2>2. m \in Nat /\ n \in Nat
    BY <1>2, <1>8, Zenon
  <2> HIDE DEF m, n
  <2>3. m = n /\ \A i \in 1..m : pair[i] = figures[i]
    <3>1. \A i, j \in 1..n : i < j => Earlier(figures[i], figures[j])
      BY <1>20, Zenon DEF n
    <3>2. QED
      <4>1. InTurn(pair, m) /\ InTurn(figures, n) /\ AllAmong(pair, m, figures, n) /\ AllAmong(figures, n, pair, m)
        BY <2>1, <3>1, Zenon DEF InTurn, AllAmong
      <4>2. QED
        BY <2>2, <4>1, SameOrder
  <2>4. QED
    BY <2>3, Zenon DEF m, n
<1>22. \A k \in 1..Len(figures) : Line(sheet, figures[k][1], figures[k][2], rows[k])
  BY <1>12, <1>21, Zenon
<1>23. QED
  BY <1>8, <1>21, <1>22, Zenon DEF rows

(* Where the headings and the cells of a row are.                             *)
BeginsWith(s, p) == IsSequence(s) /\ Len(p) <= Len(s) /\ \A i \in 1..Len(p) : s[i] = p[i]

LEMMA BeginsWithFirst ==
  ASSUME NEW s, IsSequence(s), NEW t, IsSequence(t), NEW p, BeginsWith(s, p), Len(p) \in Nat
  PROVE  BeginsWith(s \o t, p)
<1>1. /\ IsSequence(s \o t) /\ Len(s \o t) = Len(s) + Len(t)
      /\ \A i \in 1..Len(s) : (s \o t)[i] = s[i]
  BY Joining
<1>2. Len(s) \in Nat /\ Len(t) \in Nat
  BY DEF IsSequence
<1>3. Len(p) <= Len(s) /\ \A i \in 1..Len(p) : s[i] = p[i]
  BY DEF BeginsWith
<1>4. \A i \in 1..Len(p) : i \in 1..Len(s)
  BY <1>2, <1>3
<1>5. Len(p) <= Len(s \o t)
  BY <1>1, <1>2, <1>3
<1>6. \A i \in 1..Len(p) : (s \o t)[i] = p[i]
  BY <1>1, <1>3, <1>4, Zenon
<1>7. QED
  BY <1>1, <1>5, <1>6 DEF BeginsWith

LEMMA BeginsWithItself ==
  ASSUME NEW s, IsSequence(s)
  PROVE  BeginsWith(s, s)
BY DEF BeginsWith, IsSequence

IsJoin(s, t, both) ==
  /\ IsSequence(both) /\ Len(both) = Len(s) + Len(t)
  /\ \A i \in 1..Len(s) : both[i] = s[i]
  /\ \A i \in 1..Len(t) : both[Len(s) + i] = t[i]

LEMMA JoinIs ==
  ASSUME NEW s, IsSequence(s), NEW t, IsSequence(t)
  PROVE  IsJoin(s, t, s \o t)
BY Joining DEF IsJoin

(* A list that opens with some items, two more and some others.               *)
OpensWith(s, first, x, y, then) ==
  LET w == Len(first) IN
  /\ IsSequence(s) /\ w \in Nat /\ w + 2 + Len(then) <= Len(s)
  /\ \A i \in 1..w : s[i] = first[i]
  /\ s[w + 1] = x /\ s[w + 2] = y
  /\ \A j \in 1..Len(then) : s[w + 2 + j] = then[j]

LEMMA Opens3 ==
  ASSUME NEW first, IsSequence(first), NEW x, NEW y, NEW then, IsSequence(then),
         NEW s, BeginsWith(s, first \o <<x, y>> \o then)
  PROVE  OpensWith(s, first, x, y, then)
<1> DEFINE w == Len(first)
           two == <<x, y>>
           part == first \o two
           p == part \o then
<1>1. IsSequence(two) /\ Len(two) = 2 /\ two[1] = x /\ two[2] = y
  BY DEF IsSequence
<1>2. w \in Nat /\ Len(then) \in Nat
  BY DEF IsSequence
<1>3. BeginsWith(s, p)
  OBVIOUS
<1> HIDE DEF two
<1>4. /\ IsSequence(part) /\ Len(part) = w + Len(two)
      /\ \A i \in 1..w : part[i] = first[i]
      /\ \A i \in 1..Len(two) : part[w + i] = two[i]
  <2>1. IsJoin(first, two, part)
    BY <1>1, JoinIs, Zenon
  <2>2. QED
    BY <2>1, Zenon DEF IsJoin
<1> HIDE DEF part
<1>5. /\ IsSequence(p) /\ Len(p) = Len(part) + Len(then)
      /\ \A i \in 1..Len(part) : p[i] = part[i]
      /\ \A i \in 1..Len(then) : p[Len(part) + i] = then[i]
  <2>1. IsJoin(part, then, p)
    BY <1>4, JoinIs, Zenon
  <2>2. QED
    BY <2>1, Zenon DEF IsJoin
<1> HIDE DEF p, w
<1>a. Len(part) = w + 2
  BY <1>1, <1>2, <1>4
<1>b. Len(p) = Len(part) + Len(then)
  BY <1>5, Zenon
<1>6. Len(part) = w + 2 /\ Len(p) = w + 2 + Len(then)
  BY <1>a, <1>b
<1>7. part[w + 1] = x /\ part[w + 2] = y
  BY <1>1, <1>4
<1>8. w + 1 \in 1..Len(part) /\ w + 2 \in 1..Len(part) /\ \A i \in 1..w : i \in 1..Len(part)
  BY <1>2, <1>6
<1>9. p[w + 1] = x /\ p[w + 2] = y /\ \A i \in 1..w : p[i] = first[i]
  BY <1>4, <1>5, <1>7, <1>8, Zenon
<1>10. \A j \in 1..Len(then) : p[w + 2 + j] = then[j]
  BY <1>5, <1>6
<1>11. /\ w + 1 \in 1..Len(p) /\ w + 2 \in 1..Len(p) /\ \A i \in 1..w : i \in 1..Len(p)
       /\ \A j \in 1..Len(then) : w + 2 + j \in 1..Len(p)
  BY <1>2, <1>6
<1>12. IsSequence(s) /\ Len(p) <= Len(s) /\ \A i \in 1..Len(p) : s[i] = p[i]
  BY <1>3, Zenon DEF BeginsWith
<1>13. /\ s[w + 1] = x /\ s[w + 2] = y /\ \A i \in 1..w : s[i] = first[i]
       /\ \A j \in 1..Len(then) : s[w + 2 + j] = then[j]
  BY <1>9, <1>10, <1>11, <1>12, Zenon
<1>14. w + 2 + Len(then) <= Len(s)
  BY <1>6, <1>12
<1>15. QED
  BY <1>2, <1>12, <1>13, <1>14, Zenon DEF w, OpensWith

LEMMA IndexIs ==
  ASSUME NEW hs, IsSequence(hs), NEW c \in 1..Len(hs), NEW h, hs[c] = h, \A i \in 1..(c - 1) : hs[i] # h
  PROVE  IndexOf(hs, h) = c
<1> DEFINE at == {i \in DOMAIN hs : hs[i] = h}
<1>1. DOMAIN hs = 1..Len(hs) /\ Len(hs) \in Nat
  BY DEF IsSequence
<1>2. h \in Range(hs)
  BY <1>1 DEF Range
<1>3. IndexOf(hs, h) = Min(at)
  BY <1>2, Zenon DEF IndexOf
<1>4. c \in at /\ at \subseteq Nat /\ \A i \in at : i \in 1..Len(hs) /\ hs[i] = h
  BY <1>1
<1> HIDE DEF at
<1>5. Min(at) \in at /\ Min(at) <= c
  BY <1>4, MinIs
<1>6. Min(at) \notin 1..(c - 1)
  <2>1. SUFFICES ASSUME Min(at) \in 1..(c - 1) PROVE FALSE
    BY Zenon
  <2>2. hs[Min(at)] = h
    BY <1>4, <1>5, Zenon
  <2>3. QED
    BY <2>1, <2>2, Zenon
<1>7. Min(at) = c
  <2> DEFINE m == Min(at)
  <2>1. m \in 1..Len(hs) /\ m <= c /\ m \notin 1..(c - 1)
    BY <1>4, <1>5, <1>6, Zenon
  <2>2. c \in Nat
    BY <1>1
  <2> HIDE DEF m
  <2>3. m = c
    BY <1>1, <2>1, <2>2
  <2>4. QED
    BY <2>3 DEF m
<1>8. QED
  BY <1>3, <1>7, Zenon

(* Headings that are apart are found where they stand.                        *)
Apart(first, x, y, then) ==
  /\ \A i \in 1..Len(first) : first[i] # y
  /\ \A i \in 1..Len(first), j \in 1..Len(then) : first[i] # then[j]
  /\ x # y /\ \A j \in 1..Len(then) : then[j] # x /\ then[j] # y
  /\ \A i, j \in 1..Len(then) : then[i] = then[j] => i = j

LEMMA FoundWhere ==
  ASSUME NEW first, IsSequence(first), NEW x, NEW y, NEW then, IsSequence(then), Apart(first, x, y, then),
         NEW s, BeginsWith(s, first \o <<x, y>> \o then)
  PROVE  /\ IndexOf(s, y) = Len(first) + 2
         /\ \A j \in 1..Len(then) : IndexOf(s, then[j]) = Len(first) + 2 + j
<1> DEFINE w == Len(first)
<1>1. /\ IsSequence(s) /\ w \in Nat /\ w + 2 + Len(then) <= Len(s)
      /\ \A i \in 1..w : s[i] = first[i]
      /\ s[w + 1] = x /\ s[w + 2] = y
      /\ \A j \in 1..Len(then) : s[w + 2 + j] = then[j]
  <2>1. OpensWith(s, first, x, y, then)
    BY Opens3, Zenon
  <2>2. QED
    BY <2>1, Zenon DEF OpensWith
<1> HIDE DEF w
<1>2. Len(s) \in Nat /\ Len(then) \in Nat
  BY <1>1 DEF IsSequence
<1>3. IndexOf(s, y) = w + 2
  <2>1. w + 2 \in 1..Len(s)
    BY <1>1, <1>2
  <2>2. ASSUME NEW i \in 1..(w + 2 - 1) PROVE s[i] # y
    <3>1. i \in 1..w \/ i = w + 1
      BY <1>1
    <3>2. QED
      BY <1>1, <3>1, Zenon DEF Apart, w
  <2>3. QED
    BY <1>1, <2>1, <2>2, IndexIs
<1>4. ASSUME NEW j \in 1..Len(then) PROVE IndexOf(s, then[j]) = w + 2 + j
  <2>1. w + 2 + j \in 1..Len(s) /\ j \in Nat
    BY <1>1, <1>2
  <2>2. ASSUME NEW i \in 1..(w + 2 + j - 1) PROVE s[i] # then[j]
    <3>1. i \in 1..w \/ i = w + 1 \/ i = w + 2 \/ \E q \in 1..Len(then) : q # j /\ i = w + 2 + q
      <4>1. CASE i > w + 2
        <5>1. i - (w + 2) \in 1..Len(then) /\ i - (w + 2) # j /\ i = w + 2 + (i - (w + 2))
          BY <1>1, <1>2, <2>1, <2>2, <4>1
        <5>2. QED
          BY <5>1
      <4>2. CASE ~(i > w + 2)
        BY <1>1, <2>1, <4>2
      <4>3. QED
        BY <4>1, <4>2
    <3>2. CASE i \in 1..w \/ i = w + 1 \/ i = w + 2
      <4>1. CASE i \in 1..w
        <5>1. s[i] = first[i] /\ i \in 1..Len(first)
          BY <1>1, <4>1, Zenon DEF w
        <5>2. QED
          BY <5>1, Zenon DEF Apart
      <4>2. CASE i = w + 1
        BY <1>1, <4>2, Zenon DEF Apart
      <4>3. CASE i = w + 2
        BY <1>1, <4>3, Zenon DEF Apart
      <4>4. QED
        BY <3>2, <4>1, <4>2, <4>3, Zenon
    <3>3. CASE \E q \in 1..Len(then) : q # j /\ i = w + 2 + q
      <4>1. PICK q \in 1..Len(then) : q # j /\ i = w + 2 + q
        BY <3>3, Zenon
      <4>2. s[i] = then[q]
        BY <1>1, <4>1, Zenon
      <4>3. QED
        BY <4>1, <4>2, Zenon DEF Apart
    <3>4. QED
      BY <3>1, <3>2, <3>3, Zenon
  <2>3. QED
    BY <1>1, <2>1, <2>2, IndexIs
<1>5. QED
  BY <1>3, <1>4, Zenon DEF w

LEMMA HeadingsApart ==
  ASSUME NEW hs
  PROVE  Apart(Present(LEADING_COLUMNS, hs), "Jewellery No.", "Jewellery1", DATA_ATTR_ORDER)
<1> DEFINE lead == Present(LEADING_COLUMNS, hs)
<1>1. \A i \in 1..Len(lead) : lead[i] \in {"SR No.", "Branch", "Loan No."}
  <2>1. \A i \in 1..Len(lead) : lead[i] \in Range(LEADING_COLUMNS)
    BY ColumnsAre, PresentIs, Zenon
  <2>2. Range(LEADING_COLUMNS) = {"SR No.", "Branch", "Loan No."}
    BY RangeOfThree, Zenon DEF LEADING_COLUMNS
  <2>3. QED
    BY <2>1, <2>2, Zenon
<1>2. DATA_ATTR_ORDER = <<"Gross Wt.", "Stone Wt.", "Karat">>
  BY Zenon DEF DATA_ATTR_ORDER
<1>3. \A j \in 1..Len(DATA_ATTR_ORDER) :
        \/ j = 1 /\ DATA_ATTR_ORDER[j] = "Gross Wt."
        \/ j = 2 /\ DATA_ATTR_ORDER[j] = "Stone Wt."
        \/ j = 3 /\ DATA_ATTR_ORDER[j] = "Karat"
  <2> DEFINE x == "Gross Wt."
             y == "Stone Wt."
             z == "Karat"
             s == DATA_ATTR_ORDER
  <2>1. s = <<x, y, z>>
    BY <1>2, Zenon
  <2> HIDE DEF x, y, z, s
  <2>2. \A j \in 1..Len(s) : (j = 1 /\ s[j] = x) \/ (j = 2 /\ s[j] = y) \/ (j = 3 /\ s[j] = z)
    BY <2>1, ThreeItems
  <2>3. QED
    BY <2>2, Zenon DEF x, y, z, s
<1> HIDE DEF lead
<1>4. \A i \in 1..Len(lead) : lead[i] # "Jewellery1"
  BY <1>1, Zenon
<1>5. \A i \in 1..Len(lead), j \in 1..Len(DATA_ATTR_ORDER) : lead[i] # DATA_ATTR_ORDER[j]
  BY <1>1, <1>3, Zenon
<1>6. "Jewellery No." # "Jewellery1"
  BY Zenon
<1>7. \A j \in 1..Len(DATA_ATTR_ORDER) : DATA_ATTR_ORDER[j] # "Jewellery No." /\ DATA_ATTR_ORDER[j] # "Jewellery1"
  BY <1>3, Zenon
<1>8. \A i, j \in 1..Len(DATA_ATTR_ORDER) : DATA_ATTR_ORDER[i] = DATA_ATTR_ORDER[j] => i = j
  <2>1. ASSUME NEW i \in 1..Len(DATA_ATTR_ORDER), NEW j \in 1..Len(DATA_ATTR_ORDER),
               DATA_ATTR_ORDER[i] = DATA_ATTR_ORDER[j]
        PROVE  i = j
    <3>1. CASE i = 1
      BY <1>3, <2>1, <3>1, Zenon
    <3>2. CASE i = 2
      BY <1>3, <2>1, <3>2, Zenon
    <3>3. CASE i = 3
      BY <1>3, <2>1, <3>3, Zenon
    <3>4. QED
      BY <1>3, <3>1, <3>2, <3>3, Zenon
  <2>2. QED
    BY <2>1, Zenon
<1>9. QED
  BY <1>4, <1>5, <1>6, <1>7, <1>8, Zenon DEF Apart, lead

(* The audit block closes the sheet once, and moves nothing.                  *)
LEMMA ClosedOnce ==
  ASSUME NEW hs, IsSequence(hs), NEW block, IsSequence(block)
  PROVE  Closes(block, hs \o block)
<1> DEFINE all == hs \o block
<1>1. /\ IsSequence(all) /\ Len(all) = Len(hs) + Len(block)
      /\ \A i \in 1..Len(block) : all[Len(hs) + i] = block[i]
  <2>1. IsJoin(hs, block, all)
    BY JoinIs
  <2>2. QED
    BY <2>1, Zenon DEF IsJoin
<1>2. Len(hs) \in Nat /\ Len(block) \in Nat /\ block = [i \in 1..Len(block) |-> block[i]]
  BY DEF IsSequence
<1> HIDE DEF all
<1> DEFINE m == Len(all) - Len(block) + 1
           n == Len(all)
<1>3. m = Len(hs) + 1 /\ n = Len(hs) + Len(block) /\ Len(all) >= Len(block)
  BY <1>1, <1>2
<1>4. SubSeq(all, m, n) = [i \in 1..(1 + n - m) |-> all[i + m - 1]]
  OBVIOUS
<1>5. 1 + n - m = Len(block)
  BY <1>2, <1>3
<1>6. \A i \in 1..Len(block) : all[i + m - 1] = block[i]
  <2>1. ASSUME NEW i \in 1..Len(block) PROVE all[i + m - 1] = block[i]
    <3>1. i + m - 1 = Len(hs) + i
      BY <1>2, <1>3
    <3>2. QED
      BY <1>1, <3>1, Zenon
  <2>2. QED
    BY <2>1
<1> HIDE DEF m, n
<1>7. [i \in 1..(1 + n - m) |-> all[i + m - 1]] = [i \in 1..Len(block) |-> block[i]]
  BY <1>5, <1>6
<1>8. SubSeq(all, m, n) = block
  BY <1>2, <1>4, <1>7, Zenon
<1>9. QED
  BY <1>3, <1>8 DEF Closes, m, n, all

LEMMA BlanksAre ==
  ASSUME NEW n \in Nat
  PROVE  IsSequence(Blanks(n))
BY DEF Blanks, IsSequence

LEMMA AuditBlockIs == IsSequence(AUDIT_BLOCK_COLUMNS) /\ Len(AUDIT_BLOCK_COLUMNS) \in Nat
<1>1. IsSequence(AUDIT_BLOCK_COLUMNS) /\ Len(AUDIT_BLOCK_COLUMNS) = 3
  BY RangeOfThree, Zenon DEF AUDIT_BLOCK_COLUMNS
<1>2. QED
  BY <1>1

(* What the sheet and each of its rows open with is where it was.             *)
LEMMA AppendedIs ==
  ASSUME NEW sheet, sheet = Sheet(sheet.headers, sheet.rows), IsSequence(sheet.headers), IsSequence(sheet.rows)
  PROVE  LET tall == AppendAuditBlock(sheet) IN
         /\ AppendAuditBlock(tall) = tall
         /\ \A p : BeginsWith(sheet.headers, p) /\ Len(p) \in Nat => BeginsWith(tall.headers, p)
         /\ DOMAIN tall.rows = DOMAIN sheet.rows
         /\ \A r \in DOMAIN sheet.rows : \A p :
              BeginsWith(sheet.rows[r], p) /\ Len(p) \in Nat => BeginsWith(tall.rows[r], p)
<1> DEFINE block == AUDIT_BLOCK_COLUMNS
           more == Blanks(Len(block))
           tall == AppendAuditBlock(sheet)
           longer(r) == sheet.rows[r] \o more
<1>1. tall = IF Closes(block, sheet.headers) THEN sheet
             ELSE Sheet(sheet.headers \o block, [r \in DOMAIN sheet.rows |-> longer(r)])
  BY Zenon DEF AppendAuditBlock
<1>2. IsSequence(block) /\ IsSequence(more)
  BY AuditBlockIs, BlanksAre, Zenon
<1>3. AppendAuditBlock(tall) = IF Closes(block, tall.headers) THEN tall
             ELSE Sheet(tall.headers \o block, [r \in DOMAIN tall.rows |-> tall.rows[r] \o more])
  BY Zenon DEF AppendAuditBlock
<1>4. \A h, s : Sheet(h, s).rows = s /\ Sheet(h, s).headers = h
  BY DEF Sheet
<1> HIDE DEF tall, block, more
<1>5. CASE Closes(block, sheet.headers)
  <2>1. tall = sheet
    BY <1>1, <1>5, Zenon
  <2>2. AppendAuditBlock(tall) = tall
    BY <1>3, <1>5, <2>1, Zenon
  <2>3. QED
    BY <2>1, <2>2, Zenon DEF tall
<1>6. CASE ~Closes(block, sheet.headers)
  <2>1. tall = Sheet(sheet.headers \o block, [r \in DOMAIN sheet.rows |-> longer(r)])
    BY <1>1, <1>6, Zenon
  <2>2. tall.headers = sheet.headers \o block /\ tall.rows = [r \in DOMAIN sheet.rows |-> longer(r)]
    BY <1>4, <2>1, Zenon
  <2>3. AppendAuditBlock(tall) = tall
    <3>1. Closes(block, sheet.headers \o block)
      BY <1>2, ClosedOnce
    <3>2. QED
      BY <1>3, <2>2, <3>1, Zenon
  <2>4. \A p : BeginsWith(sheet.headers, p) /\ Len(p) \in Nat => BeginsWith(tall.headers, p)
    BY <1>2, <2>2, BeginsWithFirst
  <2>5. DOMAIN tall.rows = DOMAIN sheet.rows /\ \A r \in DOMAIN sheet.rows : tall.rows[r] = longer(r)
    <3> HIDE DEF longer
    <3>1. QED
      BY <2>2
  <2>6. ASSUME NEW r \in DOMAIN sheet.rows, NEW p, BeginsWith(sheet.rows[r], p), Len(p) \in Nat
        PROVE  BeginsWith(tall.rows[r], p)
    <3>1. IsSequence(sheet.rows[r])
      BY <2>6, Zenon DEF BeginsWith
    <3>2. BeginsWith(sheet.rows[r] \o more, p)
      BY <1>2, <2>6, <3>1, BeginsWithFirst
    <3>3. QED
      BY <2>5, <3>2, Zenon
  <2>7. QED
    BY <2>3, <2>4, <2>5, <2>6, Zenon DEF tall
<1>7. QED
  BY <1>5, <1>6, Zenon

LEMMA OrnamentsHold ==
  ASSUME NEW sheet, NEW figures, IsWide(sheet, figures)
  PROVE  EveryOrnament(figures, Convert(sheet))
<1> DEFINE hs == sheet.headers
           lead == Present(LEADING_COLUMNS, hs)
           trail == Present(TRAILING_COLUMNS, hs)
           w == Len(lead)
           data == DATA_ATTR_ORDER
           no == "Jewellery No."
           name == "Jewellery1"
           opening == lead \o <<no, name>> \o data
           converted == Convert(sheet)
           tall == AppendAuditBlock(converted)
           Cells(r, n) == [j \in DOMAIN data |-> Value(<<data[j], r, n>>)]
<1>1. /\ IsSequence(lead) /\ IsSequence(trail) /\ IsSequence(data) /\ IsSequence(figures)
  BY ColumnsAre, PresentIs, Zenon DEF IsWide
<1>2. Apart(lead, no, name, data)
  BY HeadingsApart, Zenon
<1>3. converted.headers = opening \o trail /\ converted = Sheet(converted.headers, converted.rows)
  <2>1. \A h, s : Sheet(h, s).rows = s /\ Sheet(h, s).headers = h
    BY DEF Sheet
  <2>2. \E s : converted = Sheet(TallHeaders(hs), s)
    BY Zenon DEF Convert
  <2>3. TallHeaders(hs) = opening \o trail
    BY Zenon DEF TallHeaders
  <2>4. QED
    BY <2>1, <2>2, <2>3, Zenon
<1>4. /\ IsSequence(converted.rows) /\ Len(converted.rows) = Len(figures)
      /\ \A k \in 1..Len(figures) : Line(sheet, figures[k][1], figures[k][2], converted.rows[k])
  BY ConvertedIs, Zenon
<1> HIDE DEF no, name, data, converted, lead, trail
<1>5. IsSequence(opening) /\ Len(opening) \in Nat
  <2>1. IsSequence(<<no, name>>)
    BY DEF IsSequence
  <2>2. IsSequence(lead \o <<no, name>>)
    BY <1>1, <2>1, JoinIs, Zenon DEF IsJoin
  <2>3. IsSequence(opening)
    BY <1>1, <2>2, JoinIs, Zenon DEF IsJoin
  <2>4. QED
    BY <2>3 DEF IsSequence
<1>6. IsSequence(converted.headers) /\ BeginsWith(converted.headers, opening)
  <2> HIDE DEF opening
  <2>1. IsSequence(opening \o trail)
    BY <1>1, <1>5, JoinIs, Zenon DEF IsJoin
  <2>2. BeginsWith(opening \o trail, opening)
    BY <1>1, <1>5, BeginsWithFirst, BeginsWithItself
  <2>3. QED
    BY <1>3, <2>1, <2>2, Zenon
<1>7. /\ AppendAuditBlock(tall) = tall
      /\ \A p : BeginsWith(converted.headers, p) /\ Len(p) \in Nat => BeginsWith(tall.headers, p)
      /\ DOMAIN tall.rows = DOMAIN converted.rows
      /\ \A r \in DOMAIN converted.rows : \A p :
           BeginsWith(converted.rows[r], p) /\ Len(p) \in Nat => BeginsWith(tall.rows[r], p)
  BY <1>3, <1>4, <1>6, AppendedIs, Zenon
<1> HIDE DEF tall
<1>8. BeginsWith(tall.headers, opening)
  BY <1>5, <1>6, <1>7, Zenon
<1>9. IndexOf(tall.headers, name) = w + 2 /\ \A j \in 1..Len(data) : IndexOf(tall.headers, data[j]) = w + 2 + j
  BY <1>1, <1>2, <1>8, FoundWhere
<1>10. /\ DOMAIN converted.rows = 1..Len(figures) /\ DOMAIN figures = 1..Len(figures)
       /\ DOMAIN data = 1..Len(data) /\ Len(data) \in Nat
  BY <1>1, <1>4 DEF IsSequence
<1>11. ASSUME NEW k \in 1..Len(figures)
       PROVE  /\ tall.rows[k][w + 2] = Value(<<"ring", figures[k][1], figures[k][2]>>)
              /\ \A j \in 1..Len(data) :
                   tall.rows[k][w + 2 + j] = Value(<<data[j], figures[k][1], figures[k][2]>>)
  <2> DEFINE r == figures[k][1]
             n == figures[k][2]
             ring == Value(<<"ring", r, n>>)
             cells == Cells(r, n)
             row == converted.rows[k]
  <2>1. PICK front, x, back :
          /\ IsSequence(front) /\ Len(front) = w /\ IsSequence(back)
          /\ row = front \o <<x, ring>> \o cells \o back
    <3>1. Line(sheet, r, n, row)
      BY <1>4, Zenon
    <3> HIDE DEF r, n, row
    <3>2. QED
      BY <3>1, Zenon DEF Line, lead, trail, data
  <2>2. IsSequence(cells) /\ Len(cells) = Len(data) /\ \A j \in 1..Len(data) : cells[j] = Value(<<data[j], r, n>>)
    <3> DEFINE F(j) == Value(<<data[j], r, n>>)
    <3>1. cells = [j \in 1..Len(data) |-> F(j)]
      BY <1>10, Zenon
    <3> HIDE DEF F, cells
    <3>2. DOMAIN cells = 1..Len(data) /\ cells = [j \in 1..Len(data) |-> cells[j]] /\ \A j \in 1..Len(data) : cells[j] = F(j)
      BY <3>1
    <3>3. IsSequence(cells) /\ Len(cells) = Len(data)
      BY <1>10, <3>2, AsSequence
    <3>4. QED
      BY <3>2, <3>3, Zenon DEF F
  <2> HIDE DEF cells, ring, row
  <2> DEFINE start == front \o <<x, ring>> \o cells
  <2>3. IsSequence(start) /\ Len(start) \in Nat
    <3>1. IsSequence(<<x, ring>>)
      BY DEF IsSequence
    <3>2. IsSequence(front \o <<x, ring>>)
      BY <2>1, <3>1, JoinIs, Zenon DEF IsJoin
    <3>3. IsSequence(start)
      BY <2>2, <3>2, JoinIs, Zenon DEF IsJoin
    <3>4. QED
      BY <3>3 DEF IsSequence
  <2>4. BeginsWith(row, start)
    <3> HIDE DEF start
    <3>1. BeginsWith(start \o back, start)
      BY <2>1, <2>3, BeginsWithFirst, BeginsWithItself
    <3>2. QED
      BY <2>1, <3>1, Zenon DEF start
  <2>5. BeginsWith(tall.rows[k], start)
    BY <1>7, <1>10, <2>3, <2>4, Zenon DEF row
  <2>6. /\ tall.rows[k][w + 2] = ring
        /\ \A j \in 1..Len(cells) : tall.rows[k][w + 2 + j] = cells[j]
    <3>1. OpensWith(tall.rows[k], front, x, ring, cells)
      BY <2>1, <2>2, <2>5, Opens3, Zenon
    <3>2. QED
      BY <2>1, <3>1, Zenon DEF OpensWith
  <2>7. QED
    BY <2>2, <2>6, Zenon DEF ring
<1>12. \A o : Value(o).of = o
  BY DEF Value
<1>13. DOMAIN tall.rows = DOMAIN figures
  BY <1>7, <1>10, Zenon
<1>14. \A k \in DOMAIN figures : tall.rows[k][w + 2].of = <<"ring", figures[k][1], figures[k][2]>>
  BY <1>10, <1>11, <1>12, Zenon
<1>15. [r \in DOMAIN tall.rows |-> tall.rows[r][IndexOf(tall.headers, name)].of]
         = [r \in DOMAIN figures |-> <<"ring", figures[r][1], figures[r][2]>>]
  BY <1>9, <1>13, <1>14, Zenon
<1>16. ASSUME NEW r \in DOMAIN figures, NEW h \in Range(data)
       PROVE  tall.rows[r][IndexOf(tall.headers, h)] = Value(<<h, figures[r][1], figures[r][2]>>)
  <2>1. PICK j \in 1..Len(data) : h = data[j]
    BY <1>1, ItemsAre, Zenon
  <2>2. IndexOf(tall.headers, h) = w + 2 + j
    BY <1>9, <2>1, Zenon
  <2>3. QED
    BY <1>10, <1>11, <2>1, <2>2, Zenon
<1>17. QED
  BY <1>7, <1>15, <1>16, Zenon DEF EveryOrnament, tall, converted, data, name

-----------------------------------------------------------------------------
(* The branch of a row is named in it or in the nearest row above that names  *)
(* one.                                                                       *)
NamingRows(sheet) == {r \in DOMAIN sheet.rows : ~Blank(BranchCell(sheet, r))}
NamedAbove(sheet, r, q) ==
  /\ q \in NamingRows(sheet) /\ q <= r /\ (q + 1)..r \cap NamingRows(sheet) = {}
  /\ BranchOf(sheet, r) = BranchCell(sheet, q)

LEMMA BranchIs ==
  ASSUME NEW sheet, IsSequence(sheet.rows), 1 \in NamingRows(sheet), NEW r \in DOMAIN sheet.rows
  PROVE  \E q \in DOMAIN sheet.rows : NamedAbove(sheet, r, q)
<1> DEFINE N == Len(sheet.rows)
           named == {q \in 1..r : ~Blank(BranchCell(sheet, q))}
<1>1. DOMAIN sheet.rows = 1..N /\ N \in Nat
  BY DEF IsSequence
<1>2. named \subseteq 0..N /\ named # {}
  BY <1>1 DEF NamingRows
<1>3. BranchOf(sheet, r) = BranchCell(sheet, Max(named))
  BY <1>2, Zenon DEF BranchOf
<1>4. \A q \in 1..r : q \in named <=> q \in NamingRows(sheet)
  BY <1>1 DEF NamingRows
<1> DEFINE q == Max(named)
<1>5. q \in named /\ \A y \in named : y <= q
  <2> HIDE DEF named
  <2>1. QED
    BY <1>1, <1>2, MaxIs
<1>6. q \in 1..N /\ q <= r /\ q \in NamingRows(sheet)
  BY <1>1, <1>4, <1>5
<1>7. (q + 1)..r \cap NamingRows(sheet) = {}
  <2> HIDE DEF q, named
  <2>1. ASSUME NEW z \in (q + 1)..r, z \in NamingRows(sheet) PROVE FALSE
    <3>1. z \in 1..r /\ ~(z <= q)
      BY <1>1, <1>6
    <3>2. QED
      BY <1>4, <1>5, <2>1, <3>1
  <2>2. QED
    BY <2>1
<1> HIDE DEF named
<1>8. QED
  BY <1>1, <1>3, <1>6, <1>7 DEF NamedAbove

LEMMA PdfsHold ==
  ASSUME NEW sheet, IsSequence(sheet.rows)
  PROVE  PdfForEachOrnament(sheet)
<1> DEFINE N == Len(sheet.rows)
           named == NamingRows(sheet)
           pdfs == Pdfs(sheet)
           branches == {BranchOf(sheet, r) : r \in DOMAIN sheet.rows} \ {Nothing}
           rows(b) == {r \in DOMAIN sheet.rows : BranchOf(sheet, r) = b}
           best(f, b) == /\ FileName(b) = f
                         /\ \A d \in branches : FileName(d) = f => Min(rows(d)) <= Min(rows(b))
           winner(f) == CHOOSE b \in branches : best(f, b)
<1>1. DOMAIN sheet.rows = 1..N /\ N \in Nat
  BY DEF IsSequence
<1>2. SUFFICES
        ASSUME 1 \in named,
               \A q, r \in named : FileName(BranchCell(sheet, q)) = FileName(BranchCell(sheet, r))
                                      => BranchCell(sheet, q) = BranchCell(sheet, r),
               NEW r \in DOMAIN sheet.rows
        PROVE  \E q \in named :
                 /\ q <= r /\ (q + 1)..r \cap named = {}
                 /\ {f \in DOMAIN pdfs : r \in pdfs[f].rows} = {FileName(BranchCell(sheet, q))}
  BY Zenon DEF PdfForEachOrnament, NamingRows
<1>3. ASSUME NEW s \in DOMAIN sheet.rows
      PROVE  \E p \in named : NamedAbove(sheet, s, p) /\ BranchOf(sheet, s) = BranchCell(sheet, p)
  BY <1>2, BranchIs DEF NamedAbove
<1>4. \A b \in branches : \E p \in named : b = BranchCell(sheet, p)
  BY <1>3
<1>5. \A s \in DOMAIN sheet.rows : BranchOf(sheet, s) \in branches
  <2>1. \A s \in DOMAIN sheet.rows : BranchOf(sheet, s) # Nothing
    BY <1>3, Zenon DEF NamingRows, Blank
  <2>2. ASSUME NEW s \in DOMAIN sheet.rows PROVE BranchOf(sheet, s) \in branches
    <3>1. BranchOf(sheet, s) \in {BranchOf(sheet, q) : q \in DOMAIN sheet.rows}
      BY Zenon
    <3>2. QED
      BY <2>1, <3>1, Zenon
  <2>3. QED
    BY <2>2, Zenon
<1>6. \A b, d \in branches : FileName(b) = FileName(d) => b = d
  <2>1. ASSUME NEW b \in branches, NEW d \in branches, FileName(b) = FileName(d) PROVE b = d
    <3>1. PICK p \in named : b = BranchCell(sheet, p)
      BY <1>4, Zenon
    <3>2. PICK q \in named : d = BranchCell(sheet, q)
      BY <1>4, Zenon
    <3>3. FileName(BranchCell(sheet, p)) = FileName(BranchCell(sheet, q))
      BY <2>1, <3>1, <3>2, Zenon
    <3> HIDE DEF named, branches
    <3>4. BranchCell(sheet, p) = BranchCell(sheet, q)
      BY <1>2, <3>3, Zenon
    <3>5. QED
      BY <3>1, <3>2, <3>4, Zenon
  <2>2. QED
    BY <2>1, Zenon
<1>7. pdfs = [f \in {FileName(b) : b \in branches} |-> [branch |-> winner(f), rows |-> rows(winner(f))]]
  BY Zenon DEF Pdfs
<1>8. ASSUME NEW b \in branches PROVE winner(FileName(b)) = b
  <2>1. Min(rows(b)) <= Min(rows(b))
    <3>1. rows(b) \subseteq Nat /\ rows(b) # {}
      BY <1>1, <1>8
    <3> HIDE DEF rows
    <3>2. Min(rows(b)) \in Nat
      BY <3>1, MinIs
    <3>3. QED
      BY <3>2
  <2>2. best(FileName(b), b)
    BY <1>6, <1>8, <2>1, Zenon
  <2>3. \A d \in branches : best(FileName(b), d) => d = b
    BY <1>6, <1>8, Zenon
  <2> HIDE DEF best
  <2>4. QED
    BY <1>8, <2>2, <2>3, Zenon
<1> HIDE DEF pdfs, branches, winner
<1>9. DOMAIN pdfs = {FileName(b) : b \in branches} /\ \A b \in branches : pdfs[FileName(b)].rows = rows(b)
  BY <1>7, <1>8
<1>10. PICK q \in named : NamedAbove(sheet, r, q) /\ BranchOf(sheet, r) = BranchCell(sheet, q)
  BY <1>2, <1>3
<1> DEFINE mine == BranchCell(sheet, q)
<1>11. mine \in branches /\ BranchOf(sheet, r) = mine
  BY <1>2, <1>5, <1>10
<1>12. \A b \in branches : r \in rows(b) <=> b = mine
  BY <1>2, <1>11
<1> HIDE DEF mine, rows
<1>13. \A f : f \in DOMAIN pdfs /\ r \in pdfs[f].rows <=> f = FileName(mine)
  BY <1>9, <1>11, <1>12, Zenon
<1>14. {f \in DOMAIN pdfs : r \in pdfs[f].rows} = {FileName(mine)}
  BY <1>13, Zenon
<1>15. QED
  BY <1>10, <1>14 DEF NamedAbove, mine

-----------------------------------------------------------------------------
(* A filled audit sheet that is folded into a wide one (arvog_rebuild.py):   *)
(* its headings and where they are found, the rows of a loan, the row they    *)
(* are folded into, what Convert reads in that row, and its formulas.         *)

(* The kinds of headings are apart.                                           *)
LEMMA KindsOfHeadings ==
  /\ \A x \in Range(LEADING_COLUMNS) : x \in {"SR No.", "Branch", "Loan No."}
  /\ \A x \in Range(TRAILING_COLUMNS) : x \in {"Cluster Manager", "Packets Number"}
  /\ \A j \in 1..3 : DATA_ATTR_ORDER[j] \in {"Gross Wt.", "Stone Wt.", "Karat"}
  /\ AUDIT_BLOCK_COLUMNS[1] = "Count of Ornament" /\ AUDIT_BLOCK_COLUMNS[2] = "Gross Wt."
  /\ AUDIT_BLOCK_COLUMNS[3] = "Net Weight"
  /\ \A n \in Numbers : Anchor(n) \in {"Jewellery1", "Jewellery2", "Jewellery3", "Jewellery4"}
<1>1. \A x \in Range(LEADING_COLUMNS) : x \in {"SR No.", "Branch", "Loan No."}
  BY RangeOfThree, Zenon DEF LEADING_COLUMNS
<1>2. \A x \in Range(TRAILING_COLUMNS) : x \in {"Cluster Manager", "Packets Number"}
  <2>1. \A x, y : Range(<<x, y>>) = {x, y}
    <3>1. ASSUME NEW x, NEW y PROVE Range(<<x, y>>) = {x, y}
      <4>1. DOMAIN <<x, y>> = {1, 2}
        OBVIOUS
      <4>2. QED
        BY <4>1 DEF Range
    <3>2. QED
      BY <3>1
  <2>2. QED
    BY <2>1, Zenon DEF TRAILING_COLUMNS
<1>3. \A s, x, y, z : s = <<x, y, z>> => s[1] = x /\ s[2] = y /\ s[3] = z
  OBVIOUS
<1>4. DATA_ATTR_ORDER[1] = "Gross Wt." /\ DATA_ATTR_ORDER[2] = "Stone Wt." /\ DATA_ATTR_ORDER[3] = "Karat"
  BY <1>3, Zenon DEF DATA_ATTR_ORDER
<1>5. \A j \in 1..3 : j = 1 \/ j = 2 \/ j = 3
  OBVIOUS
<1>6. \A j \in 1..3 : DATA_ATTR_ORDER[j] \in {"Gross Wt.", "Stone Wt.", "Karat"}
  BY <1>4, <1>5, Zenon
<1>7. /\ AUDIT_BLOCK_COLUMNS[1] = "Count of Ornament" /\ AUDIT_BLOCK_COLUMNS[2] = "Gross Wt."
      /\ AUDIT_BLOCK_COLUMNS[3] = "Net Weight"
  BY <1>3, Zenon DEF AUDIT_BLOCK_COLUMNS
<1>8. \A n \in Numbers : Anchor(n) \in {"Jewellery1", "Jewellery2", "Jewellery3", "Jewellery4"}
  <2>1. \A n \in Numbers : n \in {1, 2, 3, 4}
    BY DEF Numbers
  <2>2. QED
    BY <2>1, AnchorsAre, Zenon
<1>9. QED
  BY <1>1, <1>2, <1>6, <1>7, <1>8, Zenon

LeadsApart ==
  \A x \in Range(LEADING_COLUMNS) :
    /\ x # "Jewellery No." /\ x \notin Range(TRAILING_COLUMNS) /\ \A n \in Numbers : x # Anchor(n)
    /\ \A j \in 1..3 : x # DATA_ATTR_ORDER[j] /\ x # AUDIT_BLOCK_COLUMNS[j]
    /\ x # "Cluster Manager"
TrailsApart ==
  \A x \in Range(TRAILING_COLUMNS) :
    /\ x # "Jewellery No." /\ x \notin Range(LEADING_COLUMNS) /\ \A n \in Numbers : x # Anchor(n)
    /\ \A j \in 1..3 : x # DATA_ATTR_ORDER[j] /\ x # AUDIT_BLOCK_COLUMNS[j]
FiguresApart ==
  \A j \in 1..3 :
    /\ DATA_ATTR_ORDER[j] # "Jewellery No." /\ AUDIT_BLOCK_COLUMNS[j] # "Jewellery No."
    /\ \A n \in Numbers : DATA_ATTR_ORDER[j] # Anchor(n) /\ AUDIT_BLOCK_COLUMNS[j] # Anchor(n)
    /\ DATA_ATTR_ORDER[j] # AUDIT_BLOCK_COLUMNS[1]
NamesApart == \A n \in Numbers : Anchor(n) # "Jewellery No."

(* The headings the two sheets are searched for are apart. *)
LEMMA HeadingsDiffer == LeadsApart /\ TrailsApart /\ FiguresApart /\ NamesApart
<1> DEFINE J == "Jewellery No."
           M == "Cluster Manager"
           Leads == {"SR No.", "Branch", "Loan No."}
           Trails == {"Cluster Manager", "Packets Number"}
           Figs == {"Gross Wt.", "Stone Wt.", "Karat"}
           Audits == {"Count of Ornament", "Gross Wt.", "Net Weight"}
           Names == {"Jewellery1", "Jewellery2", "Jewellery3", "Jewellery4"}
           Count == "Count of Ornament"
<1>1. /\ \A x \in Range(LEADING_COLUMNS) : x \in Leads
      /\ \A x \in Range(TRAILING_COLUMNS) : x \in Trails
      /\ \A j \in 1..3 : DATA_ATTR_ORDER[j] \in Figs
      /\ AUDIT_BLOCK_COLUMNS[1] = Count
      /\ \A n \in Numbers : Anchor(n) \in Names
  BY KindsOfHeadings, Zenon
<1>2. \A j \in 1..3 : AUDIT_BLOCK_COLUMNS[j] \in Audits
  <2>1. \A j \in 1..3 : j = 1 \/ j = 2 \/ j = 3
    OBVIOUS
  <2>2. QED
    BY <2>1, KindsOfHeadings, Zenon
<1>3. \A x \in Leads : x # J /\ x \notin Trails /\ x \notin Figs /\ x \notin Audits /\ x \notin Names /\ x # M
  BY Zenon
<1>4. \A x \in Trails : x # J /\ x \notin Figs /\ x \notin Audits /\ x \notin Names
  BY Zenon
<1>5. \A x \in Figs : x # J /\ x \notin Names /\ x # Count
  BY Zenon
<1>6. \A x \in Audits : x # J /\ x \notin Names
  BY Zenon
<1>7. \A x \in Names : x # J
  BY Zenon
<1> HIDE DEF J, M, Leads, Trails, Figs, Audits, Names, Count
<1>8. \A x \in Range(LEADING_COLUMNS) :
        /\ x # J /\ x \notin Range(TRAILING_COLUMNS) /\ \A n \in Numbers : x # Anchor(n)
        /\ \A j \in 1..3 : x # DATA_ATTR_ORDER[j] /\ x # AUDIT_BLOCK_COLUMNS[j]
        /\ x # M
  BY <1>1, <1>2, <1>3, Zenon
<1>9. \A x \in Range(TRAILING_COLUMNS) :
        /\ x # J /\ x \notin Range(LEADING_COLUMNS) /\ \A n \in Numbers : x # Anchor(n)
        /\ \A j \in 1..3 : x # DATA_ATTR_ORDER[j] /\ x # AUDIT_BLOCK_COLUMNS[j]
  BY <1>1, <1>2, <1>4, <1>8, Zenon
<1>10. \A j \in 1..3 :
         /\ DATA_ATTR_ORDER[j] # J /\ AUDIT_BLOCK_COLUMNS[j] # J
         /\ \A n \in Numbers : DATA_ATTR_ORDER[j] # Anchor(n) /\ AUDIT_BLOCK_COLUMNS[j] # Anchor(n)
         /\ DATA_ATTR_ORDER[j] # AUDIT_BLOCK_COLUMNS[1]
  BY <1>1, <1>2, <1>5, <1>6, Zenon
<1>11. \A n \in Numbers : Anchor(n) # J
  BY <1>1, <1>7, Zenon
<1>12. LeadsApart
  BY <1>8, Zenon DEF J, M, LeadsApart
<1>13. TrailsApart
  BY <1>9, Zenon DEF J, TrailsApart
<1>14. FiguresApart
  BY <1>10, Zenon DEF J, FiguresApart
<1>15. NamesApart
  BY <1>11, Zenon DEF J, NamesApart
<1>16. QED
  BY <1>12, <1>13, <1>14, <1>15

(* No list of headings repeats itself. *)
LEMMA HeadingsOnce ==
  /\ \A i, j \in 1..3 : DATA_ATTR_ORDER[i] = DATA_ATTR_ORDER[j] => i = j
  /\ \A i, j \in 1..3 : AUDIT_BLOCK_COLUMNS[i] = AUDIT_BLOCK_COLUMNS[j] => i = j
  /\ \A i, j \in 1..Len(LEADING_COLUMNS) : LEADING_COLUMNS[i] = LEADING_COLUMNS[j] => i = j
  /\ \A i, j \in 1..Len(TRAILING_COLUMNS) : TRAILING_COLUMNS[i] = TRAILING_COLUMNS[j] => i = j
<1>1. ASSUME NEW s, NEW x, NEW y, NEW z, s = <<x, y, z>>, x # y, y # z, x # z, NEW i \in 1..3, NEW j \in 1..3,
             s[i] = s[j]
      PROVE  i = j
  BY <1>1
<1>2. ASSUME NEW s, NEW x, NEW y, s = <<x, y>>, x # y, NEW i \in 1..Len(s), NEW j \in 1..Len(s), s[i] = s[j]
      PROVE  i = j
  BY <1>2
<1>3. \A i, j \in 1..3 : DATA_ATTR_ORDER[i] = DATA_ATTR_ORDER[j] => i = j
  <2>1. "Gross Wt." # "Stone Wt." /\ "Stone Wt." # "Karat" /\ "Gross Wt." # "Karat"
    BY Zenon
  <2>2. QED
    BY <1>1, <2>1, Zenon DEF DATA_ATTR_ORDER
<1>4. \A i, j \in 1..3 : AUDIT_BLOCK_COLUMNS[i] = AUDIT_BLOCK_COLUMNS[j] => i = j
  <2>1. "Count of Ornament" # "Gross Wt." /\ "Gross Wt." # "Net Weight" /\ "Count of Ornament" # "Net Weight"
    BY Zenon
  <2>2. QED
    BY <1>1, <2>1, Zenon DEF AUDIT_BLOCK_COLUMNS
<1>5. \A i, j \in 1..Len(LEADING_COLUMNS) : LEADING_COLUMNS[i] = LEADING_COLUMNS[j] => i = j
  <2>1. "SR No." # "Branch" /\ "Branch" # "Loan No." /\ "SR No." # "Loan No."
    BY Zenon
  <2>2. Len(LEADING_COLUMNS) = 3
    BY RangeOfThree, Zenon DEF LEADING_COLUMNS
  <2>3. \A i, j \in 1..3 : LEADING_COLUMNS[i] = LEADING_COLUMNS[j] => i = j
    BY <1>1, <2>1, Zenon DEF LEADING_COLUMNS
  <2>4. QED
    BY <2>2, <2>3, Zenon
<1>6. \A i, j \in 1..Len(TRAILING_COLUMNS) : TRAILING_COLUMNS[i] = TRAILING_COLUMNS[j] => i = j
  <2>1. "Cluster Manager" # "Packets Number"
    BY Zenon
  <2>2. QED
    BY <1>2, <2>1, Zenon DEF TRAILING_COLUMNS
<1>7. QED
  BY <1>3, <1>4, <1>5, <1>6, Zenon

(* How many columns the branch and the auditor have for an ornament. *)
LEMMA BlockSizes ==
  /\ Len(DATA_ATTR_ORDER) = 3 /\ Len(AUDIT_BLOCK_COLUMNS) = 3 /\ GroupWidth = 8
  /\ IsSequence(DATA_ATTR_ORDER) /\ IsSequence(AUDIT_BLOCK_COLUMNS)
  /\ DOMAIN DATA_ATTR_ORDER = 1..3 /\ DOMAIN AUDIT_BLOCK_COLUMNS = 1..3
<1>1. Len(AUDIT_BLOCK_COLUMNS) = 3 /\ IsSequence(AUDIT_BLOCK_COLUMNS) /\ DOMAIN AUDIT_BLOCK_COLUMNS = 1..3
  BY RangeOfThree, Zenon DEF AUDIT_BLOCK_COLUMNS
<1>2. Len(DATA_ATTR_ORDER) = 3 /\ IsSequence(DATA_ATTR_ORDER) /\ DOMAIN DATA_ATTR_ORDER = 1..3
  BY RangeOfThree, Zenon DEF DATA_ATTR_ORDER
<1>3. GroupWidth = 8
  <2> DEFINE m == Len(DATA_ATTR_ORDER)
             n == Len(AUDIT_BLOCK_COLUMNS)
  <2>1. m = 3 /\ n = 3 /\ GroupWidth = 2 + m + n
    BY <1>1, <1>2, Zenon DEF GroupWidth
  <2> HIDE DEF m, n
  <2>2. QED
    BY <2>1
<1>4. QED
  BY <1>1, <1>2, <1>3, Zenon

(* Three lists, and four, one after the other.                                *)
ThreeIn(s, a, b, c) ==
  /\ IsSequence(s) /\ Len(s) = Len(a) + Len(b) + Len(c)
  /\ Len(a) \in Nat /\ Len(b) \in Nat /\ Len(c) \in Nat
  /\ \A i \in 1..Len(a) : s[i] = a[i]
  /\ \A i \in 1..Len(b) : s[Len(a) + i] = b[i]
  /\ \A i \in 1..Len(c) : s[Len(a) + Len(b) + i] = c[i]
FourIn(s, a, b, c, d) ==
  /\ IsSequence(s) /\ Len(s) = Len(a) + Len(b) + Len(c) + Len(d)
  /\ Len(a) \in Nat /\ Len(b) \in Nat /\ Len(c) \in Nat /\ Len(d) \in Nat
  /\ \A i \in 1..Len(a) : s[i] = a[i]
  /\ \A i \in 1..Len(b) : s[Len(a) + i] = b[i]
  /\ \A i \in 1..Len(c) : s[Len(a) + Len(b) + i] = c[i]
  /\ \A i \in 1..Len(d) : s[Len(a) + Len(b) + Len(c) + i] = d[i]

(* What three joined lists hold, and where. *)
LEMMA ThreeJoined ==
  ASSUME NEW a, IsSequence(a), NEW b, IsSequence(b), NEW c, IsSequence(c)
  PROVE  ThreeIn(a \o b \o c, a, b, c)
<1> DEFINE ab == a \o b
           s == ab \o c
<1>1. /\ IsSequence(ab) /\ Len(ab) = Len(a) + Len(b)
      /\ \A i \in 1..Len(a) : ab[i] = a[i]
      /\ \A i \in 1..Len(b) : ab[Len(a) + i] = b[i]
  BY Joining
<1> HIDE DEF ab
<1>2. /\ IsSequence(s) /\ Len(s) = Len(ab) + Len(c)
      /\ \A i \in 1..Len(ab) : s[i] = ab[i]
      /\ \A i \in 1..Len(c) : s[Len(ab) + i] = c[i]
  <2>1. IsJoin(ab, c, s)
    BY <1>1, JoinIs, Zenon
  <2>2. QED
    BY <2>1, Zenon DEF IsJoin
<1>3. Len(a) \in Nat /\ Len(b) \in Nat /\ Len(c) \in Nat
  BY DEF IsSequence
<1> HIDE DEF s
<1>4. Len(s) = Len(a) + Len(b) + Len(c)
  <2>1. Len(s) = Len(ab) + Len(c) /\ Len(ab) = Len(a) + Len(b)
    BY <1>1, <1>2, Zenon
  <2>2. QED
    BY <1>3, <2>1
<1>5. /\ \A i \in 1..Len(a) : i \in 1..Len(ab)
      /\ \A i \in 1..Len(b) : Len(a) + i \in 1..Len(ab)
  BY <1>1, <1>3
<1>6. (\A i \in 1..Len(a) : s[i] = a[i]) /\ \A i \in 1..Len(b) : s[Len(a) + i] = b[i]
  BY <1>1, <1>2, <1>5, Zenon
<1>7. \A i \in 1..Len(c) : s[Len(a) + Len(b) + i] = c[i]
  BY <1>1, <1>2
<1>8. QED
  BY <1>2, <1>3, <1>4, <1>6, <1>7, Zenon DEF ThreeIn, s, ab

(* What four joined lists hold, and where. *)
LEMMA FourJoined ==
  ASSUME NEW a, IsSequence(a), NEW b, IsSequence(b), NEW c, IsSequence(c), NEW d, IsSequence(d)
  PROVE  FourIn(a \o b \o c \o d, a, b, c, d)
<1> DEFINE abc == a \o b \o c
           s == abc \o d
<1>1. ThreeIn(abc, a, b, c)
  BY ThreeJoined
<1> HIDE DEF abc
<1>2. /\ IsSequence(abc) /\ Len(abc) = Len(a) + Len(b) + Len(c)
      /\ Len(a) \in Nat /\ Len(b) \in Nat /\ Len(c) \in Nat
      /\ \A i \in 1..Len(a) : abc[i] = a[i]
      /\ \A i \in 1..Len(b) : abc[Len(a) + i] = b[i]
      /\ \A i \in 1..Len(c) : abc[Len(a) + Len(b) + i] = c[i]
  BY <1>1, Zenon DEF ThreeIn
<1>3. /\ IsSequence(s) /\ Len(s) = Len(abc) + Len(d)
      /\ \A i \in 1..Len(abc) : s[i] = abc[i]
      /\ \A i \in 1..Len(d) : s[Len(abc) + i] = d[i]
  <2>1. IsJoin(abc, d, s)
    BY <1>2, JoinIs, Zenon
  <2>2. QED
    BY <2>1, Zenon DEF IsJoin
<1>4. Len(d) \in Nat
  BY DEF IsSequence
<1> HIDE DEF s
<1>5. Len(s) = Len(a) + Len(b) + Len(c) + Len(d)
  <2>1. Len(s) = Len(abc) + Len(d) /\ Len(abc) = Len(a) + Len(b) + Len(c)
    BY <1>2, <1>3, Zenon
  <2>2. QED
    BY <1>2, <1>4, <2>1
<1>6. /\ \A i \in 1..Len(a) : i \in 1..Len(abc)
      /\ \A i \in 1..Len(b) : Len(a) + i \in 1..Len(abc)
      /\ \A i \in 1..Len(c) : Len(a) + Len(b) + i \in 1..Len(abc)
  BY <1>2
<1>7. /\ \A i \in 1..Len(a) : s[i] = a[i]
      /\ \A i \in 1..Len(b) : s[Len(a) + i] = b[i]
      /\ \A i \in 1..Len(c) : s[Len(a) + Len(b) + i] = c[i]
  BY <1>2, <1>3, <1>6, Zenon
<1>8. \A i \in 1..Len(d) : s[Len(a) + Len(b) + Len(c) + i] = d[i]
  BY <1>2, <1>3
<1>9. QED
  BY <1>2, <1>3, <1>4, <1>5, <1>7, <1>8, Zenon DEF FourIn, s, abc

(* The headings of an audit sheet: the loan's, the ornament's, the loan's and  *)
(* the auditor's.                                                             *)
TallAt(hs, lead, trail) ==
  LET m == Len(lead)
      n == Len(trail)
  IN
  /\ IsSequence(hs) /\ IsSequence(lead) /\ IsSequence(trail) /\ m \in Nat /\ n \in Nat
  /\ Len(hs) = m + n + 8
  /\ \A j \in 1..m : hs[j] = lead[j] /\ lead[j] \in Range(LEADING_COLUMNS)
  /\ hs[m + 1] = "Jewellery No." /\ hs[m + 2] = Anchor(1)
  /\ \A j \in 1..3 : hs[m + 2 + j] = DATA_ATTR_ORDER[j]
  /\ \A j \in 1..n : hs[m + 5 + j] = trail[j] /\ trail[j] \in Range(TRAILING_COLUMNS)
  /\ \A j \in 1..3 : hs[m + n + 5 + j] = AUDIT_BLOCK_COLUMNS[j]

(* TallHeaders, part by part. *)
LEMMA TallAreThese ==
  ASSUME NEW hs
  PROVE  LET lead == Present(LEADING_COLUMNS, hs)
             trail == Present(TRAILING_COLUMNS, hs)
         IN FourIn(TallHeaders(hs), lead, <<"Jewellery No.", Anchor(1)>>, DATA_ATTR_ORDER, trail)
<1> DEFINE lead == Present(LEADING_COLUMNS, hs)
           trail == Present(TRAILING_COLUMNS, hs)
           two == <<"Jewellery No.", Anchor(1)>>
<1>1. TallHeaders(hs) = lead \o two \o DATA_ATTR_ORDER \o trail
  BY AnchorsAre, Zenon DEF TallHeaders
<1>2. IsSequence(lead) /\ IsSequence(trail) /\ IsSequence(DATA_ATTR_ORDER)
  BY ColumnsAre, PresentIs, Zenon
<1>3. IsSequence(two)
  <2>1. \A x, y : IsSequence(<<x, y>>)
    BY DEF IsSequence
  <2>2. QED
    BY <2>1, Zenon
<1> HIDE DEF lead, trail, two
<1>4. FourIn(lead \o two \o DATA_ATTR_ORDER \o trail, lead, two, DATA_ATTR_ORDER, trail)
  BY <1>2, <1>3, FourJoined, Zenon
<1>5. QED
  BY <1>1, <1>4, Zenon DEF lead, trail, two

(* The headings of an audit sheet, column by column. *)
LEMMA HeadingsOfAudit ==
  ASSUME NEW hs, hs = TallHeaders(hs) \o AUDIT_BLOCK_COLUMNS
  PROVE  TallAt(hs, Present(LEADING_COLUMNS, hs), Present(TRAILING_COLUMNS, hs))
<1> DEFINE lead == Present(LEADING_COLUMNS, hs)
           trail == Present(TRAILING_COLUMNS, hs)
           J == "Jewellery No."
           two == <<J, Anchor(1)>>
           tall == TallHeaders(hs)
           audit == AUDIT_BLOCK_COLUMNS
           data == DATA_ATTR_ORDER
           m == Len(lead)
           n == Len(trail)
<1>1. FourIn(tall, lead, two, data, trail)
  BY TallAreThese, Zenon
<1>2. IsSequence(lead) /\ IsSequence(trail) /\ Len(data) = 3 /\ Len(audit) = 3 /\ IsSequence(audit)
  BY BlockSizes, ColumnsAre, PresentIs, Zenon
<1>3. /\ \A j \in 1..m : lead[j] \in Range(LEADING_COLUMNS)
      /\ \A j \in 1..n : trail[j] \in Range(TRAILING_COLUMNS)
  BY ColumnsAre, PresentIs, Zenon
<1>4. Len(two) = 2 /\ two[1] = J /\ two[2] = Anchor(1)
  <2>1. \A x, y : Len(<<x, y>>) = 2 /\ <<x, y>>[1] = x /\ <<x, y>>[2] = y
    OBVIOUS
  <2>2. QED
    BY <2>1, Zenon
<1>5. hs = tall \o audit
  BY Zenon
<1> HIDE DEF lead, trail, two, tall, audit, data, J
<1>6. /\ IsSequence(tall) /\ Len(tall) = m + Len(two) + Len(data) + n
      /\ m \in Nat /\ n \in Nat
      /\ \A i \in 1..m : tall[i] = lead[i]
      /\ \A i \in 1..Len(two) : tall[m + i] = two[i]
      /\ \A i \in 1..Len(data) : tall[m + Len(two) + i] = data[i]
      /\ \A i \in 1..n : tall[m + Len(two) + Len(data) + i] = trail[i]
  BY <1>1, Zenon DEF FourIn
<1>7. IsJoin(tall, audit, tall \o audit)
  BY <1>2, <1>6, JoinIs
<1>8. /\ IsSequence(hs) /\ Len(hs) = Len(tall) + Len(audit)
      /\ \A i \in 1..Len(tall) : hs[i] = tall[i]
      /\ \A i \in 1..Len(audit) : hs[Len(tall) + i] = audit[i]
  BY <1>5, <1>7, Zenon DEF IsJoin
<1> HIDE DEF m, n
<1>9. Len(tall) = m + n + 5 /\ Len(hs) = m + n + 8
  BY <1>2, <1>4, <1>6, <1>8
<1>10. /\ \A i \in 1..m : tall[i] = lead[i] /\ i \in 1..Len(tall)
       /\ tall[m + 1] = J /\ tall[m + 2] = Anchor(1) /\ m + 1 \in 1..Len(tall) /\ m + 2 \in 1..Len(tall)
       /\ \A i \in 1..3 : tall[m + 2 + i] = data[i] /\ m + 2 + i \in 1..Len(tall)
       /\ \A i \in 1..n : tall[m + 5 + i] = trail[i] /\ m + 5 + i \in 1..Len(tall)
  BY <1>2, <1>4, <1>6, <1>9
<1>11. /\ \A i \in 1..m : hs[i] = lead[i]
       /\ hs[m + 1] = J /\ hs[m + 2] = Anchor(1)
       /\ \A i \in 1..3 : hs[m + 2 + i] = data[i]
       /\ \A i \in 1..n : hs[m + 5 + i] = trail[i]
  BY <1>8, <1>10, Zenon
<1>12. \A i \in 1..3 : hs[m + n + 5 + i] = audit[i]
  BY <1>2, <1>8, <1>9
<1>13. QED
  BY <1>2, <1>3, <1>6, <1>8, <1>9, <1>11, <1>12, Zenon DEF TallAt, lead, trail, audit, data, J, m, n

(* The columns of a loan, at both ends of the headings.                       *)
LoanColumns(hs, lead, trail, e) ==
  /\ IsSequence(hs) /\ Len(lead) \in Nat /\ Len(trail) \in Nat
  /\ e \in Nat /\ Len(lead) <= e /\ e + Len(trail) <= Len(hs)
  /\ \A j \in 1..Len(lead) : hs[j] = lead[j] /\ lead[j] \in Range(LEADING_COLUMNS)
  /\ \A j \in 1..Len(trail) : hs[e + j] = trail[j] /\ trail[j] \in Range(TRAILING_COLUMNS)
  /\ \A c \in 1..Len(hs) : (Len(lead) < c /\ c <= e) \/ e + Len(trail) < c =>
       hs[c] \notin Range(LEADING_COLUMNS) /\ hs[c] \notin Range(TRAILING_COLUMNS)
Once(s) == \A i, j \in 1..Len(s) : s[i] = s[j] => i = j

(* The columns that are present are present once. *)
LEMMA PresentOnce ==
  ASSUME NEW hs
  PROVE  Once(Present(LEADING_COLUMNS, hs)) /\ Once(Present(TRAILING_COLUMNS, hs))
<1>1. ASSUME NEW cols, IsSequence(cols), Once(cols) PROVE Once(Present(cols, hs))
  <2>1. cols \in Seq(Range(cols))
    BY <1>1, IsSeqOf, Zenon
  <2>2. \A i, j \in DOMAIN Kept(cols, Range(hs)) : Kept(cols, Range(hs))[i] = Kept(cols, Range(hs))[j] => i = j
    BY <1>1, <2>1, KeptDistinct, Zenon DEF Once
  <2>3. DOMAIN Kept(cols, Range(hs)) = 1..Len(Kept(cols, Range(hs)))
    BY <1>1, KeptIs, IsSeqOf, Zenon
  <2>4. QED
    BY <2>2, <2>3, Zenon DEF Once, Present
<1>2. Once(LEADING_COLUMNS) /\ Once(TRAILING_COLUMNS)
  BY HeadingsOnce, Zenon DEF Once
<1>3. QED
  BY <1>1, <1>2, ColumnsAre, Zenon

(* A column of the loan is found where it is. *)
LEMMA LoanColumnsFound ==
  ASSUME NEW hs, NEW lead, NEW trail, NEW e, LoanColumns(hs, lead, trail, e), Once(lead), Once(trail)
  PROVE  /\ \A j \in 1..Len(lead) : IndexOf(hs, lead[j]) = j
         /\ \A j \in 1..Len(trail) : IndexOf(hs, trail[j]) = e + j
<1> DEFINE m == Len(lead)
           n == Len(trail)
<1>1. /\ IsSequence(hs) /\ m \in Nat /\ n \in Nat /\ e \in Nat /\ m <= e /\ e + n <= Len(hs)
      /\ \A j \in 1..m : hs[j] = lead[j] /\ lead[j] \in Range(LEADING_COLUMNS)
      /\ \A j \in 1..n : hs[e + j] = trail[j] /\ trail[j] \in Range(TRAILING_COLUMNS)
      /\ \A c \in 1..Len(hs) : (m < c /\ c <= e) \/ e + n < c =>
           hs[c] \notin Range(LEADING_COLUMNS) /\ hs[c] \notin Range(TRAILING_COLUMNS)
      /\ Len(hs) \in Nat
  BY Zenon DEF LoanColumns, IsSequence
<1>2. /\ \A i, j \in 1..m : lead[i] = lead[j] => i = j
      /\ \A i, j \in 1..n : trail[i] = trail[j] => i = j
  BY Zenon DEF Once
<1>3. \A x \in Range(TRAILING_COLUMNS) : x \notin Range(LEADING_COLUMNS)
  BY HeadingsDiffer, Zenon DEF TrailsApart
<1>a. m \in Nat /\ n \in Nat /\ e \in Nat /\ m <= e /\ e + n <= Len(hs) /\ Len(hs) \in Nat
  BY <1>1, Zenon
<1>b. IsSequence(hs)
  BY <1>1, Zenon
<1> HIDE DEF m, n
<1>4. ASSUME NEW j \in 1..m PROVE IndexOf(hs, lead[j]) = j
  <2>1. j \in 1..Len(hs)
    BY <1>a
  <2>2. \A i \in 1..(j - 1) : i \in 1..m /\ i # j
    BY <1>a
  <2>3. hs[j] = lead[j] /\ \A i \in 1..(j - 1) : hs[i] # lead[j]
    BY <1>1, <1>2, <2>2, Zenon
  <2>4. QED
    BY <1>b, <2>1, <2>3, IndexIs
<1>5. ASSUME NEW j \in 1..n PROVE IndexOf(hs, trail[j]) = e + j
  <2>1. e + j \in 1..Len(hs)
    BY <1>a
  <2>2. hs[e + j] = trail[j] /\ trail[j] \in Range(TRAILING_COLUMNS)
    BY <1>1, Zenon
  <2>3. ASSUME NEW i \in 1..((e + j) - 1) PROVE hs[i] # trail[j]
    <3>1. CASE i \in 1..m
      BY <1>1, <1>3, <2>2, <3>1, Zenon
    <3>2. CASE i \in (m + 1)..e
      <4>1. i \in 1..Len(hs) /\ m < i /\ i <= e
        BY <1>a, <3>2
      <4>2. QED
        BY <1>1, <2>2, <4>1, Zenon
    <3>3. CASE i \in (e + 1)..((e + j) - 1)
      <4>1. i - e \in 1..n /\ i - e # j /\ e + (i - e) = i
        BY <1>a, <3>3
      <4>2. QED
        BY <1>1, <1>2, <2>2, <4>1, Zenon
    <3>4. i \in 1..m \/ i \in (m + 1)..e \/ i \in (e + 1)..((e + j) - 1)
      BY <1>a
    <3>5. QED
      BY <3>1, <3>2, <3>3, <3>4
  <2> DEFINE p == e + j
             h == trail[j]
  <2>4. p \in 1..Len(hs) /\ hs[p] = h /\ \A i \in 1..(p - 1) : hs[i] # h
    BY <2>1, <2>2, <2>3, Zenon
  <2> HIDE DEF p, h
  <2>5. IndexOf(hs, h) = p
    BY <1>b, <2>4, IndexIs
  <2>6. QED
    BY <2>5, Zenon DEF p, h
<1>6. QED
  BY <1>4, <1>5, Zenon DEF m, n

(* Which of the loan's headings there are.                                    *)
LEMMA LoanColumnsThere ==
  ASSUME NEW hs, NEW lead, NEW trail, NEW e, LoanColumns(hs, lead, trail, e),
         IsSequence(lead), IsSequence(trail)
  PROVE  /\ \A h \in Range(LEADING_COLUMNS) : h \in Range(hs) <=> h \in Range(lead)
         /\ \A h \in Range(TRAILING_COLUMNS) : h \in Range(hs) <=> h \in Range(trail)
<1> DEFINE m == Len(lead)
           n == Len(trail)
<1>1. /\ IsSequence(hs) /\ m \in Nat /\ n \in Nat /\ e \in Nat /\ m <= e /\ e + n <= Len(hs)
      /\ \A j \in 1..m : hs[j] = lead[j] /\ lead[j] \in Range(LEADING_COLUMNS)
      /\ \A j \in 1..n : hs[e + j] = trail[j] /\ trail[j] \in Range(TRAILING_COLUMNS)
      /\ \A c \in 1..Len(hs) : (m < c /\ c <= e) \/ e + n < c =>
           hs[c] \notin Range(LEADING_COLUMNS) /\ hs[c] \notin Range(TRAILING_COLUMNS)
      /\ Len(hs) \in Nat
  BY Zenon DEF LoanColumns, IsSequence
<1>2. /\ \A x : x \in Range(hs) <=> \E i \in 1..Len(hs) : hs[i] = x
      /\ \A x : x \in Range(lead) <=> \E i \in 1..m : lead[i] = x
      /\ \A x : x \in Range(trail) <=> \E i \in 1..n : trail[i] = x
  <2>1. \A s : IsSequence(s) => \A x : x \in Range(s) <=> \E i \in 1..Len(s) : s[i] = x
    <3>1. ASSUME NEW s, IsSequence(s), NEW x PROVE x \in Range(s) <=> \E i \in 1..Len(s) : s[i] = x
      <4>1. Range(s) = {s[i] : i \in 1..Len(s)}
        BY <3>1, IsSeqOf, Zenon
      <4>2. QED
        BY <4>1, Zenon
    <3>2. QED
      BY <3>1, Zenon
  <2>2. QED
    BY <1>1, <2>1, Zenon
<1>3. \A x \in Range(TRAILING_COLUMNS) : x \notin Range(LEADING_COLUMNS)
  BY HeadingsDiffer, Zenon DEF TrailsApart
<1>a. m \in Nat /\ n \in Nat /\ e \in Nat /\ m <= e /\ e + n <= Len(hs) /\ Len(hs) \in Nat
  BY <1>1, Zenon
<1> HIDE DEF m, n
<1>4. ASSUME NEW i \in 1..Len(hs)
      PROVE  \/ i \in 1..m
             \/ hs[i] \notin Range(LEADING_COLUMNS) /\ hs[i] \notin Range(TRAILING_COLUMNS)
             \/ i - e \in 1..n /\ hs[i] = trail[i - e]
  <2>1. \/ i \in 1..m
        \/ (m < i /\ i <= e) \/ e + n < i
        \/ i - e \in 1..n /\ e + (i - e) = i
    BY <1>a
  <2>2. QED
    BY <1>1, <2>1, Zenon
<1>5. /\ \A i \in 1..m : i \in 1..Len(hs)
      /\ \A i \in 1..n : e + i \in 1..Len(hs)
  BY <1>a
<1>6. ASSUME NEW h \in Range(LEADING_COLUMNS) PROVE h \in Range(hs) <=> h \in Range(lead)
  <2>1. ASSUME NEW i \in 1..Len(hs), hs[i] = h PROVE h \in Range(lead)
    <3>1. i \in 1..m
      BY <1>1, <1>3, <1>4, <2>1, Zenon
    <3>2. QED
      BY <1>1, <1>2, <2>1, <3>1, Zenon
  <2>2. ASSUME NEW i \in 1..m, lead[i] = h PROVE h \in Range(hs)
    BY <1>1, <1>2, <1>5, <2>2, Zenon
  <2>3. QED
    BY <1>2, <2>1, <2>2, Zenon
<1>7. ASSUME NEW h \in Range(TRAILING_COLUMNS) PROVE h \in Range(hs) <=> h \in Range(trail)
  <2>1. ASSUME NEW i \in 1..Len(hs), hs[i] = h PROVE h \in Range(trail)
    <3>1. i - e \in 1..n /\ hs[i] = trail[i - e]
      BY <1>1, <1>3, <1>4, <1>7, <2>1, Zenon
    <3>2. QED
      BY <1>2, <2>1, <3>1, Zenon
  <2>2. ASSUME NEW i \in 1..n, trail[i] = h PROVE h \in Range(hs)
    BY <1>1, <1>2, <1>5, <2>2, Zenon
  <2>3. QED
    BY <1>2, <2>1, <2>2, Zenon
<1>8. QED
  BY <1>6, <1>7, Zenon

(* The same columns are present in the folded sheet. *)
LEMMA SamePresent ==
  ASSUME NEW cols, IsSequence(cols), NEW hs, NEW gs,
         \A h \in Range(cols) : h \in Range(hs) <=> h \in Range(gs)
  PROVE  Present(cols, hs) = Present(cols, gs)
<1>1. \A i \in DOMAIN cols : cols[i] \in Range(cols)
  BY Zenon DEF Range
<1>2. PlacesOf(cols, Range(hs)) = PlacesOf(cols, Range(gs))
  BY <1>1 DEF PlacesOf
<1>3. QED
  BY <1>2, Zenon DEF Present, Kept

(* The first column of a heading in a part of the row.                        *)
IsFirst(hs, first, last, c, h) ==
  /\ first \in Nat /\ last \in Nat /\ c \in first..last
  /\ hs[c] = h /\ \A i \in first..(c - 1) : hs[i] # h

(* A heading is first found where it is the first. *)
LEMMA FirstOfIs ==
  ASSUME NEW hs, NEW names, NEW first, NEW last, NEW c, NEW h \in names, IsFirst(hs, first, last, c, h)
  PROVE  h \in DOMAIN FirstOf(hs, names, first, last) /\ FirstOf(hs, names, first, last)[h] = c
<1> DEFINE P(g) == {i \in first..last : hs[i] = g}
           D == {g \in names : \E i \in first..last : hs[i] = g}
           f == FirstOf(hs, names, first, last)
           T == P(h)
<1>a. /\ first \in Nat /\ last \in Nat /\ c \in first..last
      /\ hs[c] = h /\ \A i \in first..(c - 1) : hs[i] # h
  BY Zenon DEF IsFirst
<1>1. f = [g \in D |-> Min(P(g))]
  BY Zenon DEF FirstOf
<1>2. h \in D
  BY <1>a, Zenon
<1>3. T \subseteq Nat /\ c \in T /\ T # {}
  BY <1>a
<1>4. \A i \in T : c <= i
  <2>1. ASSUME NEW i \in T PROVE c <= i
    <3>1. i \in first..last /\ hs[i] = h
      OBVIOUS
    <3>2. i \notin first..(c - 1)
      BY <1>a, <3>1, Zenon
    <3>3. QED
      BY <1>a, <3>1, <3>2
  <2>2. QED
    BY <2>1
<1> HIDE DEF T, f, D
<1>5. Min(T) \in T /\ \A y \in T : Min(T) <= y
  BY <1>3, MinIs
<1>6. Min(T) = c
  <2>1. c <= Min(T) /\ Min(T) <= c /\ c \in Nat /\ Min(T) \in Nat
    BY <1>a, <1>3, <1>4, <1>5
  <2>2. QED
    BY <2>1
<1>7. h \in DOMAIN f /\ f[h] = Min(P(h))
  BY <1>1, <1>2, Zenon
<1>8. QED
  BY <1>6, <1>7, Zenon DEF T, f

(* An ornament's block: its figures follow its name, and the auditor's part   *)
(* of it begins at a column.                                                  *)
Laid(hs, a, split, last) ==
  /\ IsSequence(hs) /\ a \in Nat /\ split \in Nat /\ last \in Nat
  /\ 1 <= a /\ a + 3 < split /\ split + 2 <= last /\ last <= Len(hs)
  /\ \A j \in 1..3 : hs[a + j] = DATA_ATTR_ORDER[j] /\ hs[split + (j - 1)] = AUDIT_BLOCK_COLUMNS[j]
  /\ \A i \in (a + 1)..(split - 1) : hs[i] # AUDIT_BLOCK_COLUMNS[1]
BlockFinds(b, a, split) ==
  /\ b.name = a
  /\ \A j \in 1..3 : DATA_ATTR_ORDER[j] \in DOMAIN b.data /\ b.data[DATA_ATTR_ORDER[j]] = a + j
  /\ \A j \in 1..3 : AUDIT_BLOCK_COLUMNS[j] \in DOMAIN b.audit /\ b.audit[AUDIT_BLOCK_COLUMNS[j]] = split + (j - 1)

(* The block of an ornament names the columns of its figures and the auditor's. *)
LEMMA BlockIsLaid ==
  ASSUME NEW hs, NEW a, NEW split, NEW last, Laid(hs, a, split, last)
  PROVE  BlockFinds(BlockOf(hs, a, last), a, split)
<1> DEFINE b == BlockOf(hs, a, last)
           s == SplitAt(hs, a + 1, last)
           audit == AUDIT_BLOCK_COLUMNS
           data == DATA_ATTR_ORDER
           at == {i \in (a + 1)..last : hs[i] = audit[1]}
<1>1. /\ b.name = a /\ b.data = FirstOf(hs, Range(data), a + 1, s - 1)
      /\ b.audit = FirstOf(hs, Range(audit), s, last)
  BY Zenon DEF BlockOf
<1>2. s = IF at = {} THEN last + 1 ELSE Min(at)
  BY Zenon DEF SplitAt
<1>3. /\ DOMAIN data = 1..3 /\ DOMAIN audit = 1..3
      /\ \A i, j \in 1..3 : data[i] = data[j] => i = j
      /\ \A i, j \in 1..3 : audit[i] = audit[j] => i = j
  BY BlockSizes, HeadingsOnce, Zenon
<1>4. /\ \A j \in 1..3 : hs[a + j] = data[j] /\ hs[split + (j - 1)] = audit[j]
      /\ \A i \in (a + 1)..(split - 1) : hs[i] # audit[1]
  BY Zenon DEF Laid
<1>5. a \in Nat /\ split \in Nat /\ last \in Nat /\ 1 <= a /\ a + 3 < split /\ split + 2 <= last
  BY Zenon DEF Laid
<1> HIDE DEF data, audit
<1>6. s = split
  <2>1. split \in at
    <3>1. 1 \in 1..3 /\ split + (1 - 1) = split /\ split \in (a + 1)..last
      BY <1>5
    <3>2. QED
      BY <1>4, <3>1
  <2>2. \A i \in at : i \in (a + 1)..last /\ i \notin (a + 1)..(split - 1)
    BY <1>4, Zenon
  <2>3. at \subseteq Nat /\ at # {}
    BY <1>5, <2>1, <2>2
  <2> HIDE DEF at, s
  <2>4. s \in at /\ \A y \in at : s <= y
    BY <1>2, <2>3, MinIs
  <2>5. s \in Nat /\ a + 1 <= s /\ s \notin (a + 1)..(split - 1) /\ s <= split
    BY <1>5, <2>1, <2>2, <2>3, <2>4
  <2>6. QED
    BY <1>5, <2>5
<1>7. ASSUME NEW j \in 1..3
      PROVE  data[j] \in DOMAIN b.data /\ b.data[data[j]] = a + j
  <2> DEFINE h == data[j]
             c == a + j
             first == a + 1
             end == split - 1
  <2>1. hs[c] = h /\ h \in Range(data)
    BY <1>3, <1>4, Zenon DEF Range
  <2>2. \A i \in first..(c - 1) : hs[i] # h
    <3>1. ASSUME NEW i \in first..(c - 1) PROVE hs[i] # h
      <4> DEFINE k == i - a
      <4>1. k \in 1..3 /\ k # j /\ a + k = i
        BY <1>5, <3>1
      <4> HIDE DEF k
      <4>2. hs[i] = data[k]
        BY <1>4, <4>1, Zenon
      <4>3. data[k] # data[j]
        BY <1>3, <4>1, Zenon
      <4>4. QED
        BY <4>2, <4>3, Zenon
    <3>2. QED
      BY <3>1, Zenon
  <2>3. first \in Nat /\ end \in Nat /\ c \in first..end
    BY <1>5
  <2>4. b.data = FirstOf(hs, Range(data), first, end)
    BY <1>1, <1>6, Zenon
  <2> HIDE DEF h, c, first, end
  <2>5. h \in DOMAIN b.data /\ b.data[h] = c
    <3>a. IsFirst(hs, first, end, c, h)
      BY <2>1, <2>2, <2>3, Zenon DEF IsFirst
    <3>1. h \in DOMAIN FirstOf(hs, Range(data), first, end) /\ FirstOf(hs, Range(data), first, end)[h] = c
      BY <2>1, <3>a, FirstOfIs
    <3>2. QED
      BY <2>4, <3>1, Zenon
  <2>6. QED
    BY <2>5, Zenon DEF h, c
<1>8. ASSUME NEW j \in 1..3
      PROVE  audit[j] \in DOMAIN b.audit /\ b.audit[audit[j]] = split + (j - 1)
  <2> DEFINE h == audit[j]
             c == split + (j - 1)
             first == split
  <2>1. hs[c] = h /\ h \in Range(audit)
    BY <1>3, <1>4, Zenon DEF Range
  <2>2. \A i \in first..(c - 1) : hs[i] # h
    <3>1. ASSUME NEW i \in first..(c - 1) PROVE hs[i] # h
      <4> DEFINE k == (i - split) + 1
      <4>1. k \in 1..3 /\ k # j /\ split + (k - 1) = i
        BY <1>5, <3>1
      <4> HIDE DEF k
      <4>2. hs[i] = audit[k]
        BY <1>4, <4>1, Zenon
      <4>3. audit[k] # audit[j]
        BY <1>3, <4>1, Zenon
      <4>4. QED
        BY <4>2, <4>3, Zenon
    <3>2. QED
      BY <3>1, Zenon
  <2>3. first \in Nat /\ last \in Nat /\ c \in first..last
    BY <1>5
  <2>4. b.audit = FirstOf(hs, Range(audit), first, last)
    BY <1>1, <1>6, Zenon
  <2> HIDE DEF h, c, first
  <2>5. h \in DOMAIN b.audit /\ b.audit[h] = c
    <3>a. IsFirst(hs, first, last, c, h)
      BY <2>1, <2>2, <2>3, Zenon DEF IsFirst
    <3>1. h \in DOMAIN FirstOf(hs, Range(audit), first, last) /\ FirstOf(hs, Range(audit), first, last)[h] = c
      BY <2>1, <3>a, FirstOfIs
    <3>2. QED
      BY <2>4, <3>1, Zenon
  <2>6. QED
    BY <2>5, Zenon DEF h, c
<1>9. QED
  BY <1>1, <1>7, <1>8, Zenon DEF BlockFinds, data, audit

(* Where a group's cells come from, and where they go.                        *)
FromColumns(from, a, split) ==
  /\ IsSequence(from) /\ Len(from) = 6
  /\ \A j \in 1..3 : from[j] = a + j /\ from[3 + j] = split + (j - 1)

(* An ornament is read from the branch's figures, then the auditor's. *)
LEMMA SourcesAre ==
  ASSUME NEW b, NEW a, NEW split, BlockFinds(b, a, split)
  PROVE  FromColumns(Sources(b), a, split)
<1> DEFINE column(found, h) == IF h \in DOMAIN found THEN found[h] ELSE 0
           data == DATA_ATTR_ORDER
           audit == AUDIT_BLOCK_COLUMNS
           x == [j \in DOMAIN data |-> column(b.data, data[j])]
           y == [j \in DOMAIN audit |-> column(b.audit, audit[j])]
           s == Sources(b)
<1>1. s = x \o y
  BY Zenon DEF Sources
<1>2. DOMAIN data = 1..3 /\ DOMAIN audit = 1..3
  BY BlockSizes, Zenon
<1>3. \A j \in 1..3 : x[j] = a + j /\ y[j] = split + (j - 1)
  BY <1>2, Zenon DEF BlockFinds
<1>4. /\ DOMAIN x = 1..3 /\ x = [i \in 1..3 |-> x[i]]
      /\ DOMAIN y = 1..3 /\ y = [i \in 1..3 |-> y[i]]
  <2> DEFINE F(j) == column(b.data, data[j])
             G(j) == column(b.audit, audit[j])
  <2>1. x = [j \in 1..3 |-> F(j)] /\ y = [j \in 1..3 |-> G(j)]
    BY <1>2, Zenon
  <2> HIDE DEF F, G
  <2>2. QED
    BY <2>1
<1> HIDE DEF x, y, s, data, audit
<1>5. IsSequence(x) /\ Len(x) = 3 /\ IsSequence(y) /\ Len(y) = 3
  BY <1>4, AsSequence
<1>6. IsJoin(x, y, s)
  BY <1>1, <1>5, JoinIs, Zenon
<1>7. /\ IsSequence(s) /\ Len(s) = Len(x) + Len(y)
      /\ \A i \in 1..Len(x) : s[i] = x[i]
      /\ \A i \in 1..Len(y) : s[Len(x) + i] = y[i]
  BY <1>6, Zenon DEF IsJoin
<1>8. Len(s) = 6
  BY <1>5, <1>7
<1>9. \A j \in 1..3 : s[j] = a + j /\ s[3 + j] = split + (j - 1)
  BY <1>3, <1>5, <1>7, Zenon
<1>10. QED
  BY <1>7, <1>8, <1>9, Zenon DEF FromColumns, s

(* Each column read from maps to its place in the group. *)
LEMMA MapIs ==
  ASSUME NEW b, NEW a \in Nat, NEW split \in Nat, 1 <= a, a + 3 < split, BlockFinds(b, a, split), NEW start
  PROVE  /\ \A c \in DOMAIN ColumnMap(b, start) : \E j \in 1..6 : c = Sources(b)[j]
         /\ \A j \in 1..6 : ColumnMap(b, start)[Sources(b)[j]] = start + 2 + j
<1> DEFINE from == Sources(b)
           to(c) == start + 2 + Max({j \in DOMAIN from : from[j] = c})
<1>1. ColumnMap(b, start) = [c \in Range(from) \ {0} |-> to(c)]
  BY Zenon DEF ColumnMap
<1>2. FromColumns(from, a, split)
  BY SourcesAre, Zenon
<1>3. IsSequence(from) /\ Len(from) = 6 /\ \A j \in 1..3 : from[j] = a + j /\ from[3 + j] = split + (j - 1)
  BY <1>2, Zenon DEF FromColumns
<1> HIDE DEF from
<1>4. DOMAIN from = 1..6
  BY <1>3, IsSeqOf, Zenon
<1>5. /\ from[1] = a + 1 /\ from[2] = a + 2 /\ from[3] = a + 3
      /\ from[4] = split /\ from[5] = split + 1 /\ from[6] = split + 2
  <2>1. 1 \in 1..3 /\ 2 \in 1..3 /\ 3 \in 1..3 /\ 3 + 1 = 4 /\ 3 + 2 = 5 /\ 3 + 3 = 6
        /\ split + (1 - 1) = split /\ split + (2 - 1) = split + 1 /\ split + (3 - 1) = split + 2
    OBVIOUS
  <2>2. QED
    BY <1>3, <2>1, Zenon
<1>6. \A j \in 1..6 : j = 1 \/ j = 2 \/ j = 3 \/ j = 4 \/ j = 5 \/ j = 6
  OBVIOUS
<1>7. \A i, j \in 1..6 : from[i] = from[j] => i = j
  BY <1>5, <1>6
<1>8. \A j \in 1..6 : from[j] \in Range(from) \ {0}
  <2>1. \A j \in 1..6 : from[j] # 0
    BY <1>5, <1>6
  <2>2. \A j \in 1..6 : from[j] \in Range(from)
    BY <1>4, Zenon DEF Range
  <2>3. QED
    BY <2>1, <2>2
<1>9. ASSUME NEW j \in 1..6 PROVE to(from[j]) = start + 2 + j
  <2> DEFINE T == {i \in DOMAIN from : from[i] = from[j]}
  <2>1. T = {j}
    BY <1>4, <1>7
  <2>2. Max({j}) = j
    <3>1. {j} \subseteq 0..6 /\ {j} # {} /\ 6 \in Nat
      OBVIOUS
    <3>2. Max({j}) \in {j}
      BY <3>1, MaxIs
    <3>3. QED
      BY <3>2
  <2>3. to(from[j]) = start + 2 + Max(T)
    BY Zenon
  <2> HIDE DEF T
  <2>4. QED
    BY <2>1, <2>2, <2>3, Zenon
<1>10. ASSUME NEW c \in Range(from) PROVE \E j \in 1..6 : c = from[j]
  BY <1>4, Zenon DEF Range
<1> HIDE DEF to
<1>11. /\ \A c \in DOMAIN ColumnMap(b, start) : c \in Range(from)
       /\ \A j \in 1..6 : ColumnMap(b, start)[from[j]] = to(from[j])
  BY <1>1, <1>8
<1>12. QED
  BY <1>9, <1>10, <1>11, Zenon DEF from

(* The numbers of a set, each once, the smallest first.                       *)
UpTo(N, P) == N \in Nat /\ P \subseteq 1..N
Enumerates(f, n, P) ==
  /\ P \subseteq Nat /\ n \in Nat /\ \A i \in 1..n : f[i] \in P
  /\ \A i, j \in 1..n : i < j => f[i] < f[j]
  /\ \A a \in P : \E i \in 1..n : f[i] = a

(* A list in order is the only one with its values. *)
LEMMA SameNumbers ==
  ASSUME NEW P, NEW m, NEW n, NEW f, NEW g, Enumerates(f, m, P), Enumerates(g, n, P)
  PROVE  m = n /\ \A i \in 1..m : f[i] = g[i]
<1> DEFINE F == [i \in 1..m |-> <<f[i], 0>>]
           G == [i \in 1..n |-> <<g[i], 0>>]
<1>1. /\ \A i \in 1..m : F[i] = <<f[i], 0>>
      /\ \A i \in 1..n : G[i] = <<g[i], 0>>
  BY Zenon
<1> HIDE DEF F, G
<1>2. /\ P \subseteq Nat /\ m \in Nat /\ n \in Nat
      /\ \A i \in 1..m : f[i] \in P
      /\ \A i \in 1..n : g[i] \in P
      /\ \A i, j \in 1..m : i < j => f[i] < f[j]
      /\ \A i, j \in 1..n : i < j => g[i] < g[j]
      /\ \A a \in P : \E i \in 1..m : f[i] = a
      /\ \A a \in P : \E i \in 1..n : g[i] = a
  BY Zenon DEF Enumerates
<1>3. \A x, y \in P : x < y => Earlier(<<x, 0>>, <<y, 0>>)
  BY <1>2 DEF Earlier
<1>4. \A x \in P : <<x, 0>> \in Nat \X Nat
  BY <1>2
<1>5. InTurn(F, m) /\ InTurn(G, n)
  <2>1. /\ \A i \in 1..m : f[i] \in P /\ F[i] = <<f[i], 0>>
        /\ \A i \in 1..n : g[i] \in P /\ G[i] = <<g[i], 0>>
        /\ \A i, j \in 1..m : i < j => f[i] < f[j]
        /\ \A i, j \in 1..n : i < j => g[i] < g[j]
    BY <1>1, <1>2, Zenon
  <2>2. /\ \A i \in 1..m : F[i] \in Nat \X Nat
        /\ \A i \in 1..n : G[i] \in Nat \X Nat
    BY <1>4, <2>1, Zenon
  <2>3. /\ \A i, j \in 1..m : i < j => Earlier(F[i], F[j])
        /\ \A i, j \in 1..n : i < j => Earlier(G[i], G[j])
    BY <1>3, <2>1, Zenon
  <2>4. QED
    BY <2>2, <2>3, Zenon DEF InTurn
<1>6. AllAmong(F, m, G, n)
  <2>1. ASSUME NEW i \in 1..m PROVE \E j \in 1..n : F[i] = G[j]
    <3>1. PICK j \in 1..n : g[j] = f[i]
      BY <1>2, Zenon
    <3>2. QED
      BY <1>1, <3>1, Zenon
  <2>2. QED
    BY <2>1, Zenon DEF AllAmong
<1>7. AllAmong(G, n, F, m)
  <2>1. ASSUME NEW i \in 1..n PROVE \E j \in 1..m : G[i] = F[j]
    <3>1. PICK j \in 1..m : f[j] = g[i]
      BY <1>2, Zenon
    <3>2. QED
      BY <1>1, <3>1, Zenon
  <2>2. QED
    BY <2>1, Zenon DEF AllAmong
<1>8. m = n /\ \A i \in 1..m : F[i] = G[i]
  BY <1>2, <1>5, <1>6, <1>7, SameOrder
<1>9. ASSUME NEW i \in 1..m PROVE f[i] = g[i]
  <2>1. <<f[i], 0>> = <<g[i], 0>>
    BY <1>1, <1>8, Zenon
  <2>2. QED
    BY <2>1
<1>10. QED
  BY <1>8, <1>9, Zenon

(* The columns in order, when they are counted off. *)
LEMMA InOrderOf ==
  ASSUME NEW N, NEW P, UpTo(N, P), NEW n, NEW f, Enumerates(f, n, P)
  PROVE  IsSequence(InOrder(P)) /\ Len(InOrder(P)) = n /\ \A i \in 1..n : InOrder(P)[i] = f[i]
<1> DEFINE at == InOrder(P)
           m == Len(at)
<1>1. /\ IsSequence(at) /\ \A i \in 1..m : at[i] \in P
      /\ \A i, j \in 1..m : i < j => at[i] < at[j]
      /\ \A a \in P : \E i \in 1..m : at[i] = a
  BY InOrderIs DEF UpTo
<1>2. m \in Nat
  BY <1>1, Zenon DEF IsSequence
<1>3. P \subseteq Nat
  BY Zenon DEF Enumerates
<1> HIDE DEF at, m
<1>4. Enumerates(at, m, P)
  BY <1>1, <1>2, <1>3, Zenon DEF Enumerates
<1>5. n = m /\ \A i \in 1..n : f[i] = at[i]
  BY <1>4, SameNumbers
<1>6. QED
  BY <1>1, <1>5, Zenon DEF at, m

(* What is kept stands first.                                                 *)
LEMMA KeptPrefix ==
  ASSUME NEW s, IsSequence(s), NEW k \in 0..Len(s), NEW K, \A i \in 1..Len(s) : s[i] \in K <=> i <= k
  PROVE  IsSequence(Kept(s, K)) /\ Len(Kept(s, K)) = k /\ \A i \in 1..k : Kept(s, K)[i] = s[i]
<1> DEFINE P == PlacesOf(s, K)
           at == InOrder(P)
           f == [i \in 1..k |-> i]
<1>1. DOMAIN s = 1..Len(s) /\ Len(s) \in Nat /\ k \in Nat
  BY DEF IsSequence
<1>2. P = 1..k
  BY <1>1 DEF PlacesOf
<1>3. IsSequence(at) /\ Len(at) = k /\ \A i \in 1..k : at[i] = f[i]
  <2>1. Enumerates(f, k, P)
    BY <1>1, <1>2 DEF Enumerates
  <2>2. UpTo(k, P)
    BY <1>1, <1>2 DEF UpTo
  <2> HIDE DEF P, f
  <2>3. QED
    BY <2>1, <2>2, InOrderOf, Zenon
<1>4. \A i \in 1..k : f[i] = i
  BY <1>1
<1>5. Kept(s, K) = [i \in DOMAIN at |-> s[at[i]]]
  BY Zenon DEF Kept
<1>6. DOMAIN at = 1..k
  BY <1>3, IsSeqOf, Zenon
<1> HIDE DEF P, at, f
<1>7. \A i \in 1..k : Kept(s, K)[i] = s[i]
  <2>1. \A i \in 1..k : Kept(s, K)[i] = s[at[i]]
    BY <1>5, <1>6, Zenon
  <2>2. \A i \in 1..k : at[i] = i
    BY <1>3, <1>4, Zenon
  <2>3. QED
    BY <2>1, <2>2, Zenon
<1>8. DOMAIN Kept(s, K) = 1..k /\ Kept(s, K) = [i \in 1..k |-> Kept(s, K)[i]]
  <2> DEFINE H(i) == s[at[i]]
  <2>1. Kept(s, K) = [i \in 1..k |-> H(i)]
    BY <1>5, <1>6, Zenon
  <2> HIDE DEF H
  <2>2. QED
    BY <2>1
<1>9. QED
  BY <1>1, <1>7, <1>8, AsSequence

(* The blocks of a row of headings, by where their names stand and where the  *)
(* auditor's parts begin.                                                     *)
EndOf(hs, w, names, i) == IF i < w THEN names[i + 1] - 1 ELSE Len(hs)
BlocksLaid(hs, w, names, splits) ==
  /\ IsSequence(hs) /\ w \in 1..3
  /\ \A i \in 1..w : names[i] \in 1..Len(hs) /\ hs[names[i]] = Anchor(i)
  /\ \A i, j \in 1..w : i < j => names[i] < names[j]
  /\ \A a \in 1..Len(hs), n \in Numbers : hs[a] = Anchor(n) => \E i \in 1..w : names[i] = a
  /\ \A i \in 1..w : Laid(hs, names[i], splits[i], EndOf(hs, w, names, i))
FoundBlocks(bs, w, names, splits) ==
  /\ IsSequence(bs) /\ Len(bs) = w
  /\ \A i \in 1..w : bs[i].number = i /\ BlockFinds(bs[i], names[i], splits[i])

(* The ornaments of a sheet are those whose blocks are laid out in it. *)
LEMMA BlocksFound ==
  ASSUME NEW hs, NEW w, NEW names, NEW splits, BlocksLaid(hs, w, names, splits)
  PROVE  FoundBlocks(MapOrnaments(hs), w, names, splits)
<1> DEFINE A == Anchors(hs)
           at == InOrder(A)
           all == BlocksOf(hs)
           end(p) == IF p < Len(at) THEN at[p + 1] - 1 ELSE Len(hs)
           K == {b \in Range(all) : b.number <= MAX_ORNAMENTS}
           bs == MapOrnaments(hs)
<1>1. /\ IsSequence(hs) /\ w \in 1..3
      /\ \A i \in 1..w : names[i] \in 1..Len(hs) /\ hs[names[i]] = Anchor(i)
      /\ \A i, j \in 1..w : i < j => names[i] < names[j]
      /\ \A a \in 1..Len(hs), n \in Numbers : hs[a] = Anchor(n) => \E i \in 1..w : names[i] = a
      /\ \A i \in 1..w : Laid(hs, names[i], splits[i], EndOf(hs, w, names, i))
  BY Zenon DEF BlocksLaid
<1>2. DOMAIN hs = 1..Len(hs) /\ Len(hs) \in Nat /\ w \in Nat
  BY <1>1 DEF IsSequence
<1>3. \A i \in 1..w : i \in Numbers /\ i <= MAX_ORNAMENTS
  BY <1>1 DEF Numbers, MAX_ORNAMENTS
<1>4. /\ all = [p \in DOMAIN at |-> BlockOf(hs, at[p], end(p))]
      /\ bs = Kept(all, K)
      /\ \A a : a \in A <=> a \in 1..Len(hs) /\ \E n \in Numbers : hs[a] = Anchor(n)
  BY <1>2, Zenon DEF BlocksOf, MapOrnaments, Anchors
<1> HIDE DEF A, at, all, bs
<1>5. IsSequence(at) /\ Len(at) = w /\ \A i \in 1..w : at[i] = names[i]
  <2>1. UpTo(Len(hs), A)
    BY <1>2, <1>4 DEF UpTo
  <2>a. A \subseteq Nat
    BY <1>2, <1>4
  <2>2. /\ \A i \in 1..w : names[i] \in A
        /\ \A a \in A : \E i \in 1..w : names[i] = a
    BY <1>1, <1>3, <1>4, Zenon
  <2>3. \A i, j \in 1..w : i < j => names[i] < names[j]
    BY <1>1, Zenon
  <2>4. Enumerates(names, w, A)
    BY <1>2, <2>a, <2>2, <2>3, Zenon DEF Enumerates
  <2>5. QED
    BY <2>1, <2>4, InOrderOf, Zenon DEF at
<1>6. DOMAIN at = 1..w
  BY <1>5, IsSeqOf, Zenon
<1>7. \A i \in 1..w : all[i] = BlockOf(hs, names[i], EndOf(hs, w, names, i))
  <2>1. ASSUME NEW i \in 1..w PROVE all[i] = BlockOf(hs, names[i], EndOf(hs, w, names, i))
    <3>1. end(i) = EndOf(hs, w, names, i)
      <4>1. CASE i < w
        <5>1. i + 1 \in 1..w
          BY <1>2, <4>1
        <5>2. at[i + 1] = names[i + 1]
          BY <1>5, <5>1, Zenon
        <5>3. QED
          BY <1>5, <4>1, <5>2, Zenon DEF EndOf
      <4>2. CASE ~(i < w)
        BY <1>5, <4>2, Zenon DEF EndOf
      <4>3. QED
        BY <4>1, <4>2
    <3> HIDE DEF end
    <3>2. all[i] = BlockOf(hs, at[i], end(i))
      BY <1>4, <1>6, Zenon
    <3>3. QED
      BY <1>5, <3>1, <3>2, Zenon
  <2>2. QED
    BY <2>1
<1>8. IsSequence(all) /\ Len(all) = w
  <2>1. DOMAIN all = 1..w /\ all = [p \in 1..w |-> all[p]]
    <3> DEFINE F(p) == BlockOf(hs, at[p], end(p))
    <3>1. all = [p \in 1..w |-> F(p)]
      BY <1>4, <1>6, Zenon
    <3> HIDE DEF F
    <3>2. QED
      BY <3>1
  <2>2. QED
    BY <1>2, <2>1, AsSequence
<1>9. ASSUME NEW i \in 1..w
      PROVE  all[i].number = i /\ BlockFinds(all[i], names[i], splits[i]) /\ all[i] \in K
  <2> DEFINE last == EndOf(hs, w, names, i)
  <2>a. all[i] = BlockOf(hs, names[i], last) /\ Laid(hs, names[i], splits[i], last)
    BY <1>1, <1>7, Zenon
  <2> HIDE DEF last
  <2>b. BlockFinds(BlockOf(hs, names[i], last), names[i], splits[i])
    BY <2>a, BlockIsLaid, Zenon
  <2>1. BlockFinds(all[i], names[i], splits[i])
    BY <2>a, <2>b, Zenon
  <2>2. all[i].number = (CHOOSE n \in Numbers : hs[names[i]] = Anchor(n))
    <3>1. BlockOf(hs, names[i], last).number = (CHOOSE n \in Numbers : hs[names[i]] = Anchor(n))
      BY Zenon DEF BlockOf
    <3>2. QED
      BY <2>a, <3>1, Zenon
  <2>3. \A n \in Numbers : hs[names[i]] = Anchor(n) <=> n = i
    BY <1>1, <1>3, AnchorsDiffer, Zenon
  <2>4. all[i].number = i
    BY <1>3, <2>2, <2>3, Zenon
  <2>5. all[i] \in Range(all)
    BY <1>8, IsSeqOf, Zenon
  <2>6. QED
    BY <1>3, <2>1, <2>4, <2>5, Zenon
<1>10. IsSequence(bs) /\ Len(bs) = w /\ \A i \in 1..w : bs[i] = all[i]
  <2>1. \A i \in 1..Len(all) : all[i] \in K <=> i <= w
    <3>1. \A i \in 1..w : i <= w
      BY <1>2
    <3>2. QED
      BY <1>8, <1>9, <3>1, Zenon
  <2>2. w \in 0..Len(all)
    BY <1>2, <1>8
  <2>a. IsSequence(Kept(all, K)) /\ Len(Kept(all, K)) = w /\ \A i \in 1..w : Kept(all, K)[i] = all[i]
    BY <1>8, <2>1, <2>2, KeptPrefix, Zenon
  <2>3. QED
    BY <1>4, <2>a, Zenon
<1>11. QED
  BY <1>9, <1>10, Zenon DEF FoundBlocks, bs

(* The ornament's headings are not the loan's. *)
LEMMA MiddleApart ==
  /\ "Jewellery No." \notin Range(LEADING_COLUMNS) /\ "Jewellery No." \notin Range(TRAILING_COLUMNS)
  /\ \A n \in Numbers : Anchor(n) \notin Range(LEADING_COLUMNS) /\ Anchor(n) \notin Range(TRAILING_COLUMNS)
  /\ \A j \in 1..3 :
       /\ DATA_ATTR_ORDER[j] \notin Range(LEADING_COLUMNS) /\ DATA_ATTR_ORDER[j] \notin Range(TRAILING_COLUMNS)
       /\ AUDIT_BLOCK_COLUMNS[j] \notin Range(LEADING_COLUMNS) /\ AUDIT_BLOCK_COLUMNS[j] \notin Range(TRAILING_COLUMNS)
<1> DEFINE J == "Jewellery No."
<1>1. \A x \in Range(LEADING_COLUMNS) :
        /\ x # J /\ \A n \in Numbers : x # Anchor(n)
        /\ \A j \in 1..3 : x # DATA_ATTR_ORDER[j] /\ x # AUDIT_BLOCK_COLUMNS[j]
  BY HeadingsDiffer, Zenon DEF LeadsApart
<1>2. \A x \in Range(TRAILING_COLUMNS) :
        /\ x # J /\ \A n \in Numbers : x # Anchor(n)
        /\ \A j \in 1..3 : x # DATA_ATTR_ORDER[j] /\ x # AUDIT_BLOCK_COLUMNS[j]
  BY HeadingsDiffer, Zenon DEF TrailsApart
<1> HIDE DEF J
<1>3. J \notin Range(LEADING_COLUMNS) /\ J \notin Range(TRAILING_COLUMNS)
  BY <1>1, <1>2, Zenon
<1>4. \A n \in Numbers : Anchor(n) \notin Range(LEADING_COLUMNS) /\ Anchor(n) \notin Range(TRAILING_COLUMNS)
  BY <1>1, <1>2, Zenon
<1>5. \A j \in 1..3 :
       /\ DATA_ATTR_ORDER[j] \notin Range(LEADING_COLUMNS) /\ DATA_ATTR_ORDER[j] \notin Range(TRAILING_COLUMNS)
       /\ AUDIT_BLOCK_COLUMNS[j] \notin Range(LEADING_COLUMNS) /\ AUDIT_BLOCK_COLUMNS[j] \notin Range(TRAILING_COLUMNS)
  BY <1>1, <1>2, Zenon
<1>6. QED
  BY <1>3, <1>4, <1>5, Zenon DEF J

(* Where the columns of an audit sheet are.                                   *)
TallCase(c, m, n) ==
  \/ c \in 1..m
  \/ c = m + 1 \/ c = m + 2
  \/ \E j \in 1..3 : c = m + 2 + j
  \/ \E j \in 1..n : c = m + 5 + j
  \/ \E j \in 1..3 : c = m + n + 5 + j

(* A column of an audit sheet is the loan's, the ornament's or the auditor's. *)
LEMMA TallColumns ==
  ASSUME NEW hs, NEW lead, NEW trail, TallAt(hs, lead, trail), NEW c \in 1..Len(hs)
  PROVE  TallCase(c, Len(lead), Len(trail))
<1> DEFINE m == Len(lead)
           n == Len(trail)
<1>1. m \in Nat /\ n \in Nat /\ Len(hs) = m + n + 8
  BY Zenon DEF TallAt
<1> HIDE DEF m, n
<1>2. \/ c \in 1..m \/ c = m + 1 \/ c = m + 2 \/ c \in (m + 3)..(m + 5)
      \/ c \in (m + 6)..(m + n + 5) \/ c \in (m + n + 6)..(m + n + 8)
  BY <1>1
<1>3. CASE c \in (m + 3)..(m + 5)
  <2>1. c - (m + 2) \in 1..3 /\ c = m + 2 + (c - (m + 2))
    BY <1>1, <1>3
  <2>2. \E j \in 1..3 : c = m + 2 + j
    BY <2>1, Zenon
  <2>3. QED
    BY <2>2, Zenon DEF TallCase, m, n
<1>4. CASE c \in (m + 6)..(m + n + 5)
  <2>1. c - (m + 5) \in 1..n /\ c = m + 5 + (c - (m + 5))
    BY <1>1, <1>4
  <2>2. \E j \in 1..n : c = m + 5 + j
    BY <2>1, Zenon
  <2>3. QED
    BY <2>2, Zenon DEF TallCase, m, n
<1>5. CASE c \in (m + n + 6)..(m + n + 8)
  <2>1. c - (m + n + 5) \in 1..3 /\ c = m + n + 5 + (c - (m + n + 5))
    BY <1>1, <1>5
  <2>2. \E j \in 1..3 : c = m + n + 5 + j
    BY <2>1, Zenon
  <2>3. QED
    BY <2>2, Zenon DEF TallCase, m, n
<1>6. QED
  BY <1>2, <1>3, <1>4, <1>5, Zenon DEF TallCase, m, n

(* Where the loan's columns are in an audit sheet. *)
LEMMA TallLoanColumns ==
  ASSUME NEW hs, NEW lead, NEW trail, TallAt(hs, lead, trail)
  PROVE  LoanColumns(hs, lead, trail, Len(lead) + 5)
<1> DEFINE m == Len(lead)
           n == Len(trail)
           e == m + 5
           J == "Jewellery No."
<1>1. /\ IsSequence(hs) /\ m \in Nat /\ n \in Nat /\ Len(hs) = m + n + 8
      /\ \A j \in 1..m : hs[j] = lead[j] /\ lead[j] \in Range(LEADING_COLUMNS)
      /\ hs[m + 1] = J /\ hs[m + 2] = Anchor(1)
      /\ \A j \in 1..3 : hs[m + 2 + j] = DATA_ATTR_ORDER[j]
      /\ \A j \in 1..n : hs[m + 5 + j] = trail[j] /\ trail[j] \in Range(TRAILING_COLUMNS)
      /\ \A j \in 1..3 : hs[m + n + 5 + j] = AUDIT_BLOCK_COLUMNS[j]
  BY Zenon DEF TallAt
<1>2. ASSUME NEW c \in 1..Len(hs), (m < c /\ c <= e) \/ e + n < c
      PROVE  hs[c] \notin Range(LEADING_COLUMNS) /\ hs[c] \notin Range(TRAILING_COLUMNS)
  <2>1. TallCase(c, m, n)
    BY TallColumns
  <2> HIDE DEF m, n, J
  <2>a. m \in Nat /\ n \in Nat
    BY <1>1, Zenon
  <2>2. c \notin 1..m /\ ~\E j \in 1..n : c = m + 5 + j
    BY <1>2, <2>a
  <2>3. 1 \in Numbers
    BY DEF Numbers
  <2>4. \/ hs[c] = J \/ hs[c] = Anchor(1)
        \/ \E j \in 1..3 : hs[c] = DATA_ATTR_ORDER[j]
        \/ \E j \in 1..3 : hs[c] = AUDIT_BLOCK_COLUMNS[j]
    BY <1>1, <2>1, <2>2, Zenon DEF TallCase
  <2>5. QED
    BY <2>3, <2>4, MiddleApart, Zenon DEF J
<1>3. e \in Nat /\ m <= e /\ e + n <= Len(hs)
  <2> HIDE DEF m, n
  <2>1. m \in Nat /\ n \in Nat /\ Len(hs) = m + n + 8
    BY <1>1, Zenon
  <2>2. QED
    BY <2>1
<1>4. QED
  BY <1>1, <1>2, <1>3, Zenon DEF LoanColumns

(* An audit sheet has one ornament, with its block. *)
LEMMA TallOrnament ==
  ASSUME NEW hs, NEW lead, NEW trail, TallAt(hs, lead, trail)
  PROVE  Len(MapOrnaments(hs)) = 1
         /\ BlockFinds(MapOrnaments(hs)[1], Len(lead) + 2, Len(lead) + Len(trail) + 6)
<1> DEFINE m == Len(lead)
           n == Len(trail)
           J == "Jewellery No."
           a == m + 2
           split == m + n + 6
           last == Len(hs)
           names == [i \in {1} |-> a]
           splits == [i \in {1} |-> split]
<1>1. /\ IsSequence(hs) /\ m \in Nat /\ n \in Nat /\ last = m + n + 8
      /\ \A j \in 1..m : hs[j] = lead[j] /\ lead[j] \in Range(LEADING_COLUMNS)
      /\ hs[m + 1] = J /\ hs[m + 2] = Anchor(1)
      /\ \A j \in 1..3 : hs[m + 2 + j] = DATA_ATTR_ORDER[j]
      /\ \A j \in 1..n : hs[m + 5 + j] = trail[j] /\ trail[j] \in Range(TRAILING_COLUMNS)
      /\ \A j \in 1..3 : hs[m + n + 5 + j] = AUDIT_BLOCK_COLUMNS[j]
  BY Zenon DEF TallAt
<1>a. m \in Nat /\ n \in Nat /\ last = m + n + 8
  BY <1>1, Zenon
<1>2. ASSUME NEW c \in 1..last PROVE TallCase(c, m, n)
  BY TallColumns
<1>3. /\ \A x \in Range(LEADING_COLUMNS) : \A k \in Numbers : x # Anchor(k)
      /\ \A x \in Range(TRAILING_COLUMNS) : (\A k \in Numbers : x # Anchor(k)) /\ x # AUDIT_BLOCK_COLUMNS[1]
      /\ \A j \in 1..3 :
           /\ \A k \in Numbers : DATA_ATTR_ORDER[j] # Anchor(k) /\ AUDIT_BLOCK_COLUMNS[j] # Anchor(k)
           /\ DATA_ATTR_ORDER[j] # AUDIT_BLOCK_COLUMNS[1]
      /\ \A k \in Numbers : Anchor(k) # J
  <2>1. 1 \in 1..3
    OBVIOUS
  <2>2. QED
    BY <2>1, HeadingsDiffer, Zenon DEF LeadsApart, TrailsApart, FiguresApart, NamesApart
<1> HIDE DEF m, n, J, last
<1>4. ASSUME NEW c \in 1..last, NEW k \in Numbers, hs[c] = Anchor(k) PROVE c = a
  <2>1. TallCase(c, m, n)
    BY <1>2, Zenon
  <2>2. CASE c \in 1..m
    BY <1>1, <1>3, <1>4, <2>2, Zenon
  <2>3. CASE c = m + 1 \/ c = m + 2
    BY <1>1, <1>3, <1>4, <2>3, Zenon DEF a
  <2>4. CASE \E j \in 1..3 : c = m + 2 + j
    <3>1. PICK j \in 1..3 : c = m + 2 + j
      BY <2>4
    <3>2. hs[c] = DATA_ATTR_ORDER[j]
      BY <1>1, <3>1, Zenon
    <3>3. QED
      BY <1>1, <1>3, <1>4, <3>2, Zenon
  <2>5. CASE \E j \in 1..n : c = m + 5 + j
    <3>1. PICK j \in 1..n : c = m + 5 + j
      BY <2>5
    <3>2. hs[c] = trail[j]
      BY <1>1, <3>1, Zenon
    <3>3. QED
      BY <1>1, <1>3, <1>4, <3>2, Zenon
  <2>6. CASE \E j \in 1..3 : c = m + n + 5 + j
    <3>1. PICK j \in 1..3 : c = m + n + 5 + j
      BY <2>6
    <3>2. hs[c] = AUDIT_BLOCK_COLUMNS[j]
      BY <1>1, <3>1, Zenon
    <3>3. QED
      BY <1>1, <1>3, <1>4, <3>2, Zenon
  <2>7. QED
    BY <2>1, <2>2, <2>3, <2>4, <2>5, <2>6, Zenon DEF TallCase
<1>5. Laid(hs, a, split, last)
  <2>1. a \in Nat /\ split \in Nat /\ last \in Nat /\ 1 <= a /\ a + 3 < split /\ split + 2 <= last /\ last <= Len(hs)
    BY <1>a DEF last
  <2>2. \A j \in 1..3 : split + (j - 1) = m + n + 5 + j
    BY <1>a
  <2>3. \A j \in 1..3 : hs[a + j] = DATA_ATTR_ORDER[j] /\ hs[split + (j - 1)] = AUDIT_BLOCK_COLUMNS[j]
    BY <1>1, <2>2, Zenon
  <2>4. ASSUME NEW i \in (a + 1)..(split - 1) PROVE hs[i] # AUDIT_BLOCK_COLUMNS[1]
    <3>1. /\ i \in 1..last /\ i \notin 1..m /\ i # m + 1 /\ i # m + 2
          /\ ~\E j \in 1..3 : i = m + n + 5 + j
      BY <1>a
    <3>2. (\E j \in 1..3 : i = m + 2 + j) \/ \E j \in 1..n : i = m + 5 + j
      BY <1>2, <3>1, Zenon DEF TallCase
    <3>3. (\E j \in 1..3 : hs[i] = DATA_ATTR_ORDER[j]) \/ hs[i] \in Range(TRAILING_COLUMNS)
      BY <1>1, <3>2, Zenon
    <3>4. QED
      BY <1>3, <3>3, Zenon
  <2>5. QED
    BY <1>1, <2>1, <2>3, <2>4, Zenon DEF Laid
<1>6. /\ \A i \in 1..1 : i = 1 /\ names[i] = a /\ splits[i] = split
      /\ a \in 1..Len(hs)
  BY <1>a DEF last
<1> HIDE DEF names, splits, a, split
<1>7. BlocksLaid(hs, 1, names, splits)
  <2>1. 1 \in 1..3 /\ 1 \in 1..1 /\ ~(1 < 1)
    OBVIOUS
  <2>2. \A i \in 1..1 : names[i] \in 1..Len(hs) /\ hs[names[i]] = Anchor(i)
    BY <1>1, <1>6, Zenon DEF a
  <2>3. \A i, j \in 1..1 : i < j => names[i] < names[j]
    BY <1>6, <2>1, Zenon
  <2>4. \A c \in 1..Len(hs), k \in Numbers : hs[c] = Anchor(k) => \E i \in 1..1 : names[i] = c
    BY <1>4, <1>6, <2>1, Zenon DEF last
  <2>5. \A i \in 1..1 : Laid(hs, names[i], splits[i], EndOf(hs, 1, names, i))
    BY <1>5, <1>6, <2>1, Zenon DEF EndOf, last
  <2>6. QED
    BY <1>1, <2>1, <2>2, <2>3, <2>4, <2>5, Zenon DEF BlocksLaid
<1>8. FoundBlocks(MapOrnaments(hs), 1, names, splits)
  BY <1>7, BlocksFound
<1>9. Len(MapOrnaments(hs)) = 1 /\ BlockFinds(MapOrnaments(hs)[1], a, split)
  <2>1. 1 \in 1..1
    OBVIOUS
  <2>2. QED
    BY <1>6, <1>8, <2>1, Zenon DEF FoundBlocks
<1>10. QED
  BY <1>9, Zenon DEF a, split, m, n

(* The headings of a folded sheet: the ornaments' groups, between the loan's. *)
Start(m, i) == m + (i - 1) * 8
GroupAt(gs, s, i) ==
  /\ gs[s + 1] = "Jewellery No." /\ gs[s + 2] = Anchor(i)
  /\ \A j \in 1..3 : gs[s + 2 + j] = DATA_ATTR_ORDER[j] /\ gs[s + 5 + j] = AUDIT_BLOCK_COLUMNS[j]
WideAt(gs, lead, trail, w) ==
  LET m == Len(lead)
      n == Len(trail)
  IN
  /\ IsSequence(gs) /\ m \in Nat /\ n \in Nat /\ w \in 1..3
  /\ Len(gs) = m + w * 8 + n
  /\ \A j \in 1..m : gs[j] = lead[j] /\ lead[j] \in Range(LEADING_COLUMNS)
  /\ \A i \in 1..w : GroupAt(gs, Start(m, i), i)
  /\ \A j \in 1..n : gs[m + w * 8 + j] = trail[j] /\ trail[j] \in Range(TRAILING_COLUMNS)

(* The headings of a group. *)
LEMMA GroupHeadingsAre ==
  ASSUME NEW i
  PROVE  IsSequence(GroupHeadings(i)) /\ Len(GroupHeadings(i)) = 8 /\ GroupAt(GroupHeadings(i), 0, i)
<1> DEFINE two == <<"Jewellery No.", Anchor(i)>>
           data == DATA_ATTR_ORDER
           audit == AUDIT_BLOCK_COLUMNS
           g == GroupHeadings(i)
           J == "Jewellery No."
<1>1. g = two \o data \o audit
  BY Zenon DEF GroupHeadings
<1>2. IsSequence(two) /\ Len(two) = 2 /\ two[1] = J /\ two[2] = Anchor(i)
  <2>1. \A x, y : IsSequence(<<x, y>>) /\ Len(<<x, y>>) = 2 /\ <<x, y>>[1] = x /\ <<x, y>>[2] = y
    BY DEF IsSequence
  <2>2. QED
    BY <2>1, Zenon
<1>3. Len(data) = 3 /\ Len(audit) = 3 /\ IsSequence(data) /\ IsSequence(audit)
  BY BlockSizes, Zenon
<1> HIDE DEF two, data, audit, g, J
<1>4. ThreeIn(two \o data \o audit, two, data, audit)
  BY <1>2, <1>3, ThreeJoined
<1>5. /\ IsSequence(g) /\ Len(g) = Len(two) + Len(data) + Len(audit)
      /\ \A j \in 1..Len(two) : g[j] = two[j]
      /\ \A j \in 1..Len(data) : g[Len(two) + j] = data[j]
      /\ \A j \in 1..Len(audit) : g[Len(two) + Len(data) + j] = audit[j]
  BY <1>1, <1>4, Zenon DEF ThreeIn
<1>6. Len(g) = 8
  BY <1>2, <1>3, <1>5
<1>7. /\ g[1] = J /\ g[2] = Anchor(i)
      /\ \A j \in 1..3 : g[2 + j] = data[j] /\ g[5 + j] = audit[j]
  <2>1. 1 \in 1..2 /\ 2 \in 1..2 /\ 2 + 3 = 5
    OBVIOUS
  <2>2. QED
    BY <1>2, <1>3, <1>5, <2>1, Zenon
<1>8. 0 + 1 = 1 /\ 0 + 2 = 2 /\ \A j \in 1..3 : 0 + 2 + j = 2 + j /\ 0 + 5 + j = 5 + j
  OBVIOUS
<1>9. GroupAt(g, 0, i)
  BY <1>7, <1>8, Zenon DEF GroupAt, data, audit, J
<1>10. QED
  BY <1>5, <1>6, <1>9, Zenon DEF g

(* The headings of the groups, one after the other. *)
LEMMA GroupsLaid ==
  ASSUME NEW w \in 1..3
  PROVE  LET flat == FlattenSeq([i \in 1..w |-> GroupHeadings(i)])
         IN IsSequence(flat) /\ Len(flat) = w * 8 /\ \A i \in 1..w : GroupAt(flat, Start(0, i), i)
<1> DEFINE groups == [i \in 1..w |-> GroupHeadings(i)]
           flat == FlattenSeq(groups)
           at == [i \in 1..(w + 1) |-> Start(0, i) + 1]
<1>1. IsSequence(groups) /\ Len(groups) = w
  <2>1. DOMAIN groups = 1..w /\ groups = [i \in 1..w |-> groups[i]] /\ w \in Nat
    OBVIOUS
  <2> HIDE DEF groups
  <2>2. QED
    BY <2>1, AsSequence
<1>2. \A i \in 1..w : groups[i] = GroupHeadings(i)
  BY Zenon
<1>3. \A i \in 1..w : IsSequence(groups[i]) /\ Len(groups[i]) = 8 /\ GroupAt(groups[i], 0, i)
  BY <1>2, GroupHeadingsAre, Zenon
<1> HIDE DEF groups, flat
<1>4. /\ at[1] = 1
      /\ \A i \in 1..w : at[i + 1] = at[i] + 8 /\ at[i] = Start(0, i) + 1
      /\ at[w + 1] = w * 8 + 1
  BY DEF Start
<1> HIDE DEF at
<1>5. InRuns(groups, Len(groups), flat, at)
  <2>1. \A i \in 1..Len(groups) : IsSequence(groups[i]) /\ at[i + 1] = at[i] + Len(groups[i])
    BY <1>1, <1>3, <1>4, Zenon
  <2>2. QED
    BY <1>1, <1>4, <2>1, JoinedRuns DEF flat
<1>6. /\ IsSequence(flat) /\ at[w + 1] = Len(flat) + 1
      /\ \A i \in 1..w : \A k \in 1..8 : flat[at[i] + k - 1] = groups[i][k]
  BY <1>1, <1>3, <1>5, Zenon DEF InRuns
<1>7. Len(flat) = w * 8
  <2>1. Len(flat) + 1 = w * 8 + 1
    BY <1>4, <1>6, Zenon
  <2>2. Len(flat) \in Nat
    BY <1>6, Zenon DEF IsSequence
  <2>3. QED
    BY <2>1, <2>2
<1>8. ASSUME NEW i \in 1..w PROVE GroupAt(flat, Start(0, i), i)
  <2> DEFINE s == Start(0, i)
             g == groups[i]
  <2>1. s \in Nat /\ at[i] = s + 1
    BY <1>4 DEF Start
  <2> HIDE DEF s
  <2>2. /\ \A k \in 1..8 : at[i] + k - 1 = s + k
        /\ 1 \in 1..8 /\ 2 \in 1..8
        /\ \A j \in 1..3 : 2 + j \in 1..8 /\ 5 + j \in 1..8 /\ s + (2 + j) = s + 2 + j /\ s + (5 + j) = s + 5 + j
        /\ 0 + 1 = 1 /\ 0 + 2 = 2 /\ \A j \in 1..3 : 0 + 2 + j = 2 + j /\ 0 + 5 + j = 5 + j
    BY <2>1
  <2>3. ASSUME NEW k \in 1..8 PROVE flat[s + k] = g[k]
    <3>1. flat[at[i] + k - 1] = g[k]
      BY <1>6, Zenon
    <3>2. at[i] + k - 1 = s + k
      BY <2>2, Zenon
    <3>3. QED
      BY <3>1, <3>2, Zenon
  <2>4. GroupAt(g, 0, i)
    BY <1>3, Zenon
  <2> DEFINE J == "Jewellery No."
  <2> HIDE DEF g
  <2>a. /\ g[1] = J /\ g[2] = Anchor(i)
        /\ \A j \in 1..3 : g[2 + j] = DATA_ATTR_ORDER[j] /\ g[5 + j] = AUDIT_BLOCK_COLUMNS[j]
    BY <2>2, <2>4, Zenon DEF GroupAt
  <2> HIDE DEF J
  <2>b. flat[s + 1] = J /\ flat[s + 2] = Anchor(i)
    BY <2>2, <2>3, <2>a, Zenon
  <2>c. ASSUME NEW j \in 1..3
        PROVE  flat[s + 2 + j] = DATA_ATTR_ORDER[j] /\ flat[s + 5 + j] = AUDIT_BLOCK_COLUMNS[j]
    <3>1. flat[s + (2 + j)] = g[2 + j] /\ flat[s + (5 + j)] = g[5 + j]
      BY <2>2, <2>3, Zenon
    <3>2. s + (2 + j) = s + 2 + j /\ s + (5 + j) = s + 5 + j
      BY <2>2, Zenon
    <3>3. QED
      BY <2>a, <3>1, <3>2, Zenon
  <2>5. GroupAt(flat, s, i)
    BY <2>b, <2>c, Zenon DEF GroupAt, J
  <2>6. QED
    BY <2>5, Zenon DEF s
<1>9. QED
  BY <1>6, <1>7, <1>8, Zenon DEF flat, groups

(* The headings of a folded sheet, column by column. *)
LEMMA WideHeadings ==
  ASSUME NEW hs, NEW w \in 1..3
  PROVE  LET lead == Present(LEADING_COLUMNS, hs)
             trail == Present(TRAILING_COLUMNS, hs)
         IN WideAt(BuildHeaders(lead, trail, w), lead, trail, w)
<1> DEFINE lead == Present(LEADING_COLUMNS, hs)
           trail == Present(TRAILING_COLUMNS, hs)
           flat == FlattenSeq([i \in 1..w |-> GroupHeadings(i)])
           gs == BuildHeaders(lead, trail, w)
           m == Len(lead)
           n == Len(trail)
<1>1. gs = lead \o flat \o trail
  BY Zenon DEF BuildHeaders
<1>2. IsSequence(lead) /\ IsSequence(trail)
  BY ColumnsAre, PresentIs, Zenon
<1>3. /\ \A j \in 1..m : lead[j] \in Range(LEADING_COLUMNS)
      /\ \A j \in 1..n : trail[j] \in Range(TRAILING_COLUMNS)
  BY ColumnsAre, PresentIs, Zenon
<1>4. IsSequence(flat) /\ Len(flat) = w * 8 /\ \A i \in 1..w : GroupAt(flat, Start(0, i), i)
  BY GroupsLaid
<1> HIDE DEF lead, trail, flat, gs
<1>5. ThreeIn(lead \o flat \o trail, lead, flat, trail)
  BY <1>2, <1>4, ThreeJoined
<1>6. /\ IsSequence(gs) /\ Len(gs) = m + Len(flat) + n
      /\ m \in Nat /\ n \in Nat
      /\ \A j \in 1..m : gs[j] = lead[j]
      /\ \A j \in 1..Len(flat) : gs[m + j] = flat[j]
      /\ \A j \in 1..n : gs[m + Len(flat) + j] = trail[j]
  BY <1>1, <1>5, Zenon DEF ThreeIn
<1>a. m \in Nat
  BY <1>6, Zenon
<1>7. ASSUME NEW i \in 1..w PROVE GroupAt(gs, Start(m, i), i)
  <2> DEFINE s == Start(0, i)
             t == Start(m, i)
  <2> HIDE DEF m
  <2>1. s \in Nat /\ t = m + s /\ s + 8 <= w * 8
    BY <1>a DEF Start
  <2> HIDE DEF s, t
  <2>2. /\ s + 1 \in 1..(w * 8) /\ s + 2 \in 1..(w * 8)
        /\ t + 1 = m + (s + 1) /\ t + 2 = m + (s + 2)
        /\ \A j \in 1..3 : /\ s + 2 + j \in 1..(w * 8) /\ s + 5 + j \in 1..(w * 8)
                           /\ t + 2 + j = m + (s + 2 + j) /\ t + 5 + j = m + (s + 5 + j)
    BY <1>a, <2>1
  <2>3. \A j \in 1..(w * 8) : gs[m + j] = flat[j]
    BY <1>4, <1>6, Zenon
  <2>4. GroupAt(flat, s, i)
    BY <1>4, Zenon DEF s
  <2>5. GroupAt(gs, t, i)
    BY <2>2, <2>3, <2>4, Zenon DEF GroupAt
  <2>6. QED
    BY <2>5, Zenon DEF t
<1>8. Len(gs) = m + w * 8 + n /\ \A j \in 1..n : gs[m + w * 8 + j] = trail[j]
  BY <1>4, <1>6, Zenon
<1>9. WideAt(gs, lead, trail, w)
  BY <1>3, <1>6, <1>7, <1>8, Zenon DEF WideAt
<1>10. QED
  BY <1>9, Zenon DEF gs, lead, trail

WideCase(c, m, n, w) ==
  \/ c \in 1..m
  \/ \E i \in 1..w : \E k \in 1..8 : c = Start(m, i) + k
  \/ \E j \in 1..n : c = m + w * 8 + j

(* A column of a folded sheet is the loan's or of a group. *)
LEMMA WideColumns ==
  ASSUME NEW m \in Nat, NEW n \in Nat, NEW w \in 1..3, NEW c \in 1..(m + w * 8 + n)
  PROVE  WideCase(c, m, n, w)
<1>1. CASE c <= m
  BY <1>1 DEF WideCase
<1>2. CASE c > m + w * 8
  <2>1. c - (m + w * 8) \in 1..n /\ c = m + w * 8 + (c - (m + w * 8))
    BY <1>2
  <2>2. QED
    BY <2>1, Zenon DEF WideCase
<1>3. CASE m < c /\ c <= m + w * 8
  <2> DEFINE d == c - m
  <2>1. d \in 1..(w * 8) /\ c = m + d
    BY <1>3
  <2> HIDE DEF d
  <2>2. PICK i \in 1..w : (i - 1) * 8 < d /\ d <= i * 8
    <3>1. CASE d <= 8
      BY <2>1, <3>1
    <3>2. CASE 8 < d /\ d <= 16
      <4>1. 2 \in 1..w
        BY <2>1, <3>2
      <4>2. QED
        BY <3>2, <4>1
    <3>3. CASE 16 < d
      <4>1. 3 \in 1..w /\ d <= 24
        BY <2>1, <3>3
      <4>2. QED
        BY <3>3, <4>1
    <3>4. QED
      BY <2>1, <3>1, <3>2, <3>3
  <2>3. d - (i - 1) * 8 \in 1..8 /\ c = Start(m, i) + (d - (i - 1) * 8)
    BY <2>1, <2>2 DEF Start
  <2>4. QED
    BY <2>3, Zenon DEF WideCase
<1>4. QED
  BY <1>1, <1>2, <1>3

GroupKind(x, i) ==
  \/ x = "Jewellery No." \/ x = Anchor(i)
  \/ \E j \in 1..3 : x = DATA_ATTR_ORDER[j]
  \/ \E j \in 1..3 : x = AUDIT_BLOCK_COLUMNS[j]

(* The places in a group. *)
LEMMA GroupItems ==
  ASSUME NEW k \in 1..8
  PROVE  k = 1 \/ k = 2 \/ (\E j \in 1..3 : k = 2 + j) \/ \E j \in 1..3 : k = 5 + j
<1>1. k = 1 \/ k = 2 \/ k = 2 + 1 \/ k = 2 + 2 \/ k = 2 + 3 \/ k = 5 + 1 \/ k = 5 + 2 \/ k = 5 + 3
  OBVIOUS
<1>2. 1 \in 1..3 /\ 2 \in 1..3 /\ 3 \in 1..3
  OBVIOUS
<1>3. QED
  BY <1>1, <1>2, Zenon

(* What heads a place in a group. *)
LEMMA GroupKinds ==
  ASSUME NEW gs, NEW s \in Nat, NEW i, GroupAt(gs, s, i), NEW k \in 1..8
  PROVE  /\ GroupKind(gs[s + k], i)
         /\ k # 2 => \A n \in Numbers : gs[s + k] # Anchor(n)
<1> DEFINE J == "Jewellery No."
           p == s + k
<1>1. /\ gs[s + 1] = J /\ gs[s + 2] = Anchor(i)
      /\ \A j \in 1..3 : gs[s + 2 + j] = DATA_ATTR_ORDER[j] /\ gs[s + 5 + j] = AUDIT_BLOCK_COLUMNS[j]
  BY Zenon DEF GroupAt
<1>2. /\ \A j \in 1..3 : \A n \in Numbers : DATA_ATTR_ORDER[j] # Anchor(n) /\ AUDIT_BLOCK_COLUMNS[j] # Anchor(n)
      /\ \A n \in Numbers : J # Anchor(n)
  BY HeadingsDiffer, Zenon DEF FiguresApart, NamesApart
<1>3. \A x : x = J \/ (\E j \in 1..3 : x = DATA_ATTR_ORDER[j]) \/ (\E j \in 1..3 : x = AUDIT_BLOCK_COLUMNS[j])
        => GroupKind(x, i) /\ \A n \in Numbers : x # Anchor(n)
  BY <1>2, Zenon DEF GroupKind
<1> HIDE DEF J, p
<1>4. CASE k = 1
  <2>1. gs[p] = J
    BY <1>1, <1>4, Zenon DEF p
  <2>2. QED
    BY <1>3, <2>1, Zenon DEF p
<1>5. CASE k = 2
  <2>1. gs[p] = Anchor(i)
    BY <1>1, <1>5, Zenon DEF p
  <2>2. QED
    BY <1>5, <2>1, Zenon DEF p, GroupKind
<1>6. CASE \E j \in 1..3 : k = 2 + j
  <2>1. PICK j \in 1..3 : k = 2 + j
    BY <1>6
  <2>2. p = s + 2 + j
    BY <2>1 DEF p
  <2>3. gs[p] = DATA_ATTR_ORDER[j]
    BY <1>1, <2>2, Zenon
  <2>4. QED
    BY <1>3, <2>3, Zenon DEF p
<1>7. CASE \E j \in 1..3 : k = 5 + j
  <2>1. PICK j \in 1..3 : k = 5 + j
    BY <1>7
  <2>2. p = s + 5 + j
    BY <2>1 DEF p
  <2>3. gs[p] = AUDIT_BLOCK_COLUMNS[j]
    BY <1>1, <2>2, Zenon
  <2>4. QED
    BY <1>3, <2>3, Zenon DEF p
<1>8. QED
  BY <1>4, <1>5, <1>6, <1>7, GroupItems, Zenon

(* Where the loan's columns are in a folded sheet. *)
LEMMA WideLoanColumns ==
  ASSUME NEW gs, NEW lead, NEW trail, NEW w, WideAt(gs, lead, trail, w)
  PROVE  LoanColumns(gs, lead, trail, Len(lead) + w * 8)
<1> DEFINE m == Len(lead)
           n == Len(trail)
           e == m + w * 8
<1>1. /\ IsSequence(gs) /\ m \in Nat /\ n \in Nat /\ w \in 1..3
      /\ Len(gs) = m + w * 8 + n
      /\ \A j \in 1..m : gs[j] = lead[j] /\ lead[j] \in Range(LEADING_COLUMNS)
      /\ \A i \in 1..w : GroupAt(gs, Start(m, i), i)
      /\ \A j \in 1..n : gs[m + w * 8 + j] = trail[j] /\ trail[j] \in Range(TRAILING_COLUMNS)
  BY Zenon DEF WideAt
<1>a. m \in Nat /\ n \in Nat /\ w \in 1..3 /\ Len(gs) = m + w * 8 + n
  BY <1>1, Zenon
<1> HIDE DEF m, n
<1>2. ASSUME NEW c \in 1..Len(gs), (m < c /\ c <= e) \/ e + n < c
      PROVE  gs[c] \notin Range(LEADING_COLUMNS) /\ gs[c] \notin Range(TRAILING_COLUMNS)
  <2>1. WideCase(c, m, n, w)
    BY <1>a, WideColumns
  <2>2. c \notin 1..m /\ ~\E j \in 1..n : c = m + w * 8 + j
    BY <1>a, <1>2
  <2>3. PICK i \in 1..w : \E k \in 1..8 : c = Start(m, i) + k
    BY <2>1, <2>2, Zenon DEF WideCase
  <2>4. PICK k \in 1..8 : c = Start(m, i) + k
    BY <2>3, Zenon
  <2>5. Start(m, i) \in Nat /\ i \in Numbers
    BY <1>a DEF Start, Numbers
  <2>6. GroupAt(gs, Start(m, i), i)
    BY <1>1, Zenon
  <2>7. GroupKind(gs[c], i)
    BY <2>4, <2>5, <2>6, GroupKinds
  <2>8. QED
    BY <2>5, <2>7, MiddleApart, Zenon DEF GroupKind
<1>3. e \in Nat /\ m <= e /\ e + n <= Len(gs)
  BY <1>a
<1>4. QED
  BY <1>1, <1>2, <1>3, Zenon DEF LoanColumns, m, n

(* The blocks of a folded sheet are its groups. *)
LEMMA WideBlocks ==
  ASSUME NEW gs, NEW lead, NEW trail, NEW w, WideAt(gs, lead, trail, w)
  PROVE  BlocksLaid(gs, w, [i \in 1..w |-> Start(Len(lead), i) + 2], [i \in 1..w |-> Start(Len(lead), i) + 6])
<1> DEFINE m == Len(lead)
           n == Len(trail)
           names == [i \in 1..w |-> Start(m, i) + 2]
           splits == [i \in 1..w |-> Start(m, i) + 6]
           last(i) == EndOf(gs, w, names, i)
<1>1. /\ IsSequence(gs) /\ m \in Nat /\ n \in Nat /\ w \in 1..3
      /\ Len(gs) = m + w * 8 + n
      /\ \A j \in 1..m : gs[j] = lead[j] /\ lead[j] \in Range(LEADING_COLUMNS)
      /\ \A i \in 1..w : GroupAt(gs, Start(m, i), i)
      /\ \A j \in 1..n : gs[m + w * 8 + j] = trail[j] /\ trail[j] \in Range(TRAILING_COLUMNS)
  BY Zenon DEF WideAt
<1>a. m \in Nat /\ n \in Nat /\ w \in 1..3 /\ Len(gs) = m + w * 8 + n
  BY <1>1, Zenon
<1> HIDE DEF m, n
<1>b. \A i \in 1..w : names[i] = Start(m, i) + 2 /\ splits[i] = Start(m, i) + 6
  BY Zenon
<1> HIDE DEF names, splits
<1>c. /\ \A i \in 1..w : Start(m, i) \in Nat /\ Start(m, i) + 8 <= Len(gs)
      /\ \A i, j \in 1..w : i < j => Start(m, i) + 8 <= Start(m, j)
      /\ \A i \in 1..w : i < w => i + 1 \in 1..w /\ Start(m, i + 1) = Start(m, i) + 8
  BY <1>a DEF Start
<1>2. ASSUME NEW i \in 1..w PROVE names[i] \in 1..Len(gs) /\ gs[names[i]] = Anchor(i)
  <2>1. Start(m, i) + 2 \in 1..Len(gs)
    BY <1>a, <1>c
  <2>2. GroupAt(gs, Start(m, i), i)
    BY <1>1, Zenon
  <2>3. gs[Start(m, i) + 2] = Anchor(i)
    BY <2>2, Zenon DEF GroupAt
  <2>4. QED
    BY <1>b, <2>1, <2>3, Zenon
<1>3. ASSUME NEW i \in 1..w, NEW j \in 1..w, i < j PROVE names[i] < names[j]
  <2> DEFINE s == Start(m, i)
             t == Start(m, j)
  <2>1. s \in Nat /\ t \in Nat /\ s + 8 <= t /\ names[i] = s + 2 /\ names[j] = t + 2
    BY <1>b, <1>c, <1>3, Zenon
  <2> HIDE DEF s, t
  <2>2. QED
    BY <2>1
<1>4. ASSUME NEW a \in 1..Len(gs), NEW k \in Numbers, gs[a] = Anchor(k) PROVE \E i \in 1..w : names[i] = a
  <2>1. WideCase(a, m, n, w)
    BY <1>a, WideColumns
  <2>2. CASE a \in 1..m
    BY <1>1, <1>4, <2>2, HeadingsDiffer, Zenon DEF LeadsApart
  <2>3. CASE \E j \in 1..n : a = m + w * 8 + j
    <3>1. gs[a] \in Range(TRAILING_COLUMNS)
      BY <1>1, <2>3, Zenon
    <3>2. QED
      BY <1>4, <3>1, HeadingsDiffer, Zenon DEF TrailsApart
  <2>4. CASE \E i \in 1..w : \E q \in 1..8 : a = Start(m, i) + q
    <3>1. PICK i \in 1..w : \E q \in 1..8 : a = Start(m, i) + q
      BY <2>4, Zenon
    <3>2. PICK q \in 1..8 : a = Start(m, i) + q
      BY <3>1, Zenon
    <3>3. GroupAt(gs, Start(m, i), i) /\ Start(m, i) \in Nat
      BY <1>1, <1>c, Zenon
    <3>4. q # 2 => \A x \in Numbers : gs[a] # Anchor(x)
      BY <3>2, <3>3, GroupKinds
    <3>5. q = 2
      BY <1>4, <3>4, Zenon
    <3>6. QED
      BY <1>b, <3>2, <3>5, Zenon
  <2>5. QED
    BY <2>1, <2>2, <2>3, <2>4, Zenon DEF WideCase
<1>5. ASSUME NEW i \in 1..w PROVE Laid(gs, names[i], splits[i], last(i))
  <2> DEFINE s == Start(m, i)
             N == Len(gs)
  <2>1. GroupAt(gs, s, i) /\ s \in Nat /\ s + 8 <= N /\ names[i] = s + 2 /\ splits[i] = s + 6
    BY <1>1, <1>b, <1>c, Zenon
  <2>2. last(i) \in Nat /\ s + 8 <= last(i) /\ last(i) <= N
    <3>1. CASE i < w
      <4>1. i + 1 \in 1..w /\ Start(m, i + 1) = s + 8 /\ names[i + 1] = Start(m, i + 1) + 2
            /\ Start(m, i + 1) + 8 <= N
        BY <1>b, <1>c, <3>1, Zenon
      <4>2. last(i) = names[i + 1] - 1
        BY <3>1, Zenon DEF EndOf
      <4> HIDE DEF last, s
      <4>3. N \in Nat
        BY <1>a
      <4>4. QED
        BY <2>1, <4>1, <4>2, <4>3
    <3>2. CASE ~(i < w)
      <4>1. last(i) = N
        BY <3>2, Zenon DEF EndOf
      <4>2. N \in Nat
        BY <1>a
      <4> HIDE DEF last, s, N
      <4>3. QED
        BY <2>1, <4>1, <4>2
    <3>3. QED
      BY <3>1, <3>2, Zenon
  <2> HIDE DEF s, last
  <2>3. /\ names[i] \in Nat /\ splits[i] \in Nat /\ 1 <= names[i] /\ names[i] + 3 < splits[i] /\ splits[i] + 2 <= last(i)
        /\ \A j \in 1..3 : names[i] + j = s + 2 + j /\ splits[i] + (j - 1) = s + 5 + j
    BY <2>1, <2>2
  <2>4. \A j \in 1..3 : gs[s + 2 + j] = DATA_ATTR_ORDER[j] /\ gs[s + 5 + j] = AUDIT_BLOCK_COLUMNS[j]
    BY <2>1, Zenon DEF GroupAt
  <2>5. \A j \in 1..3 : gs[names[i] + j] = DATA_ATTR_ORDER[j] /\ gs[splits[i] + (j - 1)] = AUDIT_BLOCK_COLUMNS[j]
    BY <2>3, <2>4, Zenon
  <2>6. ASSUME NEW c \in (names[i] + 1)..(splits[i] - 1) PROVE gs[c] # AUDIT_BLOCK_COLUMNS[1]
    <3> DEFINE j == c - (s + 2)
    <3>1. j \in 1..3 /\ c = s + 2 + j
      BY <2>1
    <3> HIDE DEF j
    <3>2. gs[c] = DATA_ATTR_ORDER[j]
      BY <2>4, <3>1, Zenon
    <3>3. QED
      BY <3>1, <3>2, HeadingsDiffer, Zenon DEF FiguresApart
  <2>7. QED
    BY <1>1, <2>2, <2>3, <2>5, <2>6, Zenon DEF Laid
<1>6. BlocksLaid(gs, w, names, splits)
  BY <1>1, <1>2, <1>3, <1>4, <1>5, Zenon DEF BlocksLaid
<1>7. QED
  BY <1>6, Zenon DEF names, splits, m

(* A folded sheet has the ornaments of its groups. *)
LEMMA WideOrnaments ==
  ASSUME NEW gs, NEW lead, NEW trail, NEW w, WideAt(gs, lead, trail, w)
  PROVE  FoundBlocks(MapOrnaments(gs), w, [i \in 1..w |-> Start(Len(lead), i) + 2], [i \in 1..w |-> Start(Len(lead), i) + 6])
<1> DEFINE names == [i \in 1..w |-> Start(Len(lead), i) + 2]
           splits == [i \in 1..w |-> Start(Len(lead), i) + 6]
<1>1. BlocksLaid(gs, w, names, splits)
  BY WideBlocks
<1> HIDE DEF names, splits
<1>2. FoundBlocks(MapOrnaments(gs), w, names, splits)
  BY <1>1, BlocksFound
<1>3. QED
  BY <1>2, Zenon DEF names, splits

(* A formula of row r is beyond the branch's columns and refers to figures.   *)
FormulaCell(hs, row, r, c, width) ==
  row[c].k = "formula" =>
    LET refs == row[c].refs IN
    /\ c > width /\ IsSequence(refs) /\ refs # <<>>
    /\ \A i \in DOMAIN refs :
         /\ refs[i] = <<refs[i][1], refs[i][2]>>
         /\ refs[i][2] = FIRST_DATA_ROW + r - 1 /\ refs[i][1] \in DOMAIN hs
              => row[refs[i][1]].k # "formula"

(* A row of an audit sheet.                                                   *)
AuditRow(sheet, m, n, r) ==
  LET row == sheet.rows[r]
      ring == row[m + 2]
  IN
  /\ IsSequence(row) /\ Len(row) = m + n + 8
  /\ \E q \in 1..Len(sheet.rows) : IsLoan(sheet.headers, sheet.rows[q]) /\ q <= r /\ r < q + 3
  /\ ~IsLoan(sheet.headers, row) =>
       (\A c \in 1..m : row[c] = Nothing) /\ \A j \in 1..n : row[m + 5 + j] = Nothing
  /\ IsLoan(sheet.headers, row) =>
       \A j \in 1..n : sheet.headers[m + 5 + j] = "Cluster Manager" => row[m + 5 + j] # Nothing
  /\ ring = Value(<<"ring", ring.of[2], ring.of[3]>>)
  /\ row[m + n + 6] = Value(<<"Count of Ornament", ring.of[2], ring.of[3]>>)
  /\ \A c \in 1..(m + n + 8) : IsSheetCell(row[c]) /\ FormulaCell(sheet.headers, row, r, c, m + n + 5)

AuditAt(sheet, lead, trail) ==
  /\ TallAt(sheet.headers, lead, trail) /\ Once(lead) /\ Once(trail)
  /\ IsSequence(lead) /\ IsSequence(trail)
  /\ {"Loan No.", "SR No."} \subseteq Range(lead)
  /\ IsSequence(sheet.rows) /\ sheet.rows # <<>>
  /\ \A r \in 1..Len(sheet.rows) : AuditRow(sheet, Len(lead), Len(trail), r)

(* An audit sheet, with its headings counted off. *)
LEMMA AuditSheetIs ==
  ASSUME NEW sheet, IsAuditSheet(sheet)
  PROVE  AuditAt(sheet, Present(LEADING_COLUMNS, sheet.headers), Present(TRAILING_COLUMNS, sheet.headers))
<1> DEFINE hs == sheet.headers
           rows == sheet.rows
           lead == Present(LEADING_COLUMNS, hs)
           trail == Present(TRAILING_COLUMNS, hs)
           m == Len(lead)
           n == Len(trail)
           width == Len(hs) - Len(AUDIT_BLOCK_COLUMNS)
           ofLoan == {c \in 1..width : hs[c] \in Range(LEADING_COLUMNS) \cup Range(TRAILING_COLUMNS)}
           M == "Cluster Manager"
           Jewel == "Jewellery1"
           Ring == "ring"
           Count == "Count of Ornament"
<1>1. /\ hs = TallHeaders(hs) \o AUDIT_BLOCK_COLUMNS /\ REQUIRED_COLUMNS \subseteq Range(hs)
      /\ IsSequence(rows) /\ rows # <<>>
      /\ \A r \in DOMAIN rows :
           /\ IsSequence(rows[r]) /\ Len(rows[r]) = Len(hs)
           /\ \E q \in DOMAIN rows : IsLoan(hs, rows[q]) /\ q <= r /\ r < q + MAX_ORNAMENTS
           /\ \A c \in ofLoan : IF IsLoan(hs, rows[r]) THEN hs[c] = M => ~Blank(rows[r][c])
                                 ELSE Blank(rows[r][c])
           /\ LET ring == rows[r][IndexOf(hs, Jewel)] IN
                /\ ring = Value(<<Ring, ring.of[2], ring.of[3]>>)
                /\ rows[r][width + 1] = Value(<<Count, ring.of[2], ring.of[3]>>)
           /\ \A c \in DOMAIN hs : IsSheetCell(rows[r][c])
           /\ \A c \in DOMAIN hs : FormulaCell(hs, rows[r], r, c, width)
  <2>1. /\ hs = TallHeaders(hs) \o AUDIT_BLOCK_COLUMNS /\ REQUIRED_COLUMNS \subseteq Range(hs)
        /\ IsSequence(rows) /\ rows # <<>>
    BY Zenon DEF IsAuditSheet
  <2>2. \A r \in DOMAIN rows :
          /\ IsSequence(rows[r]) /\ Len(rows[r]) = Len(hs)
          /\ \E q \in DOMAIN rows : IsLoan(hs, rows[q]) /\ q <= r /\ r < q + MAX_ORNAMENTS
          /\ \A c \in ofLoan : IF IsLoan(hs, rows[r]) THEN hs[c] = M => ~Blank(rows[r][c])
                                ELSE Blank(rows[r][c])
    BY Zenon DEF IsAuditSheet
  <2>3. \A r \in DOMAIN rows :
          LET ring == rows[r][IndexOf(hs, Jewel)] IN
                /\ ring = Value(<<Ring, ring.of[2], ring.of[3]>>)
                /\ rows[r][width + 1] = Value(<<Count, ring.of[2], ring.of[3]>>)
    BY Zenon DEF IsAuditSheet
  <2>4. \A r \in DOMAIN rows : \A c \in DOMAIN hs : IsSheetCell(rows[r][c])
    <3>1. ASSUME NEW r \in DOMAIN sheet.rows, NEW c \in DOMAIN sheet.headers PROVE IsSheetCell(sheet.rows[r][c])
      BY Zenon DEF IsAuditSheet
    <3>2. QED
      BY <3>1, Zenon
  <2>5. \A r \in DOMAIN rows : \A c \in DOMAIN hs : FormulaCell(hs, rows[r], r, c, width)
    <3> DEFINE Written(r, c) ==
                 rows[r][c].k = "formula" =>
                   LET refs == rows[r][c].refs IN
                   /\ c > width /\ IsSequence(refs) /\ refs # <<>>
                   /\ \A i \in DOMAIN refs :
                        /\ refs[i] = <<refs[i][1], refs[i][2]>>
                        /\ refs[i][2] = FIRST_DATA_ROW + r - 1 /\ refs[i][1] \in DOMAIN hs
                             => rows[r][refs[i][1]].k # "formula"
    <3>1. \A r \in DOMAIN rows : \A c \in DOMAIN hs : Written(r, c)
      BY Zenon DEF IsAuditSheet
    <3>2. \A r, c : Written(r, c) => FormulaCell(hs, rows[r], r, c, width)
      <4> HIDE DEF hs, rows, width
      <4>1. QED
        BY Zenon DEF FormulaCell
    <3> HIDE DEF Written
    <3>3. QED
      BY <3>1, <3>2, Zenon
  <2>6. ASSUME NEW r \in DOMAIN rows
        PROVE /\ IsSequence(rows[r]) /\ Len(rows[r]) = Len(hs)
              /\ \E q \in DOMAIN rows : IsLoan(hs, rows[q]) /\ q <= r /\ r < q + MAX_ORNAMENTS
              /\ \A c \in ofLoan : IF IsLoan(hs, rows[r]) THEN hs[c] = M => ~Blank(rows[r][c])
                                    ELSE Blank(rows[r][c])
              /\ LET ring == rows[r][IndexOf(hs, Jewel)] IN
                   /\ ring = Value(<<Ring, ring.of[2], ring.of[3]>>)
                   /\ rows[r][width + 1] = Value(<<Count, ring.of[2], ring.of[3]>>)
              /\ \A c \in DOMAIN hs : IsSheetCell(rows[r][c])
              /\ \A c \in DOMAIN hs : FormulaCell(hs, rows[r], r, c, width)
    <3> HIDE DEF hs, rows, width, ofLoan, M, Jewel, Ring, Count
    <3>1. QED
      BY <2>2, <2>3, <2>4, <2>5, Zenon
  <2> HIDE DEF hs, rows, width, ofLoan, M, Jewel, Ring, Count
  <2>7. QED
    BY <2>1, <2>6, Zenon
<1>2. TallAt(hs, lead, trail)
  BY <1>1, HeadingsOfAudit, Zenon
<1>3. Once(lead) /\ Once(trail) /\ IsSequence(lead) /\ IsSequence(trail)
  BY PresentOnce, ColumnsAre, PresentIs, Zenon
<1>4. {"Loan No.", "SR No."} \subseteq Range(lead)
  <2>1. LoanColumns(hs, lead, trail, m + 5)
    BY <1>2, TallLoanColumns, Zenon
  <2>2. \A h \in Range(LEADING_COLUMNS) : h \in Range(hs) <=> h \in Range(lead)
    <3> DEFINE e == m + 5
    <3>1. LoanColumns(hs, lead, trail, e) /\ IsSequence(lead) /\ IsSequence(trail)
      BY <1>3, <2>1, Zenon
    <3> HIDE DEF hs, lead, trail, e
    <3>2. QED
      BY <3>1, LoanColumnsThere
  <2>3. "Loan No." \in Range(LEADING_COLUMNS) /\ "SR No." \in Range(LEADING_COLUMNS)
    <3>a. Range(LEADING_COLUMNS) = {"SR No.", "Branch", "Loan No."}
      BY RangeOfThree, Zenon DEF LEADING_COLUMNS
    <3>2. QED
      BY <3>a, Zenon
  <2>4. \A h \in Range(LEADING_COLUMNS) : h \in Range(hs)
    <3>1. \A h \in Range(LEADING_COLUMNS) : h \in REQUIRED_COLUMNS
      BY Zenon DEF REQUIRED_COLUMNS
    <3>2. \A h \in REQUIRED_COLUMNS : h \in Range(hs)
      BY <1>1, Zenon
    <3>3. QED
      BY <3>1, <3>2, Zenon
  <2>5. QED
    BY <2>2, <2>3, <2>4, Zenon
<1>5. /\ IsSequence(hs) /\ m \in Nat /\ n \in Nat /\ Len(hs) = m + n + 8
      /\ \A j \in 1..m : hs[j] = lead[j] /\ lead[j] \in Range(LEADING_COLUMNS)
      /\ hs[m + 2] = Anchor(1)
      /\ \A j \in 1..n : hs[m + 5 + j] = trail[j] /\ trail[j] \in Range(TRAILING_COLUMNS)
  BY <1>2, Zenon DEF TallAt
<1>6. IndexOf(hs, Jewel) = m + 2
  <2>1. BlockFinds(MapOrnaments(hs)[1], m + 2, m + n + 6)
    BY <1>2, TallOrnament, Zenon
  <2>2. Jewel = Anchor(1)
    BY AnchorsAre, Zenon
  <2>3. m + 2 \in 1..Len(hs)
    BY <1>5
  <2>4. \A i \in 1..((m + 2) - 1) : hs[i] # Anchor(1)
    <3>1. ASSUME NEW i \in 1..((m + 2) - 1) PROVE hs[i] # Anchor(1)
      <4>1. i \in 1..m \/ i = m + 1
        BY <1>5
      <4>2. 1 \in Numbers
        BY DEF Numbers
      <4>3. CASE i \in 1..m
        BY <1>5, <4>2, <4>3, HeadingsDiffer, Zenon DEF LeadsApart
      <4>4. CASE i = m + 1
        BY <1>2, <4>2, <4>4, HeadingsDiffer, Zenon DEF NamesApart, TallAt
      <4>5. QED
        BY <4>1, <4>3, <4>4, Zenon
    <3>2. QED
      BY <3>1, Zenon
  <2> DEFINE c == m + 2
             h == Anchor(1)
  <2>5. IsSequence(hs) /\ c \in 1..Len(hs) /\ hs[c] = h /\ \A i \in 1..(c - 1) : hs[i] # h
    BY <1>5, <2>3, <2>4, Zenon
  <2> HIDE DEF c, h
  <2>6. IndexOf(hs, h) = c
    BY <2>5, IndexIs
  <2>7. QED
    BY <2>2, <2>6, Zenon DEF c, h
<1>7. width = m + n + 5 /\ width + 1 = m + n + 6 /\ DOMAIN hs = 1..(m + n + 8) /\ DOMAIN rows = 1..Len(rows)
  <2>1. Len(AUDIT_BLOCK_COLUMNS) = 3
    BY BlockSizes, Zenon
  <2>2. DOMAIN hs = 1..Len(hs) /\ DOMAIN rows = 1..Len(rows)
    BY <1>1, <1>5, IsSeqOf, Zenon
  <2> DEFINE k == Len(AUDIT_BLOCK_COLUMNS)
             N == Len(hs)
  <2>3. k = 3 /\ N = m + n + 8 /\ m \in Nat /\ n \in Nat
    BY <1>5, <2>1, Zenon
  <2> HIDE DEF k, N, m, n
  <2>4. N - k = m + n + 5 /\ (N - k) + 1 = m + n + 6
    BY <2>3
  <2>5. QED
    BY <2>2, <2>3, <2>4, Zenon DEF k, N
<1>8. /\ \A c \in 1..m : c \in ofLoan /\ hs[c] # M
      /\ \A j \in 1..n : m + 5 + j \in ofLoan
  <2>1. \A j \in 1..m : j \in 1..width
    BY <1>5, <1>7
  <2>2. \A j \in 1..n : m + 5 + j \in 1..width
    BY <1>5, <1>7
  <2>3. \A j \in 1..m : lead[j] # M
    BY <1>5, HeadingsDiffer, Zenon DEF LeadsApart
  <2> HIDE DEF width
  <2>4. QED
    BY <1>5, <2>1, <2>2, <2>3, Zenon
<1>9. MAX_ORNAMENTS = 3
  BY DEF MAX_ORNAMENTS
<1> HIDE DEF hs, rows, lead, trail, m, n, width, ofLoan, M, Jewel, Ring, Count
<1>10. ASSUME NEW r \in 1..Len(rows) PROVE AuditRow(sheet, m, n, r)
  <2> DEFINE row == rows[r]
             ring == row[m + 2]
  <2>1. /\ IsSequence(row) /\ Len(row) = m + n + 8
        /\ \E q \in 1..Len(rows) : IsLoan(hs, rows[q]) /\ q <= r /\ r < q + 3
    BY <1>1, <1>5, <1>7, <1>9, Zenon
  <2>2. /\ ~IsLoan(hs, row) => (\A c \in 1..m : row[c] = Nothing) /\ \A j \in 1..n : row[m + 5 + j] = Nothing
        /\ IsLoan(hs, row) => \A j \in 1..n : hs[m + 5 + j] = M => row[m + 5 + j] # Nothing
    <3>1. \A c \in ofLoan : IF IsLoan(hs, row) THEN hs[c] = M => row[c] # Nothing ELSE row[c] = Nothing
      BY <1>1, <1>7, Zenon DEF Blank
    <3>2. QED
      BY <1>8, <3>1, Zenon
  <2>3. ring = Value(<<Ring, ring.of[2], ring.of[3]>>) /\ row[m + n + 6] = Value(<<Count, ring.of[2], ring.of[3]>>)
    BY <1>1, <1>6, <1>7, Zenon
  <2>4. \A c \in 1..(m + n + 8) : IsSheetCell(row[c]) /\ FormulaCell(hs, row, r, c, m + n + 5)
    BY <1>1, <1>7, Zenon
  <2>5. QED
    BY <2>1, <2>2, <2>3, <2>4, Zenon DEF AuditRow, hs, rows, M, Ring, Count
<1>11. QED
  BY <1>1, <1>2, <1>3, <1>4, <1>10, Zenon DEF AuditAt, hs, rows, lead, trail, m, n

(* Starts among the first numbers, the first of them 1, and no number is      *)
(* three or more after the last start before it.                              *)
StartsOften(N, S) ==
  /\ N \in Nat /\ S \subseteq 1..N /\ 1 \in S
  /\ \A r \in 1..N : \E q \in S : q <= r /\ r < q + 3
(* The runs between the starts, by where they begin.                          *)
FromTo(N, starts, l) ==
  {r \in 1..N : r >= starts[l] /\ (l < Len(starts) => r < starts[l + 1])}
Bounds(N, starts) == [l \in 1..(Len(starts) + 1) |-> IF l <= Len(starts) THEN starts[l] ELSE N + 1]
RunsOf(N, S, L, at) ==
  /\ L \in Nat /\ L # 0 /\ at[1] = 1 /\ at[L + 1] = N + 1
  /\ \A l \in 1..L :
       /\ at[l] \in 1..N /\ at[l + 1] - at[l] \in 1..3
       /\ \A i \in 1..(at[l + 1] - at[l]) :
            /\ at[l] + (i - 1) \in 1..N
            /\ at[l] + (i - 1) \in S <=> i = 1

(* Starts no more than three apart cut the rows into runs of one to three. *)
LEMMA StartsApart ==
  ASSUME NEW N, NEW S, StartsOften(N, S)
  PROVE  LET starts == InOrder(S)
             at == Bounds(N, starts)
         IN /\ IsSequence(starts) /\ RunsOf(N, S, Len(starts), at)
            /\ \A l \in 1..Len(starts) : at[l] = starts[l]
            /\ \A l \in 1..Len(starts) : \A r \in 1..N :
                 r \in FromTo(N, starts, l) <=> at[l] <= r /\ r < at[l + 1]
<1> DEFINE starts == InOrder(S)
           L == Len(starts)
           at == Bounds(N, starts)
<1>1. /\ IsSequence(starts) /\ \A i \in 1..L : starts[i] \in S
      /\ \A i, j \in 1..L : i < j => starts[i] < starts[j]
      /\ \A a \in S : \E i \in 1..L : starts[i] = a
  BY InOrderIs DEF StartsOften
<1>2. /\ N \in Nat /\ \A s \in S : s \in 1..N
      /\ 1 \in S /\ \A r \in 1..N : \E q \in S : q <= r /\ r < q + 3
  BY DEF StartsOften
<1>3. L \in Nat
  BY <1>1, Zenon DEF IsSequence
<1>4. \A l \in 1..(L + 1) : at[l] = IF l <= L THEN starts[l] ELSE N + 1
  BY Zenon DEF Bounds
<1> HIDE DEF starts, L, at
<1>5. \A i \in 1..L : starts[i] \in 1..N
  BY <1>1, <1>2, Zenon
<1>6. /\ \A l \in 1..L : at[l] = starts[l] /\ l \in 1..(L + 1) /\ l + 1 \in 1..(L + 1)
      /\ at[L + 1] = N + 1
      /\ \A l \in 1..L : l < L => at[l + 1] = starts[l + 1] /\ l + 1 \in 1..L
      /\ \A l \in 1..L : ~(l < L) => l = L
  BY <1>3, <1>4
<1>7. L # 0 /\ at[1] = 1
  <2>1. PICK p \in 1..L : starts[p] = 1
    BY <1>1, <1>2, Zenon
  <2>2. 1 \in 1..L /\ L # 0 /\ (p = 1 \/ 1 < p)
    BY <1>3, <2>1
  <2>3. starts[1] \in 1..N /\ (1 < p => starts[1] < starts[p])
    BY <1>1, <1>5, <2>2, Zenon
  <2>4. starts[1] = 1
    BY <1>2, <2>1, <2>2, <2>3
  <2>5. QED
    BY <1>6, <2>2, <2>4, Zenon
<1>8. \A l \in 1..L : at[l] \in 1..N /\ at[l + 1] \in 1..(N + 1) /\ at[l] < at[l + 1]
  <2>1. ASSUME NEW l \in 1..L PROVE at[l] \in 1..N /\ at[l + 1] \in 1..(N + 1) /\ at[l] < at[l + 1]
    <3>1. at[l] = starts[l] /\ starts[l] \in 1..N
      BY <1>5, <1>6, Zenon
    <3>2. CASE l < L
      <4>1. at[l + 1] = starts[l + 1] /\ l + 1 \in 1..L
        BY <1>6, <3>2, Zenon
      <4>2. starts[l + 1] \in 1..N
        BY <1>5, <4>1, Zenon
      <4>3. starts[l] < starts[l + 1]
        <5>1. l < l + 1
          BY <1>3
        <5>2. QED
          BY <1>1, <4>1, <5>1, Zenon
      <4>4. QED
        BY <1>2, <3>1, <4>1, <4>2, <4>3
    <3>3. CASE ~(l < L)
      <4>1. at[l + 1] = N + 1
        BY <1>6, <3>3, Zenon
      <4>2. QED
        BY <1>2, <3>1, <4>1
    <3>4. QED
      BY <3>2, <3>3, Zenon
  <2>2. QED
    BY <2>1, Zenon
<1>9. ASSUME NEW l \in 1..L, NEW q \in S, q < at[l + 1] PROVE q <= at[l]
  <2>1. PICK p \in 1..L : starts[p] = q
    BY <1>1, Zenon
  <2>2. at[l] = starts[l] /\ starts[l] \in 1..N /\ starts[p] \in 1..N
    BY <1>5, <1>6, Zenon
  <2>3. CASE p <= l
    <3>1. p = l \/ p < l
      BY <1>3, <2>3
    <3>2. p < l => starts[p] < starts[l]
      BY <1>1, Zenon
    <3>3. QED
      BY <1>2, <2>1, <2>2, <3>1, <3>2
  <2>4. CASE ~(p <= l)
    <3>1. l < L /\ (p = l + 1 \/ l + 1 < p)
      BY <1>3, <2>4
    <3>2. at[l + 1] = starts[l + 1] /\ l + 1 \in 1..L
      BY <1>6, <3>1, Zenon
    <3>3. starts[l + 1] \in 1..N
      BY <1>5, <3>2, Zenon
    <3>4. l + 1 < p => starts[l + 1] < starts[p]
      BY <1>1, <3>2, Zenon
    <3>5. starts[l + 1] <= starts[p]
      BY <1>2, <2>2, <3>1, <3>3, <3>4
    <3>6. QED
      BY <1>2, <1>9, <2>1, <2>2, <3>2, <3>3, <3>5
  <2>5. QED
    BY <2>3, <2>4, Zenon
<1>10. ASSUME NEW l \in 1..L PROVE at[l + 1] - at[l] \in 1..3
  <2> DEFINE r == at[l + 1] - 1
  <2>1. r \in 1..N /\ r < at[l + 1] /\ r + 1 = at[l + 1]
    BY <1>2, <1>8
  <2>2. PICK q \in S : q <= r /\ r < q + 3
    BY <1>2, <2>1, Zenon
  <2>3. q \in 1..N
    BY <1>2, Zenon
  <2> HIDE DEF r
  <2>4. q < at[l + 1]
    BY <1>2, <1>8, <2>1, <2>2, <2>3
  <2>5. q <= at[l]
    BY <1>9, <2>4, Zenon
  <2>6. QED
    BY <1>2, <1>8, <2>1, <2>2, <2>3, <2>5
<1>11. ASSUME NEW l \in 1..L, NEW i \in 1..(at[l + 1] - at[l])
       PROVE  at[l] + (i - 1) \in 1..N /\ (at[l] + (i - 1) \in S <=> i = 1)
  <2> DEFINE r == at[l] + (i - 1)
  <2>1. r \in 1..N /\ r < at[l + 1] /\ (r <= at[l] => i = 1) /\ (i = 1 => r = at[l])
    BY <1>2, <1>8
  <2>2. at[l] \in S
    BY <1>1, <1>6, Zenon
  <2> HIDE DEF r
  <2>3. r \in S => i = 1
    BY <1>9, <2>1, Zenon
  <2>4. QED
    BY <2>1, <2>2, <2>3, Zenon DEF r
<1>12. RunsOf(N, S, L, at)
  BY <1>3, <1>6, <1>7, <1>8, <1>10, <1>11, Zenon DEF RunsOf
<1>13. ASSUME NEW l \in 1..L, NEW r \in 1..N
       PROVE  r \in FromTo(N, starts, l) <=> at[l] <= r /\ r < at[l + 1]
  <2>1. r \in FromTo(N, starts, l) <=> r >= starts[l] /\ (l < L => r < starts[l + 1])
    BY Zenon DEF FromTo, L
  <2>2. at[l] = starts[l] /\ starts[l] \in 1..N
    BY <1>5, <1>6, Zenon
  <2>3. CASE l < L
    <3>1. at[l + 1] = starts[l + 1]
      BY <1>6, <2>3, Zenon
    <3>2. QED
      BY <1>2, <2>1, <2>2, <2>3, <3>1
  <2>4. CASE ~(l < L)
    <3>1. at[l + 1] = N + 1
      BY <1>6, <2>4, Zenon
    <3>2. QED
      BY <1>2, <2>1, <2>2, <2>4, <3>1
  <2>5. QED
    BY <2>3, <2>4, Zenon
<1>14. QED
  BY <1>1, <1>6, <1>12, <1>13, Zenon DEF starts, L, at

(* The loans of an audit sheet, by where they begin.                          *)
LoanAt(sheet, loan, first, next) ==
  LET N == Len(sheet.rows) IN
  /\ IsSequence(loan) /\ Len(loan) \in 1..3
  /\ first \in 1..N /\ next = first + Len(loan) /\ IsLoan(sheet.headers, sheet.rows[first])
  /\ \A i \in 1..Len(loan) :
       /\ loan[i] = first + (i - 1) /\ loan[i] \in 1..N
       /\ i # 1 => ~IsLoan(sheet.headers, sheet.rows[loan[i]])
LoansAt(sheet, loans, at) ==
  /\ IsSequence(loans) /\ Len(loans) \in Nat /\ Len(loans) # 0
  /\ at[1] = 1 /\ at[Len(loans) + 1] = Len(sheet.rows) + 1
  /\ \A l \in 1..Len(loans) : LoanAt(sheet, loans[l], at[l], at[l + 1])

(* The kinds of cells.                                                         *)
LEMMA CellKinds ==
  /\ \A p : Value(p) # Nothing /\ Value(p).k # "formula" /\ Value(p).of = p
  /\ Nothing.k # "formula" /\ \A p : Nothing # Value(p)
  /\ \A refs : Formula(refs).k = "formula" /\ Formula(refs).refs = refs /\ Formula(refs) # Nothing
<1>1. \A p : Value(p) # Nothing /\ Value(p).k # "formula" /\ Value(p).of = p
  BY DEF Value, Nothing
<1>2. Nothing.k # "formula" /\ \A p : Nothing # Value(p)
  BY DEF Value, Nothing
<1>3. \A refs : Formula(refs).k = "formula" /\ Formula(refs).refs = refs /\ Formula(refs) # Nothing
  BY DEF Formula, Nothing
<1>4. QED
  BY <1>1, <1>2, <1>3, Zenon

(* A loan starts where one of its cells is written.                           *)
LEMMA LoanStarts ==
  ASSUME NEW sheet, NEW lead, NEW trail, AuditAt(sheet, lead, trail), NEW r \in 1..Len(sheet.rows)
  PROVE  /\ IsLoan(sheet.headers, sheet.rows[r])
              <=> \E c \in {IndexOf(sheet.headers, h) : h \in Range(lead)} : ~Blank(CellAt(sheet.rows[r], c))
         /\ \E c \in DOMAIN sheet.rows[r] : ~Blank(sheet.rows[r][c])
<1> DEFINE hs == sheet.headers
           rows == sheet.rows
           row == rows[r]
           m == Len(lead)
           n == Len(trail)
           ring == row[m + 2]
           Ring == "ring"
           LN == "Loan No."
           SN == "SR No."
           cols == {IndexOf(hs, h) : h \in Range(lead)}
<1>1. /\ TallAt(hs, lead, trail) /\ Once(lead) /\ Once(trail) /\ IsSequence(lead)
      /\ {LN, SN} \subseteq Range(lead) /\ AuditRow(sheet, m, n, r)
  BY Zenon DEF AuditAt
<1>2. /\ IsSequence(row) /\ Len(row) = m + n + 8 /\ m \in Nat /\ n \in Nat
      /\ ~IsLoan(hs, row) => \A c \in 1..m : row[c] = Nothing
      /\ ring = Value(<<Ring, ring.of[2], ring.of[3]>>)
  BY <1>1, Zenon DEF AuditRow, TallAt
<1>3. DOMAIN row = 1..(m + n + 8) /\ DOMAIN lead = 1..m
  BY <1>1, <1>2, IsSeqOf, Zenon
<1>4. m + 2 \in 1..(m + n + 8) /\ \A c \in 1..m : c \in 1..(m + n + 8)
  BY <1>2
<1>5. row[m + 2] # Nothing
  BY <1>2, CellKinds, Zenon
<1>6. \A j \in 1..m : IndexOf(hs, lead[j]) = j
  BY <1>1, TallLoanColumns, LoanColumnsFound, Zenon
<1>7. IsLoan(hs, row) <=> CellAt(row, IndexOf(hs, LN)) # Nothing \/ CellAt(row, IndexOf(hs, SN)) # Nothing
  BY Zenon DEF IsLoan, Blank
<1> HIDE DEF hs, row, m, n, LN, SN
<1>8. LN \in Range(lead) /\ SN \in Range(lead)
  BY <1>1
<1> HIDE DEF ring
<1>9. ASSUME IsLoan(hs, row) PROVE \E c \in cols : CellAt(row, c) # Nothing
  BY <1>7, <1>8, <1>9, Zenon
<1>10. ASSUME ~IsLoan(hs, row), NEW c \in cols PROVE CellAt(row, c) = Nothing
  <2>1. PICK h \in Range(lead) : c = IndexOf(hs, h)
    BY <1>10, Zenon
  <2>2. PICK j \in 1..m : h = lead[j]
    BY <1>3, <2>1, Zenon DEF Range
  <2>3. c = j
    BY <1>6, <2>1, <2>2, Zenon
  <2>4. row[j] = Nothing
    BY <1>2, <1>10, <2>2, Zenon
  <2>5. QED
    BY <2>3, <2>4, Zenon DEF CellAt
<1>11. IsLoan(hs, row) <=> \E c \in cols : ~Blank(CellAt(row, c))
  BY <1>9, <1>10, Zenon DEF Blank
<1>12. \E c \in DOMAIN row : ~Blank(row[c])
  BY <1>3, <1>4, <1>5, Zenon DEF Blank
<1>13. QED
  BY <1>11, <1>12, Zenon DEF hs, row

(* The loans of an audit sheet are runs of its rows. *)
LEMMA LoansOf ==
  ASSUME NEW sheet, NEW lead, NEW trail, AuditAt(sheet, lead, trail)
  PROVE  \E at : LoansAt(sheet, LoanRows(sheet.rows, {IndexOf(sheet.headers, h) : h \in Range(lead)}), at)
<1> DEFINE hs == sheet.headers
           rows == sheet.rows
           N == Len(rows)
           cols == {IndexOf(hs, h) : h \in Range(lead)}
           written == {r \in DOMAIN rows : \E c \in DOMAIN rows[r] : ~Blank(rows[r][c])}
           S == {r \in written : \/ \E c \in cols : ~Blank(CellAt(rows[r], c))
                                 \/ \A q \in written : r <= q}
           starts == InOrder(S)
           L == Len(starts)
           at == Bounds(N, starts)
           run(l) == {r \in written : r >= starts[l] /\ (l < Len(starts) => r < starts[l + 1])}
           loans == LoanRows(rows, cols)
<1>1. /\ IsSequence(rows) /\ rows # <<>>
      /\ \A r \in 1..N : AuditRow(sheet, Len(lead), Len(trail), r)
  BY Zenon DEF AuditAt
<1>2. DOMAIN rows = 1..N /\ N \in Nat /\ 1 \in 1..N /\ \A r \in 1..N : 1 <= r
  <2>1. N # 0
    BY <1>1 DEF IsSequence
  <2>2. DOMAIN rows = 1..N /\ N \in Nat
    BY <1>1, IsSeqOf, Zenon DEF IsSequence
  <2> HIDE DEF N
  <2>3. QED
    BY <2>1, <2>2
<1>3. /\ \A r \in 1..N : IsLoan(hs, rows[r]) <=> \E c \in cols : ~Blank(CellAt(rows[r], c))
      /\ \A r \in 1..N : \E c \in DOMAIN rows[r] : ~Blank(rows[r][c])
  BY LoanStarts, Zenon
<1>4. \A r \in 1..N : \E q \in 1..N : IsLoan(hs, rows[q]) /\ q <= r /\ r < q + 3
  BY <1>1, Zenon DEF AuditRow
<1>5. loans = [l \in DOMAIN starts |-> InOrder(run(l))]
  BY Zenon DEF LoanRows
<1> HIDE DEF hs, rows, N, cols
<1>6. written = 1..N
  BY <1>2, <1>3, Zenon
<1>7. IsLoan(hs, rows[1])
  <2>1. PICK q \in 1..N : IsLoan(hs, rows[q]) /\ q <= 1
    BY <1>2, <1>4, Zenon
  <2>2. q = 1
    BY <1>2, <2>1
  <2>3. QED
    BY <2>1, <2>2, Zenon
<1>8. \A r \in 1..N : r \in S <=> IsLoan(hs, rows[r])
  <2>1. ASSUME NEW r \in 1..N PROVE r \in S <=> IsLoan(hs, rows[r])
    <3>1. r \in S <=> (\E c \in cols : ~Blank(CellAt(rows[r], c))) \/ \A q \in 1..N : r <= q
      BY <1>6, Zenon
    <3>2. (\A q \in 1..N : r <= q) => r = 1
      BY <1>2
    <3>3. QED
      BY <1>3, <1>7, <3>1, <3>2, Zenon
  <2>2. QED
    BY <2>1, Zenon
<1>9. S \subseteq 1..N
  BY <1>6, Zenon
<1>10. \A l \in DOMAIN starts : run(l) = FromTo(N, starts, l)
  BY <1>6, Zenon DEF FromTo
<1> HIDE DEF written, run
<1>11. StartsOften(N, S)
  <2>1. 1 \in S
    BY <1>2, <1>7, <1>8, Zenon
  <2>2. \A r \in 1..N : \E q \in S : q <= r /\ r < q + 3
    BY <1>4, <1>8, Zenon
  <2>3. QED
    BY <1>2, <1>9, <2>1, <2>2, Zenon DEF StartsOften
<1> HIDE DEF S
<1>12. /\ IsSequence(starts) /\ RunsOf(N, S, L, at)
       /\ \A l \in 1..L : \A r \in 1..N :
            r \in FromTo(N, starts, l) <=> at[l] <= r /\ r < at[l + 1]
  BY <1>11, StartsApart
<1>13. DOMAIN starts = 1..L
  BY <1>12, IsSeqOf, Zenon
<1> HIDE DEF starts, L, at, loans
<1>14. /\ L \in Nat /\ L # 0 /\ at[1] = 1 /\ at[L + 1] = N + 1
       /\ \A l \in 1..L :
            /\ at[l] \in 1..N /\ at[l + 1] - at[l] \in 1..3
            /\ \A i \in 1..(at[l + 1] - at[l]) :
                 /\ at[l] + (i - 1) \in 1..N
                 /\ at[l] + (i - 1) \in S <=> i = 1
  BY <1>12, Zenon DEF RunsOf
<1>15. loans = [l \in 1..L |-> InOrder(FromTo(N, starts, l))]
  BY <1>5, <1>10, <1>13, Zenon
<1>16. IsSequence(loans) /\ Len(loans) = L /\ \A l \in 1..L : loans[l] = InOrder(FromTo(N, starts, l))
  <2> DEFINE g(l) == InOrder(FromTo(N, starts, l))
  <2> HIDE DEF g
  <2>1. loans = [l \in 1..L |-> g(l)]
    BY <1>15, Zenon DEF g
  <2>2. IsSequence(loans) /\ Len(loans) = L /\ \A l \in 1..L : loans[l] = g(l)
    BY <1>14, <2>1 DEF IsSequence
  <2>3. QED
    BY <2>2, Zenon DEF g
<1>17. ASSUME NEW l \in 1..L PROVE LoanAt(sheet, loans[l], at[l], at[l + 1])
  <2> DEFINE P == FromTo(N, starts, l)
             a == at[l]
             b == at[l + 1]
             k == b - a
             f == [i \in 1..k |-> a + (i - 1)]
  <2>1. /\ a \in 1..N /\ k \in 1..3
        /\ \A i \in 1..k : a + (i - 1) \in 1..N /\ (a + (i - 1) \in S <=> i = 1)
    BY <1>14, Zenon
  <2>2. \A i \in 1..k : f[i] = a + (i - 1)
    BY Zenon
  <2>3. P \subseteq 1..N
    BY Zenon DEF FromTo
  <2>4. \A r \in 1..N : r \in P <=> a <= r /\ r < b
    BY <1>12, Zenon
  <2>5. b \in Int
    BY <1>14, <1>2
  <2>6. b = a + k
    BY <1>2, <2>1, <2>5
  <2> HIDE DEF P, a, b, k, f
  <2>7. Enumerates(f, k, P)
    <3>1. \A i \in 1..k : f[i] \in P
      BY <1>2, <2>1, <2>2, <2>4, <2>6
    <3>2. \A i, j \in 1..k : i < j => f[i] < f[j]
      BY <1>2, <2>1, <2>2
    <3>3. ASSUME NEW x \in P PROVE \E i \in 1..k : f[i] = x
      <4>1. x \in 1..N /\ a <= x /\ x < b
        BY <2>3, <2>4
      <4>2. (x - a) + 1 \in 1..k /\ a + (((x - a) + 1) - 1) = x
        BY <1>2, <2>1, <2>6, <4>1
      <4>3. QED
        BY <2>2, <4>2
    <3>4. P \subseteq Nat /\ k \in Nat
      BY <1>2, <2>1, <2>3
    <3>5. QED
      BY <3>1, <3>2, <3>3, <3>4, Zenon DEF Enumerates
  <2>8. IsSequence(InOrder(P)) /\ Len(InOrder(P)) = k /\ \A i \in 1..k : InOrder(P)[i] = f[i]
    <3>1. UpTo(N, P)
      BY <1>2, <2>3 DEF UpTo
    <3>2. QED
      BY <2>7, <3>1, InOrderOf
  <2>9. loans[l] = InOrder(P)
    BY <1>16, Zenon DEF P
  <2> DEFINE loan == loans[l]
  <2>10. IsSequence(loan) /\ Len(loan) = k /\ \A i \in 1..k : loan[i] = a + (i - 1) /\ loan[i] \in 1..N
    BY <2>1, <2>2, <2>8, <2>9, Zenon
  <2>11. IsLoan(hs, rows[a])
    <3>1. 1 \in 1..k /\ a + (1 - 1) = a
      BY <1>2, <2>1
    <3>2. a \in S
      BY <2>1, <3>1, Zenon
    <3>3. QED
      BY <1>8, <2>1, <3>2, Zenon
  <2>12. \A i \in 1..k : i # 1 => ~IsLoan(hs, rows[loan[i]])
    BY <1>8, <2>1, <2>10, Zenon
  <2> HIDE DEF loan
  <2>13. /\ IsSequence(loan) /\ Len(loan) \in 1..3
         /\ a \in 1..N /\ b = a + Len(loan) /\ IsLoan(hs, rows[a])
         /\ \A i \in 1..Len(loan) :
              /\ loan[i] = a + (i - 1) /\ loan[i] \in 1..N
              /\ i # 1 => ~IsLoan(hs, rows[loan[i]])
    BY <2>1, <2>6, <2>10, <2>11, <2>12, Zenon
  <2>14. LoanAt(sheet, loan, a, b)
    BY <2>13, Zenon DEF LoanAt, hs, rows, N
  <2>15. QED
    BY <2>14, Zenon DEF loan, a, b
<1>18. LoansAt(sheet, loans, at)
  BY <1>14, <1>16, <1>17, Zenon DEF LoansAt, N, rows
<1>19. QED
  BY <1>18, Zenon DEF loans, rows, cols, hs

(* Row r of the sheet as a group of cells that begins after column s.         *)
GroupCells(cells, s, sheet, m, n, r, l, start) ==
  LET old == sheet.rows[r]
      map == ColumnMap(MapOrnaments(sheet.headers)[1], start)
  IN
  /\ cells[s + 1].k # "formula"
  /\ cells[s + 2] = old[m + 2]
  /\ \A j \in 1..3 : cells[s + 2 + j] = old[m + 2 + j]
  /\ \A j \in 1..3 : cells[s + 5 + j] = Moved(sheet, r, l, map, m + n + 5 + j)

(* What the branch wrote is not a formula, and is moved as it is.             *)
StaysAt(sheet, r, c) ==
  /\ \A l, map : Moved(sheet, r, l, map, c) = sheet.rows[r][c]
  /\ sheet.rows[r][c].k # "formula" /\ CellAt(sheet.rows[r], c) = sheet.rows[r][c]
Stays(sheet, r, width) == \A c \in 1..width : StaysAt(sheet, r, c)

(* A cell of the branch's is moved as it is. *)
LEMMA NotMovedAt ==
  ASSUME NEW sheet, NEW lead, NEW trail, AuditAt(sheet, lead, trail), NEW r \in 1..Len(sheet.rows),
         NEW c \in 1..(Len(lead) + Len(trail) + 5)
  PROVE  StaysAt(sheet, r, c)
<1> DEFINE hs == sheet.headers
           rows == sheet.rows
           m == Len(lead)
           n == Len(trail)
           row == rows[r]
<1>1. m \in Nat /\ n \in Nat /\ AuditRow(sheet, m, n, r)
  BY Zenon DEF AuditAt, TallAt
<1>2. c \in 1..(m + n + 8) /\ c \in 1..(m + n + 5) /\ ~(c > m + n + 5)
  BY <1>1
<1>3. /\ IsSequence(row) /\ Len(row) = m + n + 8 /\ FormulaCell(hs, row, r, c, m + n + 5)
  BY <1>1, <1>2, Zenon DEF AuditRow
<1>4. DOMAIN row = 1..(m + n + 8)
  BY <1>3, IsSeqOf, Zenon
<1>5. row[c].k # "formula"
  BY <1>2, <1>3, Zenon DEF FormulaCell
<1>6. CellAt(row, c) = row[c]
  BY <1>2, <1>4, Zenon DEF CellAt
<1>7. ASSUME NEW l, NEW map PROVE Moved(sheet, r, l, map, c) = row[c]
  <2> HIDE DEF row
  <2>1. row[c].k # "formula" /\ CellAt(sheet.rows[r], c) = row[c]
    BY <1>5, <1>6, Zenon DEF row
  <2>2. QED
    BY <2>1, Zenon DEF Moved
<1>8. QED
  BY <1>5, <1>6, <1>7, Zenon DEF StaysAt

(* So are all the cells of a row the branch wrote. *)
LEMMA NotMoved ==
  ASSUME NEW sheet, NEW lead, NEW trail, AuditAt(sheet, lead, trail), NEW r \in 1..Len(sheet.rows)
  PROVE  Stays(sheet, r, Len(lead) + Len(trail) + 5)
<1>1. ASSUME NEW c \in 1..(Len(lead) + Len(trail) + 5) PROVE StaysAt(sheet, r, c)
  BY NotMovedAt
<1>2. QED
  BY <1>1, Zenon DEF Stays

(* The cells of a group are those of the ornament's row. *)
LEMMA GroupIs ==
  ASSUME NEW sheet, NEW lead, NEW trail, AuditAt(sheet, lead, trail),
         lead = Present(LEADING_COLUMNS, sheet.headers), NEW r \in 1..Len(sheet.rows), NEW l, NEW i \in 1..3
  PROVE  LET g == Group(sheet, r, l, i) IN
         /\ IsSequence(g) /\ Len(g) = 8
         /\ GroupCells(g, 0, sheet, Len(lead), Len(trail), r, l, Start(Len(lead), i))
<1> DEFINE hs == sheet.headers
           rows == sheet.rows
           m == Len(lead)
           n == Len(trail)
           block == MapOrnaments(hs)[1]
           from == Sources(block)
           map == ColumnMap(block, Start(m, i))
           moved(c) == Moved(sheet, r, l, map, c)
           two == <<Value(<<Anchor(i)>>), moved(block.name)>>
           six == [j \in DOMAIN from |-> moved(from[j])]
           g == Group(sheet, r, l, i)
<1>1. TallAt(hs, lead, trail) /\ m \in Nat /\ n \in Nat
  BY Zenon DEF AuditAt, TallAt
<1>2. BlockFinds(block, m + 2, m + n + 6) /\ FromColumns(from, m + 2, m + n + 6)
  BY <1>1, TallOrnament, SourcesAre, Zenon
<1>3. /\ block.name = m + 2 /\ IsSequence(from) /\ Len(from) = 6
      /\ \A j \in 1..3 : from[j] = m + 2 + j /\ from[3 + j] = m + n + 6 + (j - 1)
  BY <1>2, Zenon DEF BlockFinds, FromColumns
<1>4. g = two \o six
  <2>1. GroupWidth = 8
    BY BlockSizes, Zenon
  <2>2. Start(m, i) = Len(Present(LEADING_COLUMNS, hs)) + (i - 1) * GroupWidth
    BY <2>1, Zenon DEF Start
  <2>3. QED
    BY <2>2, Zenon DEF Group
<1> HIDE DEF hs, rows, m, n, block, from, map, moved, g
<1>5. DOMAIN from = 1..6
  BY <1>3, IsSeqOf, Zenon
<1>6. IsSequence(two) /\ Len(two) = 2 /\ two[1] = Value(<<Anchor(i)>>) /\ two[2] = moved(m + 2)
  <2>1. \A x, y : IsSequence(<<x, y>>) /\ Len(<<x, y>>) = 2 /\ <<x, y>>[1] = x /\ <<x, y>>[2] = y
    BY DEF IsSequence
  <2>2. QED
    BY <1>3, <2>1, Zenon
<1>7. IsSequence(six) /\ Len(six) = 6 /\ \A j \in 1..6 : six[j] = moved(from[j])
  <2>1. six = [j \in 1..6 |-> moved(from[j])]
    BY <1>5, Zenon
  <2> HIDE DEF six
  <2>2. IsSequence(six) /\ Len(six) = 6
    BY <2>1 DEF IsSequence
  <2>3. QED
    BY <2>1, <2>2, Zenon
<1> HIDE DEF two, six
<1>8. /\ IsSequence(g) /\ Len(g) = Len(two) + Len(six)
      /\ \A j \in 1..Len(two) : g[j] = two[j]
      /\ \A j \in 1..Len(six) : g[Len(two) + j] = six[j]
  <2>1. /\ IsSequence(two \o six) /\ Len(two \o six) = Len(two) + Len(six)
        /\ \A j \in 1..Len(two) : (two \o six)[j] = two[j]
        /\ \A j \in 1..Len(six) : (two \o six)[Len(two) + j] = six[j]
    <3>1. IsSequence(two) /\ IsSequence(six)
      BY <1>6, <1>7, Zenon
    <3>2. QED
      BY <3>1, Joining
  <2>2. QED
    BY <1>4, <2>1, Zenon
<1>9. IsSequence(g) /\ Len(g) = 8
  <2>1. Len(two) + Len(six) = 8
    BY <1>6, <1>7
  <2>2. QED
    BY <1>8, <2>1
<1>10. /\ 1 \in 1..2 /\ 2 \in 1..2 /\ 0 + 1 = 1 /\ 0 + 2 = 2
       /\ \A j \in 1..3 : /\ 0 + 2 + j = 2 + j /\ 0 + 5 + j = 2 + (3 + j) /\ j \in 1..6 /\ 3 + j \in 1..6
                          /\ m + n + 6 + (j - 1) = m + n + 5 + j /\ m + 2 + j \in 1..(m + n + 5)
       /\ m + 2 \in 1..(m + n + 5)
  BY <1>1
<1>11. g[1] = Value(<<Anchor(i)>>) /\ g[2] = moved(m + 2)
       /\ \A j \in 1..3 : g[2 + j] = moved(from[j]) /\ g[2 + (3 + j)] = moved(from[3 + j])
  BY <1>6, <1>7, <1>8, <1>10, Zenon
<1>12. \A j \in 1..3 : g[0 + 2 + j] = moved(m + 2 + j) /\ g[0 + 5 + j] = moved(m + n + 5 + j)
  <2>1. ASSUME NEW j \in 1..3 PROVE g[0 + 2 + j] = moved(m + 2 + j) /\ g[0 + 5 + j] = moved(m + n + 5 + j)
    <3>1. from[j] = m + 2 + j /\ from[3 + j] = m + n + 5 + j
      BY <1>3, <1>10, Zenon
    <3>2. g[2 + j] = moved(m + 2 + j) /\ g[2 + (3 + j)] = moved(m + n + 5 + j)
      BY <1>11, <3>1, Zenon
    <3>3. QED
      BY <1>10, <3>2, Zenon
  <2>2. QED
    BY <2>1, Zenon
<1>13. \A c \in 1..(m + n + 5) : moved(c) = rows[r][c]
  <2>1. Stays(sheet, r, m + n + 5)
    BY NotMoved DEF m, n
  <2>2. QED
    BY <2>1, Zenon DEF Stays, StaysAt, moved, rows
<1>14. g[0 + 1].k # "formula"
  BY <1>10, <1>11, CellKinds, Zenon
<1>15. g[0 + 2] = rows[r][m + 2] /\ \A j \in 1..3 : g[0 + 2 + j] = rows[r][m + 2 + j]
  <2>1. g[0 + 2] = rows[r][m + 2]
    BY <1>10, <1>11, <1>13, Zenon
  <2>2. ASSUME NEW j \in 1..3 PROVE g[0 + 2 + j] = rows[r][m + 2 + j]
    <3>1. g[0 + 2 + j] = moved(m + 2 + j) /\ m + 2 + j \in 1..(m + n + 5)
      BY <1>10, <1>12, Zenon
    <3>2. QED
      BY <1>13, <3>1, Zenon
  <2>3. QED
    BY <2>1, <2>2, Zenon
<1>16. \A j \in 1..3 : g[0 + 5 + j] = Moved(sheet, r, l, map, m + n + 5 + j)
  BY <1>12, Zenon DEF moved
<1>17. GroupCells(g, 0, sheet, m, n, r, l, Start(m, i))
  BY <1>14, <1>15, <1>16, Zenon DEF GroupCells, map, block, hs, rows
<1>18. QED
  BY <1>9, <1>17, Zenon DEF g, m, n

(* The same cells elsewhere.                                                  *)
LEMMA GroupElsewhere ==
  ASSUME NEW a, NEW s \in Nat, NEW b, NEW t \in Nat, \A y \in 1..8 : b[t + y] = a[s + y],
         NEW sheet, NEW m, NEW n, NEW r, NEW l, NEW start, GroupCells(a, s, sheet, m, n, r, l, start)
  PROVE  GroupCells(b, t, sheet, m, n, r, l, start)
<1>1. /\ 1 \in 1..8 /\ 2 \in 1..8
      /\ \A j \in 1..3 : /\ 2 + j \in 1..8 /\ 5 + j \in 1..8
                         /\ s + (2 + j) = s + 2 + j /\ s + (5 + j) = s + 5 + j
                         /\ t + (2 + j) = t + 2 + j /\ t + (5 + j) = t + 5 + j
  OBVIOUS
<1>2. b[t + 1] = a[s + 1] /\ b[t + 2] = a[s + 2]
  BY <1>1, Zenon
<1>3. \A j \in 1..3 : b[t + 2 + j] = a[s + 2 + j] /\ b[t + 5 + j] = a[s + 5 + j]
  <2>1. ASSUME NEW j \in 1..3 PROVE b[t + 2 + j] = a[s + 2 + j] /\ b[t + 5 + j] = a[s + 5 + j]
    <3>1. b[t + (2 + j)] = a[s + (2 + j)] /\ b[t + (5 + j)] = a[s + (5 + j)]
      BY <1>1, Zenon
    <3>2. QED
      BY <1>1, <3>1, Zenon
  <2>2. QED
    BY <2>1, Zenon
<1>4. QED
  BY <1>2, <1>3, Zenon DEF GroupCells

LoanIn(sheet, loan) ==
  Len(loan) \in 1..3 /\ \A i \in 1..Len(loan) : loan[i] \in 1..Len(sheet.rows)
GroupsIn(cells, m0, sheet, m, n, loan, l) ==
  \A i \in 1..Len(loan) : GroupCells(cells, Start(m0, i), sheet, m, n, loan[i], l, Start(m, i))

(* The groups of a loan, one after the other. *)
LEMMA GroupsJoined ==
  ASSUME NEW sheet, NEW lead, NEW trail, AuditAt(sheet, lead, trail),
         lead = Present(LEADING_COLUMNS, sheet.headers), NEW l, NEW loan, LoanIn(sheet, loan)
  PROVE  LET flat == FlattenSeq([i \in 1..Len(loan) |-> Group(sheet, loan[i], l, i)]) IN
         /\ IsSequence(flat) /\ Len(flat) = Len(loan) * 8
         /\ GroupsIn(flat, 0, sheet, Len(lead), Len(trail), loan, l)
<1> DEFINE k == Len(loan)
           m == Len(lead)
           n == Len(trail)
           groups == [i \in 1..k |-> Group(sheet, loan[i], l, i)]
           flat == FlattenSeq(groups)
           at == [i \in 1..(k + 1) |-> Start(0, i) + 1]
<1>1. k \in 1..3 /\ \A i \in 1..k : loan[i] \in 1..Len(sheet.rows)
  BY Zenon DEF LoanIn
<1>2. IsSequence(groups) /\ Len(groups) = k
  <2>1. DOMAIN groups = 1..k /\ groups = [i \in 1..k |-> groups[i]] /\ k \in Nat
    BY <1>1
  <2> HIDE DEF groups
  <2>2. QED
    BY <2>1, AsSequence
<1>3. \A i \in 1..k : groups[i] = Group(sheet, loan[i], l, i)
  BY Zenon
<1>4. ASSUME NEW i \in 1..k
      PROVE  IsSequence(groups[i]) /\ Len(groups[i]) = 8 /\ GroupCells(groups[i], 0, sheet, m, n, loan[i], l, Start(m, i))
  <2> DEFINE r == loan[i]
             g == Group(sheet, r, l, i)
  <2>1. r \in 1..Len(sheet.rows) /\ i \in 1..3
    BY <1>1
  <2> HIDE DEF r, groups
  <2>2. IsSequence(g) /\ Len(g) = 8 /\ GroupCells(g, 0, sheet, m, n, r, l, Start(m, i))
    BY <2>1, GroupIs
  <2> HIDE DEF g
  <2>3. groups[i] = g
    BY <1>3, Zenon DEF g, r
  <2>4. QED
    BY <2>2, <2>3, Zenon DEF r
<1> HIDE DEF groups, flat, k, m, n
<1>5. /\ at[1] = 1
      /\ \A i \in 1..k : at[i + 1] = at[i] + 8 /\ at[i] = Start(0, i) + 1
      /\ at[k + 1] = k * 8 + 1
  BY <1>1 DEF Start
<1> HIDE DEF at
<1>6. InRuns(groups, Len(groups), flat, at)
  <2>1. \A i \in 1..Len(groups) : IsSequence(groups[i]) /\ at[i + 1] = at[i] + Len(groups[i])
    BY <1>2, <1>4, <1>5, Zenon
  <2>2. QED
    BY <1>2, <1>5, <2>1, JoinedRuns DEF flat
<1>7. /\ IsSequence(flat) /\ at[k + 1] = Len(flat) + 1
      /\ \A i \in 1..k : \A y \in 1..8 : flat[at[i] + y - 1] = groups[i][y]
  BY <1>2, <1>4, <1>6, Zenon DEF InRuns
<1>8. Len(flat) = k * 8
  <2>1. Len(flat) + 1 = k * 8 + 1
    BY <1>5, <1>7, Zenon
  <2>2. Len(flat) \in Nat
    BY <1>7, Zenon DEF IsSequence
  <2>3. QED
    BY <1>1, <2>1, <2>2
<1>9. ASSUME NEW i \in 1..k PROVE GroupCells(flat, Start(0, i), sheet, m, n, loan[i], l, Start(m, i))
  <2> DEFINE s == Start(0, i)
             g == groups[i]
             r == loan[i]
             start == Start(m, i)
  <2>1. s \in Nat /\ at[i] = s + 1
    BY <1>1, <1>5 DEF Start
  <2>2. GroupCells(g, 0, sheet, m, n, r, l, start)
    BY <1>4, Zenon
  <2> HIDE DEF s
  <2>3. \A y \in 1..8 : at[i] + y - 1 = s + y /\ 0 + y = y
    BY <2>1
  <2>4. \A y \in 1..8 : flat[s + y] = g[0 + y]
    <3>1. ASSUME NEW y \in 1..8 PROVE flat[s + y] = g[0 + y]
      <4>1. flat[at[i] + y - 1] = g[y]
        BY <1>7, Zenon
      <4>2. at[i] + y - 1 = s + y /\ 0 + y = y
        BY <2>3, Zenon
      <4>3. QED
        BY <4>1, <4>2, Zenon
    <3>2. QED
      BY <3>1, Zenon
  <2> HIDE DEF g, r, start
  <2>5. GroupCells(flat, s, sheet, m, n, r, l, start)
    BY <2>1, <2>2, <2>4, GroupElsewhere
  <2>6. QED
    BY <2>5, Zenon DEF s, r, start
<1>10. GroupsIn(flat, 0, sheet, m, n, loan, l)
  BY <1>9, Zenon DEF GroupsIn, k
<1>11. QED
  BY <1>7, <1>8, <1>10, Zenon DEF flat, groups, k, m, n

FoldedRow(sheet, loan, l, lead, trail, w) ==
  CopiedCells(sheet.headers, sheet.rows[loan[1]], lead)
    \o FlattenSeq([i \in 1..Len(loan) |-> Group(sheet, loan[i], l, i)])
    \o Blanks((w - Len(loan)) * GroupWidth)
    \o CopiedCells(sheet.headers, sheet.rows[loan[1]], trail)
WideRow(cells, sheet, m, n, loan, l, w) ==
  /\ IsSequence(cells) /\ Len(cells) = m + w * 8 + n
  /\ \A j \in 1..m : cells[j] = sheet.rows[loan[1]][j]
  /\ GroupsIn(cells, m, sheet, m, n, loan, l)
  /\ \A i \in 1..w : i > Len(loan) => \A y \in 1..8 : cells[Start(m, i) + y] = Nothing
  /\ \A j \in 1..n : cells[m + w * 8 + j] = sheet.rows[loan[1]][m + 5 + j]

(* The loan's cells are copied.                                               *)
Copied(s, n, row, e) == IsSequence(s) /\ Len(s) = n /\ \A j \in 1..n : s[j] = row[e + j]

(* The cells of the loan are found and copied. *)
LEMMA LoanCopied ==
  ASSUME NEW sheet, NEW lead, NEW trail, AuditAt(sheet, lead, trail), NEW r \in 1..Len(sheet.rows)
  PROVE  /\ Copied(CopiedCells(sheet.headers, sheet.rows[r], lead), Len(lead), sheet.rows[r], 0)
         /\ Copied(CopiedCells(sheet.headers, sheet.rows[r], trail), Len(trail), sheet.rows[r], Len(lead) + 5)
<1> DEFINE hs == sheet.headers
           row == sheet.rows[r]
           m == Len(lead)
           n == Len(trail)
           x == CopiedCells(hs, row, lead)
           y == CopiedCells(hs, row, trail)
<1>1. /\ TallAt(hs, lead, trail) /\ Once(lead) /\ Once(trail) /\ m \in Nat /\ n \in Nat
      /\ IsSequence(lead) /\ IsSequence(trail)
  BY Zenon DEF AuditAt, TallAt
<1>2. /\ \A j \in 1..m : IndexOf(hs, lead[j]) = j
      /\ \A j \in 1..n : IndexOf(hs, trail[j]) = m + 5 + j
  <2> DEFINE e == m + 5
  <2>1. LoanColumns(hs, lead, trail, e)
    BY <1>1, TallLoanColumns, Zenon
  <2> HIDE DEF e, hs
  <2>2. /\ \A j \in 1..Len(lead) : IndexOf(hs, lead[j]) = j
        /\ \A j \in 1..Len(trail) : IndexOf(hs, trail[j]) = e + j
    BY <1>1, <2>1, LoanColumnsFound
  <2>3. QED
    BY <2>2, Zenon DEF e
<1>3. \A c \in 1..(m + n + 5) : CellAt(row, c) = row[c]
  <2>1. Stays(sheet, r, m + n + 5)
    BY NotMoved
  <2>2. QED
    BY <2>1, Zenon DEF Stays, StaysAt
<1>4. DOMAIN lead = 1..m /\ DOMAIN trail = 1..n
  BY <1>1, IsSeqOf, Zenon
<1>5. x = [j \in 1..m |-> CellAt(row, IndexOf(hs, lead[j]))] /\ y = [j \in 1..n |-> CellAt(row, IndexOf(hs, trail[j]))]
  BY <1>4, Zenon DEF CopiedCells
<1> HIDE DEF hs, row, m, n, x, y
<1>6. /\ \A j \in 1..m : j \in 1..(m + n + 5) /\ 0 + j = j
      /\ \A j \in 1..n : m + 5 + j \in 1..(m + n + 5)
  BY <1>1
<1>7. IsSequence(x) /\ Len(x) = m /\ IsSequence(y) /\ Len(y) = n
  BY <1>1, <1>5 DEF IsSequence
<1>8. \A j \in 1..m : x[j] = row[0 + j]
  BY <1>2, <1>3, <1>5, <1>6, Zenon
<1>9. \A j \in 1..n : y[j] = row[m + 5 + j]
  BY <1>2, <1>3, <1>5, <1>6, Zenon
<1>10. QED
  BY <1>7, <1>8, <1>9, Zenon DEF Copied, x, y, m, n, hs, row

(* Blanks are blank. *)
LEMMA BlanksOf ==
  ASSUME NEW n \in Nat
  PROVE  IsSequence(Blanks(n)) /\ Len(Blanks(n)) = n /\ \A i \in 1..n : Blanks(n)[i] = Nothing
BY DEF Blanks, IsSequence

(* A row of a folded sheet, cell by cell. *)
LEMMA RowFolded ==
  ASSUME NEW sheet, NEW lead, NEW trail, AuditAt(sheet, lead, trail),
         lead = Present(LEADING_COLUMNS, sheet.headers), NEW l, NEW loan, LoanIn(sheet, loan),
         NEW w \in 1..3, Len(loan) <= w
  PROVE  WideRow(FoldedRow(sheet, loan, l, lead, trail, w), sheet, Len(lead), Len(trail), loan, l, w)
<1> DEFINE hs == sheet.headers
           k == Len(loan)
           m == Len(lead)
           n == Len(trail)
           r == loan[1]
           row == sheet.rows[r]
           x == CopiedCells(hs, row, lead)
           flat == FlattenSeq([i \in 1..k |-> Group(sheet, loan[i], l, i)])
           none == Blanks((w - k) * GroupWidth)
           y == CopiedCells(hs, row, trail)
           cells == FoldedRow(sheet, loan, l, lead, trail, w)
<1>1. k \in 1..3 /\ r \in 1..Len(sheet.rows) /\ m \in Nat /\ n \in Nat /\ k <= w
  <2>1. k \in 1..3 /\ \A i \in 1..k : loan[i] \in 1..Len(sheet.rows)
    BY Zenon DEF LoanIn
  <2>2. TallAt(hs, lead, trail)
    BY Zenon DEF AuditAt
  <2>3. m \in Nat /\ n \in Nat
    BY <2>2, Zenon DEF TallAt
  <2> HIDE DEF k, m, n
  <2>4. 1 \in 1..k
    BY <2>1
  <2>5. QED
    BY <2>1, <2>3, <2>4, Zenon DEF k
<1>2. Copied(x, m, row, 0) /\ Copied(y, n, row, m + 5)
  <2> HIDE DEF r, k
  <2>1. QED
    BY <1>1, LoanCopied
<1>3. /\ IsSequence(flat) /\ Len(flat) = k * 8
      /\ GroupsIn(flat, 0, sheet, m, n, loan, l)
  BY GroupsJoined
<1>4. (w - k) * GroupWidth = (w - k) * 8 /\ (w - k) * 8 \in Nat
  <2>1. GroupWidth = 8
    BY BlockSizes, Zenon
  <2> HIDE DEF k
  <2>2. (w - k) * 8 \in Nat
    BY <1>1
  <2>3. QED
    BY <2>1, <2>2, Zenon
<1>5. IsSequence(none) /\ Len(none) = (w - k) * 8 /\ \A i \in 1..((w - k) * 8) : none[i] = Nothing
  <2> DEFINE z == (w - k) * 8
  <2>1. z \in Nat /\ none = Blanks(z)
    BY <1>4, Zenon
  <2> HIDE DEF z, none
  <2>2. IsSequence(Blanks(z)) /\ Len(Blanks(z)) = z /\ \A i \in 1..z : Blanks(z)[i] = Nothing
    BY <2>1, BlanksOf
  <2>3. QED
    BY <2>1, <2>2, Zenon DEF z
<1>6. cells = x \o flat \o none \o y
  BY Zenon DEF FoldedRow
<1> HIDE DEF hs, k, m, n, r, row, x, flat, none, y, cells
<1>7. /\ IsSequence(x) /\ Len(x) = m /\ \A j \in 1..m : x[j] = row[0 + j]
      /\ IsSequence(y) /\ Len(y) = n /\ \A j \in 1..n : y[j] = row[m + 5 + j]
  BY <1>2, Zenon DEF Copied
<1>8. FourIn(x \o flat \o none \o y, x, flat, none, y)
  BY <1>3, <1>5, <1>7, FourJoined
<1>9. /\ IsSequence(cells) /\ Len(cells) = m + k * 8 + (w - k) * 8 + n
      /\ \A i \in 1..m : cells[i] = row[0 + i]
      /\ \A i \in 1..(k * 8) : cells[m + i] = flat[i]
      /\ \A i \in 1..((w - k) * 8) : cells[m + k * 8 + i] = Nothing
      /\ \A i \in 1..n : cells[m + k * 8 + (w - k) * 8 + i] = row[m + 5 + i]
  <2> DEFINE all == x \o flat \o none \o y
  <2> HIDE DEF all
  <2>1. FourIn(all, x, flat, none, y) /\ cells = all
    BY <1>6, <1>8, Zenon DEF all
  <2>2. /\ IsSequence(all) /\ Len(all) = Len(x) + Len(flat) + Len(none) + Len(y)
        /\ \A i \in 1..Len(x) : all[i] = x[i]
        /\ \A i \in 1..Len(flat) : all[Len(x) + i] = flat[i]
        /\ \A i \in 1..Len(none) : all[Len(x) + Len(flat) + i] = none[i]
        /\ \A i \in 1..Len(y) : all[Len(x) + Len(flat) + Len(none) + i] = y[i]
    BY <2>1, Zenon DEF FourIn
  <2>3. Len(x) = m /\ Len(flat) = k * 8 /\ Len(none) = (w - k) * 8 /\ Len(y) = n
    BY <1>3, <1>5, <1>7, Zenon
  <2>4. IsSequence(cells) /\ Len(cells) = m + k * 8 + (w - k) * 8 + n
    BY <2>1, <2>2, <2>3, Zenon
  <2>5. \A i \in 1..m : cells[i] = row[0 + i]
    BY <1>7, <2>1, <2>2, <2>3, Zenon
  <2>6. \A i \in 1..(k * 8) : cells[m + i] = flat[i]
    BY <2>1, <2>2, <2>3, Zenon
  <2>7. \A i \in 1..((w - k) * 8) : cells[m + k * 8 + i] = Nothing
    BY <1>5, <2>1, <2>2, <2>3, Zenon
  <2>8. \A i \in 1..n : cells[m + k * 8 + (w - k) * 8 + i] = row[m + 5 + i]
    BY <1>7, <2>1, <2>2, <2>3, Zenon
  <2>9. QED
    BY <2>4, <2>5, <2>6, <2>7, <2>8, Zenon
<1>10. /\ m + k * 8 + (w - k) * 8 + n = m + w * 8 + n
       /\ \A i : m + k * 8 + (w - k) * 8 = m + w * 8
       /\ \A i \in 1..m : 0 + i = i
  BY <1>1
<1>11. \A i \in 1..w : i > k => \A y0 \in 1..8 : cells[Start(m, i) + y0] = Nothing
  <2>1. ASSUME NEW i \in 1..w, i > k, NEW z \in 1..8 PROVE cells[Start(m, i) + z] = Nothing
    <3> DEFINE p == ((i - 1) - k) * 8 + z
    <3>1. p \in 1..((w - k) * 8) /\ m + k * 8 + p = Start(m, i) + z
      BY <1>1, <2>1 DEF Start
    <3> HIDE DEF p
    <3>2. QED
      BY <1>9, <3>1, Zenon
  <2>2. QED
    BY <2>1, Zenon
<1>12. ASSUME NEW i \in 1..k PROVE GroupCells(cells, Start(m, i), sheet, m, n, loan[i], l, Start(m, i))
  <2> DEFINE s == Start(0, i)
             t == Start(m, i)
             q == loan[i]
  <2>1. /\ s \in Nat /\ t \in Nat /\ \A z \in 1..8 : t + z = m + (s + z) /\ s + z \in 1..(k * 8)
    BY <1>1 DEF Start
  <2>2. GroupCells(flat, s, sheet, m, n, q, l, t)
    BY <1>3, Zenon DEF GroupsIn, k
  <2> HIDE DEF s, t, q
  <2>3. \A z \in 1..8 : cells[t + z] = flat[s + z]
    <3>1. ASSUME NEW z \in 1..8 PROVE cells[t + z] = flat[s + z]
      <4>1. t + z = m + (s + z) /\ s + z \in 1..(k * 8)
        BY <2>1, Zenon
      <4>2. cells[m + (s + z)] = flat[s + z]
        BY <1>9, <4>1, Zenon
      <4>3. QED
        BY <4>1, <4>2, Zenon
    <3>2. QED
      BY <3>1, Zenon
  <2>4. GroupCells(cells, t, sheet, m, n, q, l, t)
    BY <2>1, <2>2, <2>3, GroupElsewhere
  <2>5. QED
    BY <2>4, Zenon DEF t, q
<1>13. GroupsIn(cells, m, sheet, m, n, loan, l)
  BY <1>12, Zenon DEF GroupsIn, k
<1>14. \A j \in 1..m : cells[j] = row[j]
  BY <1>9, <1>10, Zenon
<1>15. \A j \in 1..n : cells[m + w * 8 + j] = row[m + 5 + j]
  BY <1>9, <1>10, Zenon
<1>16. Len(cells) = m + w * 8 + n
  BY <1>9, <1>10, Zenon
<1>17. QED
  BY <1>9, <1>11, <1>13, <1>14, <1>15, <1>16, Zenon DEF WideRow, cells, m, n, k, row, r

(* What Rebuild makes of an audit sheet.                                      *)
FoldedAs(sheet, folded, lead, trail, loans, at, w) ==
  /\ AuditAt(sheet, lead, trail) /\ LoansAt(sheet, loans, at)
  /\ lead = Present(LEADING_COLUMNS, sheet.headers) /\ trail = Present(TRAILING_COLUMNS, sheet.headers)
  /\ w \in 1..3 /\ \A l \in 1..Len(loans) : Len(loans[l]) <= w
  /\ \E l \in 1..Len(loans) : Len(loans[l]) = w
  /\ WideAt(folded.headers, lead, trail, w)
  /\ IsSequence(folded.rows) /\ Len(folded.rows) = Len(loans)
  /\ \A l \in 1..Len(loans) : WideRow(folded.rows[l], sheet, Len(lead), Len(trail), loans[l], l, w)

(* The rows of a loan are rows of the sheet. *)
LEMMA LoanInIs ==
  ASSUME NEW sheet, NEW loans, NEW at, LoansAt(sheet, loans, at), NEW l \in 1..Len(loans)
  PROVE  LoanIn(sheet, loans[l])
<1>1. LoanAt(sheet, loans[l], at[l], at[l + 1])
  BY Zenon DEF LoansAt
<1>2. QED
  BY <1>1, Zenon DEF LoanAt, LoanIn

(* What Rebuild makes of an audit sheet is a folded one. *)
LEMMA RebuiltAs ==
  ASSUME NEW sheet, IsAuditSheet(sheet)
  PROVE  \E lead, trail, loans, at, w : FoldedAs(sheet, Rebuild(sheet).sheet, lead, trail, loans, at, w)
<1> DEFINE hs == sheet.headers
           rows == sheet.rows
           lead == Present(LEADING_COLUMNS, hs)
           trail == Present(TRAILING_COLUMNS, hs)
           loans == LoanRows(rows, {IndexOf(hs, h) : h \in Range(lead)})
           capped(l) == IF Len(loans[l]) > MAX_ORNAMENTS THEN MAX_ORNAMENTS ELSE Len(loans[l])
           widths == {capped(l) : l \in DOMAIN loans}
           w == Max(widths)
           cells(l) == CopiedCells(hs, rows[loans[l][1]], lead)
                         \o FlattenSeq([i \in 1..capped(l) |-> Group(sheet, loans[l][i], l, i)])
                         \o Blanks((w - capped(l)) * GroupWidth)
                         \o CopiedCells(hs, rows[loans[l][1]], trail)
           folded == Rebuild(sheet).sheet
           L == Len(loans)
<1>1. AuditAt(sheet, lead, trail)
  BY AuditSheetIs
<1>2. PICK at : LoansAt(sheet, loans, at)
  <2>1. \E at : LoansAt(sheet, LoanRows(sheet.rows, {IndexOf(sheet.headers, h) : h \in Range(lead)}), at)
    <3> HIDE DEF lead, trail
    <3>1. QED
      BY <1>1, LoansOf
  <2>2. QED
    BY <2>1, Zenon
<1>3. folded.headers = BuildHeaders(lead, trail, w) /\ folded.rows = [l \in DOMAIN loans |-> cells(l)]
  <2>1. Rebuild(sheet).sheet = Sheet(BuildHeaders(lead, trail, w), [l \in DOMAIN loans |-> cells(l)])
    BY Zenon DEF Rebuild
  <2> DEFINE gs == BuildHeaders(lead, trail, w)
             all == [l \in DOMAIN loans |-> cells(l)]
  <2> HIDE DEF gs, all, folded
  <2>2. Sheet(gs, all).headers = gs /\ Sheet(gs, all).rows = all
    BY DEF Sheet
  <2>3. folded = Sheet(gs, all)
    BY <2>1, Zenon DEF gs, all, folded
  <2>4. folded.headers = gs /\ folded.rows = all
    BY <2>2, <2>3, Zenon
  <2>5. QED
    BY <2>4, Zenon DEF gs, all
<1>4. \A l \in 1..L : LoanIn(sheet, loans[l])
  <2> HIDE DEF loans
  <2>1. QED
    BY <1>2, LoanInIs
<1>5. DOMAIN loans = 1..L /\ L \in Nat /\ L # 0
  <2>1. IsSequence(loans) /\ L \in Nat /\ L # 0
    BY <1>2, Zenon DEF LoansAt
  <2>2. QED
    BY <2>1, IsSeqOf, Zenon
<1>6. ASSUME NEW l \in 1..L PROVE capped(l) = Len(loans[l]) /\ capped(l) \in 1..3
  <2> DEFINE k == Len(loans[l])
  <2>1. k \in 1..3
    BY <1>4, Zenon DEF LoanIn
  <2> HIDE DEF k
  <2>2. ~(k > MAX_ORNAMENTS)
    BY <2>1 DEF MAX_ORNAMENTS
  <2>3. QED
    BY <2>1, <2>2, Zenon DEF k
<1>7. /\ w \in widths /\ \A x \in widths : x <= w
  <2>1. \A l \in DOMAIN loans : capped(l) \in 1..3
    BY <1>5, <1>6, Zenon
  <2>2. widths \subseteq 1..3
    BY <2>1, Zenon
  <2>3. 1 \in 1..L
    BY <1>5
  <2>4. widths # {}
    BY <1>5, <2>3, Zenon
  <2> HIDE DEF widths
  <2>5. widths \subseteq 0..3
    BY <2>2
  <2>6. QED
    BY <2>4, <2>5, MaxIs
<1> HIDE DEF hs, rows, lead, trail, loans, w, folded, L
<1>8. /\ \A l \in 1..L : Len(loans[l]) <= w
      /\ \E l \in 1..L : Len(loans[l]) = w
      /\ w \in 1..3
  BY <1>5, <1>6, <1>7, Zenon
<1>9. \A l \in 1..L : cells(l) = FoldedRow(sheet, loans[l], l, lead, trail, w)
  <2>1. ASSUME NEW l \in 1..L PROVE cells(l) = FoldedRow(sheet, loans[l], l, lead, trail, w)
    <3>1. capped(l) = Len(loans[l])
      BY <1>6, Zenon
    <3>2. QED
      BY <3>1, Zenon DEF FoldedRow, hs, rows
  <2>2. QED
    BY <2>1, Zenon
<1> HIDE DEF cells
<1>10. IsSequence(folded.rows) /\ Len(folded.rows) = L /\ \A l \in 1..L : folded.rows[l] = cells(l)
  <2> DEFINE all == folded.rows
  <2>1. all = [l \in 1..L |-> cells(l)]
    BY <1>3, <1>5, Zenon
  <2> HIDE DEF all
  <2>2. IsSequence(all) /\ Len(all) = L
    BY <1>5, <2>1 DEF IsSequence
  <2>3. \A l \in 1..L : all[l] = cells(l)
    BY <2>1, Zenon
  <2>4. QED
    BY <2>2, <2>3, Zenon DEF all
<1>11. ASSUME NEW l \in 1..L PROVE WideRow(folded.rows[l], sheet, Len(lead), Len(trail), loans[l], l, w)
  <2> DEFINE loan == loans[l]
             row == FoldedRow(sheet, loan, l, lead, trail, w)
  <2>1. LoanIn(sheet, loan) /\ Len(loan) <= w /\ folded.rows[l] = row
    BY <1>4, <1>8, <1>9, <1>10, Zenon
  <2>2. lead = Present(LEADING_COLUMNS, sheet.headers)
    BY Zenon DEF lead, hs
  <2> HIDE DEF loan
  <2>3. WideRow(row, sheet, Len(lead), Len(trail), loan, l, w)
    BY <1>1, <1>8, <2>1, <2>2, RowFolded
  <2> HIDE DEF row
  <2>4. QED
    BY <2>1, <2>3, Zenon DEF loan
<1>12. WideAt(folded.headers, lead, trail, w)
  <2>1. WideAt(BuildHeaders(lead, trail, w), lead, trail, w)
    BY <1>8, WideHeadings DEF lead, trail, hs
  <2>2. QED
    BY <1>3, <2>1, Zenon
<1>13. lead = Present(LEADING_COLUMNS, sheet.headers) /\ trail = Present(TRAILING_COLUMNS, sheet.headers)
  BY Zenon DEF lead, trail, hs
<1>14. FoldedAs(sheet, folded, lead, trail, loans, at, w)
  BY <1>1, <1>2, <1>8, <1>10, <1>11, <1>12, <1>13, Zenon DEF FoldedAs, L
<1>15. QED
  BY <1>14, Zenon DEF folded

(* The columns of the folded master.                                          *)
FoldedHeadings(gs, lead, trail, w) ==
  LET m == Len(lead) IN
  /\ Present(LEADING_COLUMNS, gs) = lead /\ Present(TRAILING_COLUMNS, gs) = trail
  /\ \A j \in 1..m : IndexOf(gs, lead[j]) = j
  /\ \A j \in 1..Len(trail) : IndexOf(gs, trail[j]) = m + w * 8 + j
  /\ IsSequence(MapOrnaments(gs)) /\ Len(MapOrnaments(gs)) = w
  /\ \A i \in 1..w :
       /\ MapOrnaments(gs)[i].number = i
       /\ BlockFinds(MapOrnaments(gs)[i], Start(m, i) + 2, Start(m, i) + 6)

(* What is found in the headings of a folded sheet. *)
LEMMA HeadingsFolded ==
  ASSUME NEW sheet, NEW folded, NEW lead, NEW trail, NEW loans, NEW at, NEW w,
         FoldedAs(sheet, folded, lead, trail, loans, at, w)
  PROVE  FoldedHeadings(folded.headers, lead, trail, w)
<1> DEFINE hs == sheet.headers
           gs == folded.headers
           m == Len(lead)
           e == m + 5
           f == m + w * 8
           Leads == LEADING_COLUMNS
           Trails == TRAILING_COLUMNS
           names == [i \in 1..w |-> Start(m, i) + 2]
           splits == [i \in 1..w |-> Start(m, i) + 6]
           blocks == MapOrnaments(gs)
<1>1. /\ AuditAt(sheet, lead, trail) /\ WideAt(gs, lead, trail, w)
      /\ lead = Present(LEADING_COLUMNS, sheet.headers) /\ trail = Present(TRAILING_COLUMNS, sheet.headers)
  BY Zenon DEF FoldedAs
<1>2. /\ TallAt(hs, lead, trail) /\ Once(lead) /\ Once(trail)
      /\ IsSequence(lead) /\ IsSequence(trail)
  BY <1>1, Zenon DEF AuditAt
<1>3. LoanColumns(hs, lead, trail, e)
  BY <1>2, TallLoanColumns
<1>4. LoanColumns(gs, lead, trail, f)
  BY <1>1, WideLoanColumns
<1>5. FoundBlocks(blocks, w, names, splits)
  BY <1>1, WideOrnaments
<1> HIDE DEF hs, gs, e, f, Leads, Trails
<1>6. /\ \A h \in Range(Leads) : h \in Range(hs) <=> h \in Range(lead)
      /\ \A h \in Range(Trails) : h \in Range(hs) <=> h \in Range(trail)
  BY <1>2, <1>3, LoanColumnsThere DEF Leads, Trails
<1>7. /\ \A h \in Range(Leads) : h \in Range(gs) <=> h \in Range(lead)
      /\ \A h \in Range(Trails) : h \in Range(gs) <=> h \in Range(trail)
  BY <1>2, <1>4, LoanColumnsThere DEF Leads, Trails
<1>8. IsSequence(Leads) /\ IsSequence(Trails)
  BY ColumnsAre, Zenon DEF Leads, Trails
<1>9. /\ \A h \in Range(Leads) : h \in Range(gs) <=> h \in Range(hs)
      /\ \A h \in Range(Trails) : h \in Range(gs) <=> h \in Range(hs)
  BY <1>6, <1>7, Zenon
<1>10. Present(Leads, gs) = Present(Leads, hs) /\ Present(Trails, gs) = Present(Trails, hs)
  BY <1>8, <1>9, SamePresent
<1>11. Present(Leads, gs) = lead /\ Present(Trails, gs) = trail
  BY <1>1, <1>10, Zenon DEF Leads, Trails, hs
<1>12. /\ \A j \in 1..Len(lead) : IndexOf(gs, lead[j]) = j
       /\ \A j \in 1..Len(trail) : IndexOf(gs, trail[j]) = f + j
  BY <1>2, <1>4, LoanColumnsFound
<1>13. /\ \A i \in 1..w : names[i] = Start(m, i) + 2
       /\ \A i \in 1..w : splits[i] = Start(m, i) + 6
  BY Zenon
<1> HIDE DEF names, splits, blocks
<1>14. /\ IsSequence(blocks) /\ Len(blocks) = w
       /\ \A i \in 1..w : blocks[i].number = i /\ BlockFinds(blocks[i], Start(m, i) + 2, Start(m, i) + 6)
  BY <1>5, <1>13, Zenon DEF FoundBlocks
<1>15. QED
  BY <1>11, <1>12, <1>14, Zenon DEF FoldedHeadings, gs, f, Leads, Trails, blocks

(* The row of a loan, read by its headings.                                   *)
LoanFolded(gs, row, sheet, lead, trail, loan, w) ==
  LET m == Len(lead)
      blocks == MapOrnaments(gs)
      first == sheet.rows[loan[1]]
  IN
  /\ IsLoan(gs, row)
  /\ \A j \in 1..m : CellAt(row, IndexOf(gs, lead[j])) = first[j]
  /\ \A j \in 1..Len(trail) : CellAt(row, IndexOf(gs, trail[j])) = first[m + 5 + j]
  /\ \A i \in 1..w : IsOrnament(row, blocks[i]) <=> i <= Len(loan)
  /\ \A i \in 1..Len(loan) :
       /\ CellAt(row, blocks[i].name) = sheet.rows[loan[i]][m + 2]
       /\ Copied(Figures(row, blocks[i]), 3, sheet.rows[loan[i]], m + 2)

(* What is read in a row of a folded sheet. *)
LEMMA LoanReads ==
  ASSUME NEW sheet, NEW folded, NEW lead, NEW trail, NEW loans, NEW at, NEW w,
         FoldedAs(sheet, folded, lead, trail, loans, at, w), NEW l \in 1..Len(loans)
  PROVE  LoanFolded(folded.headers, folded.rows[l], sheet, lead, trail, loans[l], w)
<1> DEFINE hs == sheet.headers
           gs == folded.headers
           row == folded.rows[l]
           loan == loans[l]
           k == Len(loan)
           m == Len(lead)
           n == Len(trail)
           blocks == MapOrnaments(gs)
           first == sheet.rows[loan[1]]
           Ring == "ring"
           LN == "Loan No."
           SN == "SR No."
<1>1. /\ AuditAt(sheet, lead, trail) /\ LoansAt(sheet, loans, at)
      /\ w \in 1..3 /\ k <= w /\ WideRow(row, sheet, m, n, loan, l, w)
  BY Zenon DEF FoldedAs
<1>2. FoldedHeadings(gs, lead, trail, w)
  BY HeadingsFolded
<1>3. /\ \A j \in 1..m : IndexOf(gs, lead[j]) = j
      /\ \A j \in 1..n : IndexOf(gs, trail[j]) = m + w * 8 + j
      /\ \A i \in 1..w : blocks[i].number = i /\ BlockFinds(blocks[i], Start(m, i) + 2, Start(m, i) + 6)
  BY <1>2, Zenon DEF FoldedHeadings
<1>4. /\ TallAt(hs, lead, trail) /\ m \in Nat /\ n \in Nat
      /\ {LN, SN} \subseteq Range(lead) /\ IsSequence(lead)
      /\ \A r \in 1..Len(sheet.rows) : AuditRow(sheet, m, n, r)
  BY <1>1, Zenon DEF AuditAt, TallAt
<1>5. LoanAt(sheet, loan, at[l], at[l + 1])
  BY <1>1, Zenon DEF LoansAt
<1>6. /\ k \in 1..3 /\ IsLoan(hs, sheet.rows[at[l]]) /\ at[l] \in 1..Len(sheet.rows)
      /\ \A i \in 1..k : loan[i] = at[l] + (i - 1) /\ loan[i] \in 1..Len(sheet.rows)
  BY <1>5, Zenon DEF LoanAt
<1>7. loan[1] = at[l] /\ loan[1] \in 1..Len(sheet.rows)
  <2> DEFINE a == at[l]
             N == Len(sheet.rows)
  <2>a. k \in 1..3 /\ a \in 1..N
    BY <1>6, Zenon
  <2> HIDE DEF k, a, N
  <2>b. 1 \in 1..k /\ a + (1 - 1) = a
    BY <2>a
  <2>1. 1 \in 1..k /\ at[l] + (1 - 1) = at[l]
    BY <2>b, Zenon DEF a
  <2>2. loan[1] = a + (1 - 1) /\ loan[1] \in 1..N
    BY <1>6, <2>1, Zenon DEF k, a, N
  <2>3. QED
    BY <2>b, <2>2, Zenon DEF a, N
<1>8. /\ IsSequence(row) /\ Len(row) = m + w * 8 + n
      /\ \A j \in 1..m : row[j] = first[j]
      /\ GroupsIn(row, m, sheet, m, n, loan, l)
      /\ \A i \in 1..w : i > k => \A y \in 1..8 : row[Start(m, i) + y] = Nothing
      /\ \A j \in 1..n : row[m + w * 8 + j] = first[m + 5 + j]
  BY <1>1, Zenon DEF WideRow
<1>9. DOMAIN row = 1..(m + w * 8 + n) /\ DOMAIN lead = 1..m
  BY <1>4, <1>8, IsSeqOf, Zenon
<1>10. ASSUME NEW r \in 1..Len(sheet.rows)
       PROVE  sheet.rows[r][m + 2] # Nothing /\ sheet.rows[r][m + 2] # Dash
  <2> DEFINE ring == sheet.rows[r][m + 2]
  <2>1. ring = Value(<<Ring, ring.of[2], ring.of[3]>>)
    BY <1>4, Zenon DEF AuditRow
  <2> HIDE DEF ring, Ring
  <2>2. \A x, y : Value(<<Ring, x, y>>) # Nothing /\ Value(<<Ring, x, y>>) # Dash
    BY RingIsAName, Zenon DEF Ring
  <2>3. ring # Nothing /\ ring # Dash
    BY <2>1, <2>2, Zenon
  <2>4. QED
    BY <2>3, Zenon DEF ring
<1>11. \A c : CellAt(sheet.rows[loan[1]], c) = IF c \in DOMAIN first THEN first[c] ELSE Nothing
  BY Zenon DEF CellAt
<1>12. IsLoan(hs, first)
  BY <1>6, <1>7, Zenon
<1>13. Copied(CopiedCells(hs, first, lead), m, first, 0)
  <2> DEFINE r == loan[1]
  <2>1. r \in 1..Len(sheet.rows)
    BY <1>7, Zenon
  <2> HIDE DEF r
  <2>2. QED
    BY <1>1, <2>1, LoanCopied DEF r
<1> HIDE DEF hs, gs, row, loan, k, m, n, blocks, first, LN, SN
<1>14. \A j \in 1..m : CellAt(row, IndexOf(gs, lead[j])) = first[j]
  <2>1. \A j \in 1..m : j \in 1..(m + w * 8 + n)
    BY <1>1, <1>4
  <2>2. \A j \in 1..m : CellAt(row, j) = row[j]
    BY <1>9, <2>1, Zenon DEF CellAt
  <2>3. QED
    BY <1>3, <1>8, <2>2, Zenon
<1>15. \A j \in 1..n : CellAt(row, IndexOf(gs, trail[j])) = first[m + 5 + j]
  <2>1. \A j \in 1..n : m + w * 8 + j \in 1..(m + w * 8 + n)
    BY <1>1, <1>4
  <2>2. \A j \in 1..n : CellAt(row, m + w * 8 + j) = row[m + w * 8 + j]
    BY <1>9, <2>1, Zenon DEF CellAt
  <2>3. QED
    BY <1>3, <1>8, <2>2, Zenon
<1>16. IsLoan(gs, row)
  <2>1. \A j \in 1..m : CellAt(first, IndexOf(hs, lead[j])) = first[j]
    <3>1. /\ \A j \in 1..m : CopiedCells(hs, first, lead)[j] = first[0 + j]
      BY <1>13, Zenon DEF Copied
    <3>2. \A j \in 1..m : CopiedCells(hs, first, lead)[j] = CellAt(first, IndexOf(hs, lead[j]))
      BY <1>9, Zenon DEF CopiedCells
    <3>3. \A j \in 1..m : 0 + j = j
      BY <1>4
    <3>4. QED
      BY <3>1, <3>2, <3>3, Zenon
  <2>2. PICK p \in 1..m : lead[p] = LN
    BY <1>4, <1>9, Zenon DEF Range
  <2>3. PICK q \in 1..m : lead[q] = SN
    BY <1>4, <1>9, Zenon DEF Range
  <2>4. CellAt(row, IndexOf(gs, LN)) = CellAt(first, IndexOf(hs, LN))
    BY <1>14, <2>1, <2>2, Zenon
  <2>5. CellAt(row, IndexOf(gs, SN)) = CellAt(first, IndexOf(hs, SN))
    BY <1>14, <2>1, <2>3, Zenon
  <2>6. IsLoan(hs, first) <=> CellAt(first, IndexOf(hs, LN)) # Nothing \/ CellAt(first, IndexOf(hs, SN)) # Nothing
    BY Zenon DEF IsLoan, Blank, LN, SN
  <2>7. IsLoan(gs, row) <=> CellAt(row, IndexOf(gs, LN)) # Nothing \/ CellAt(row, IndexOf(gs, SN)) # Nothing
    BY Zenon DEF IsLoan, Blank, LN, SN
  <2>8. QED
    BY <1>12, <2>4, <2>5, <2>6, <2>7, Zenon
<1>17. ASSUME NEW i \in 1..w
       PROVE  /\ blocks[i].name = Start(m, i) + 2
              /\ \A j \in 1..3 : /\ DATA_ATTR_ORDER[j] \in DOMAIN blocks[i].data
                                 /\ blocks[i].data[DATA_ATTR_ORDER[j]] = Start(m, i) + 2 + j
              /\ CellAt(row, Start(m, i) + 2) = row[Start(m, i) + 2]
              /\ \A j \in 1..3 : CellAt(row, Start(m, i) + 2 + j) = row[Start(m, i) + 2 + j]
  <2>1. BlockFinds(blocks[i], Start(m, i) + 2, Start(m, i) + 6)
    BY <1>3, Zenon
  <2>2. /\ Start(m, i) + 2 \in 1..(m + w * 8 + n)
        /\ \A j \in 1..3 : Start(m, i) + 2 + j \in 1..(m + w * 8 + n)
    BY <1>1, <1>4 DEF Start
  <2>3. CellAt(row, Start(m, i) + 2) = row[Start(m, i) + 2]
    BY <1>9, <2>2, Zenon DEF CellAt
  <2>4. \A j \in 1..3 : CellAt(row, Start(m, i) + 2 + j) = row[Start(m, i) + 2 + j]
    BY <1>9, <2>2, Zenon DEF CellAt
  <2>5. QED
    BY <2>1, <2>3, <2>4, Zenon DEF BlockFinds
<1>18. ASSUME NEW i \in 1..k
       PROVE  /\ i \in 1..w /\ row[Start(m, i) + 2] = sheet.rows[loan[i]][m + 2]
              /\ \A j \in 1..3 : row[Start(m, i) + 2 + j] = sheet.rows[loan[i]][m + 2 + j]
  <2>1. GroupCells(row, Start(m, i), sheet, m, n, loan[i], l, Start(m, i))
    BY <1>8, Zenon DEF GroupsIn, k
  <2>2. i \in 1..w
    BY <1>1, <1>6
  <2>3. QED
    BY <2>1, <2>2, Zenon DEF GroupCells
<1>19. ASSUME NEW i \in 1..w PROVE IsOrnament(row, blocks[i]) <=> i <= k
  <2> DEFINE cell == CellAt(row, blocks[i].name)
  <2>1. IsOrnament(row, blocks[i]) <=> cell # Nothing /\ cell # Dash
    BY Zenon DEF IsOrnament, Blank
  <2>2. cell = row[Start(m, i) + 2]
    BY <1>17, Zenon
  <2> HIDE DEF cell
  <2>3. CASE i <= k
    <3>1. i \in 1..k
      BY <1>1, <1>6, <2>3
    <3>2. cell = sheet.rows[loan[i]][m + 2] /\ loan[i] \in 1..Len(sheet.rows)
      BY <1>6, <1>18, <2>2, <3>1, Zenon
    <3>3. QED
      BY <1>10, <2>1, <2>3, <3>2, Zenon
  <2>4. CASE ~(i <= k)
    <3>1. i > k /\ 2 \in 1..8
      BY <1>1, <1>6, <2>4
    <3>2. cell = Nothing
      BY <1>8, <2>2, <3>1, Zenon
    <3>3. QED
      BY <2>1, <2>4, <3>2, Zenon
  <2>5. QED
    BY <2>3, <2>4, Zenon
<1>20. ASSUME NEW i \in 1..k
       PROVE  /\ CellAt(row, blocks[i].name) = sheet.rows[loan[i]][m + 2]
              /\ Copied(Figures(row, blocks[i]), 3, sheet.rows[loan[i]], m + 2)
  <2> DEFINE block == blocks[i]
             fs == Figures(row, block)
             s == Start(m, i)
  <2>1. CellAt(row, block.name) = sheet.rows[loan[i]][m + 2]
    BY <1>17, <1>18, Zenon
  <2>2. DOMAIN DATA_ATTR_ORDER = 1..3
    BY BlockSizes, Zenon
  <2>3. fs = [j \in 1..3 |-> IF DATA_ATTR_ORDER[j] \in DOMAIN block.data
                             THEN CellAt(row, block.data[DATA_ATTR_ORDER[j]]) ELSE Nothing]
    BY <2>2, Zenon DEF Figures
  <2>4. \A j \in 1..3 : /\ DATA_ATTR_ORDER[j] \in DOMAIN block.data
                        /\ CellAt(row, block.data[DATA_ATTR_ORDER[j]]) = sheet.rows[loan[i]][m + 2 + j]
    BY <1>17, <1>18, Zenon
  <2> HIDE DEF block, fs
  <2>5. \A j \in 1..3 : fs[j] = sheet.rows[loan[i]][m + 2 + j]
    BY <2>3, <2>4, Zenon
  <2>6. IsSequence(fs) /\ Len(fs) = 3
    BY <2>3 DEF IsSequence
  <2>7. QED
    BY <2>1, <2>5, <2>6, Zenon DEF Copied, block, fs
<1>21. QED
  BY <1>14, <1>15, <1>16, <1>19, <1>20, Zenon DEF LoanFolded, gs, row, loan, k, m, n, blocks, first

(* The loan's cells go back to the row of its first ornament.                 *)
LEMMA LoanCellsBack ==
  ASSUME NEW sheet, NEW folded, NEW lead, NEW trail, NEW loans, NEW at, NEW w,
         FoldedAs(sheet, folded, lead, trail, loans, at, w), NEW l \in 1..Len(loans),
         NEW i \in 1..Len(loans[l])
  PROVE  LET gs == folded.headers
             row == folded.rows[l]
             old == sheet.rows[loans[l][i]]
         IN /\ Copied(LoanCells(gs, row, lead, i = 1), Len(lead), old, 0)
            /\ Copied(LoanCells(gs, row, trail, i = 1), Len(trail), old, Len(lead) + 5)
<1> DEFINE hs == sheet.headers
           gs == folded.headers
           row == folded.rows[l]
           loan == loans[l]
           k == Len(loan)
           m == Len(lead)
           n == Len(trail)
           old == sheet.rows[loan[i]]
           first == sheet.rows[loan[1]]
           M == "Cluster Manager"
           x == LoanCells(gs, row, lead, i = 1)
           y == LoanCells(gs, row, trail, i = 1)
           cell(h) == CellAt(row, IndexOf(gs, h))
           made(h) == LET c == CellAt(row, IndexOf(gs, h))
                      IN IF ~(i = 1) THEN Nothing
                         ELSE IF h = M /\ Blank(c) THEN DefaultManager ELSE c
<1>1. AuditAt(sheet, lead, trail) /\ LoansAt(sheet, loans, at)
  BY Zenon DEF FoldedAs
<1>2. LoanFolded(gs, row, sheet, lead, trail, loan, w)
  BY LoanReads
<1>3. /\ \A j \in 1..m : cell(lead[j]) = first[j]
      /\ \A j \in 1..n : cell(trail[j]) = first[m + 5 + j]
  BY <1>2, Zenon DEF LoanFolded
<1>4. /\ TallAt(hs, lead, trail) /\ IsSequence(lead) /\ IsSequence(trail)
      /\ \A r \in 1..Len(sheet.rows) : AuditRow(sheet, m, n, r)
  BY <1>1, Zenon DEF AuditAt
<1>5. /\ m \in Nat /\ n \in Nat
      /\ \A j \in 1..m : lead[j] \in Range(LEADING_COLUMNS)
      /\ \A j \in 1..n : hs[m + 5 + j] = trail[j]
  BY <1>4, Zenon DEF TallAt
<1>6. LoanAt(sheet, loan, at[l], at[l + 1])
  BY <1>1, Zenon DEF LoansAt
<1>7. /\ loan[i] \in 1..Len(sheet.rows) /\ (i # 1 => ~IsLoan(hs, old))
      /\ IsLoan(hs, sheet.rows[at[l]]) /\ loan[i] = at[l] + (i - 1) /\ at[l] \in 1..Len(sheet.rows)
  BY <1>6, Zenon DEF LoanAt
<1>8. /\ ~IsLoan(hs, old) => (\A c \in 1..m : old[c] = Nothing) /\ \A j \in 1..n : old[m + 5 + j] = Nothing
      /\ IsLoan(hs, old) => \A j \in 1..n : hs[m + 5 + j] = M => old[m + 5 + j] # Nothing
  BY <1>4, <1>7, Zenon DEF AuditRow
<1>9. \A j \in 1..m : lead[j] # M
  BY <1>5, HeadingsDiffer, Zenon DEF LeadsApart
<1>10. DOMAIN lead = 1..m /\ DOMAIN trail = 1..n
  BY <1>4, IsSeqOf, Zenon
<1>11. /\ x = [j \in 1..m |-> made(lead[j])]
       /\ y = [j \in 1..n |-> made(trail[j])]
  BY <1>10, Zenon DEF LoanCells
<1>12. \A h : made(h) = IF ~(i = 1) THEN Nothing ELSE IF h = M /\ Blank(cell(h)) THEN DefaultManager ELSE cell(h)
  BY Zenon
<1>13. i = 1 => loan[i] = loan[1] /\ at[l] + (i - 1) = at[l]
  <2> DEFINE a == at[l]
  <2>1. a \in Nat
    BY <1>7
  <2> HIDE DEF a
  <2>2. i = 1 => a + (i - 1) = a
    BY <2>1
  <2>3. QED
    BY <2>2, Zenon DEF a
<1>14. i = 1 => old = first /\ IsLoan(hs, old)
  BY <1>7, <1>13, Zenon
<1> HIDE DEF hs, gs, row, loan, k, m, n, old, first, M, x, y, cell, made
<1>15. \A j \in 1..m : made(lead[j]) = old[j]
  <2>1. CASE i = 1
    BY <1>3, <1>9, <1>12, <1>14, <2>1, Zenon
  <2>2. CASE i # 1
    BY <1>7, <1>8, <1>12, <2>2, Zenon
  <2>3. QED
    BY <2>1, <2>2, Zenon
<1>16. \A j \in 1..n : made(trail[j]) = old[m + 5 + j]
  <2>1. CASE i = 1
    BY <1>3, <1>5, <1>8, <1>12, <1>14, <2>1, Zenon DEF Blank
  <2>2. CASE i # 1
    BY <1>7, <1>8, <1>12, <2>2, Zenon
  <2>3. QED
    BY <2>1, <2>2, Zenon
<1>17. IsSequence(x) /\ Len(x) = m /\ IsSequence(y) /\ Len(y) = n
  BY <1>5, <1>11 DEF IsSequence
<1>18. \A j \in 1..m : 0 + j = j
  BY <1>5
<1>19. Copied(x, m, old, 0)
  BY <1>11, <1>15, <1>17, <1>18, Zenon DEF Copied
<1>20. Copied(y, n, old, m + 5)
  BY <1>11, <1>16, <1>17, Zenon DEF Copied
<1>21. QED
  BY <1>19, <1>20, Zenon DEF x, y, m, n, old, gs, row, loan

(* The row of an ornament, but for its number.                                *)
ExplodedRow(cells, sheet, m, n, r) ==
  /\ IsSequence(cells) /\ Len(cells) = m + n + 5
  /\ \A c \in 1..(m + n + 5) : c # m + 1 => cells[c] = sheet.rows[r][c]

(* The parts of an exploded row make up the row it came from. *)
LEMMA RowBack ==
  ASSUME NEW sheet, NEW m \in Nat, NEW n \in Nat, NEW r, NEW x, Copied(x, m, sheet.rows[r], 0),
         NEW v, NEW u, u = sheet.rows[r][m + 2], NEW f, Copied(f, 3, sheet.rows[r], m + 2),
         NEW y, Copied(y, n, sheet.rows[r], m + 5)
  PROVE  ExplodedRow(x \o <<v, u>> \o f \o y, sheet, m, n, r)
<1> DEFINE two == <<v, u>>
           all == x \o two \o f \o y
           old == sheet.rows[r]
<1>1. IsSequence(two) /\ Len(two) = 2 /\ two[2] = u
  BY DEF IsSequence
<1> HIDE DEF two, all, old
<1>2. /\ IsSequence(x) /\ Len(x) = m /\ \A j \in 1..m : x[j] = old[0 + j]
      /\ IsSequence(f) /\ Len(f) = 3 /\ \A j \in 1..3 : f[j] = old[m + 2 + j]
      /\ IsSequence(y) /\ Len(y) = n /\ \A j \in 1..n : y[j] = old[m + 5 + j]
      /\ u = old[m + 2]
  BY Zenon DEF Copied, old
<1>3. FourIn(all, x, two, f, y)
  BY <1>1, <1>2, FourJoined DEF all
<1>4. /\ IsSequence(all) /\ Len(all) = m + 2 + 3 + n
      /\ \A i \in 1..m : all[i] = x[i]
      /\ \A i \in 1..2 : all[m + i] = two[i]
      /\ \A i \in 1..3 : all[m + 2 + i] = f[i]
      /\ \A i \in 1..n : all[m + 2 + 3 + i] = y[i]
  BY <1>1, <1>2, <1>3, Zenon DEF FourIn
<1>5. m + 2 + 3 + n = m + n + 5 /\ 2 \in 1..2 /\ (\A i \in 1..m : 0 + i = i) /\ \A i \in 1..n : m + 2 + 3 + i = m + 5 + i
  OBVIOUS
<1>6. /\ \A i \in 1..m : all[i] = old[i]
      /\ all[m + 2] = old[m + 2]
      /\ \A i \in 1..3 : all[m + 2 + i] = old[m + 2 + i]
      /\ \A i \in 1..n : all[m + 5 + i] = old[m + 5 + i]
  BY <1>1, <1>2, <1>4, <1>5, Zenon
<1>7. ASSUME NEW c \in 1..(m + n + 5), c # m + 1 PROVE all[c] = old[c]
  <2>1. \/ c \in 1..m \/ c = m + 2 \/ (\E i \in 1..3 : c = m + 2 + i) \/ \E i \in 1..n : c = m + 5 + i
    <3>1. CASE c <= m + 2
      BY <1>7, <3>1
    <3>2. CASE c > m + 2 /\ c <= m + 5
      <4>1. c - (m + 2) \in 1..3 /\ c = m + 2 + (c - (m + 2))
        BY <3>2
      <4>2. QED
        BY <4>1, Zenon
    <3>3. CASE c > m + 5
      <4>1. c - (m + 5) \in 1..n /\ c = m + 5 + (c - (m + 5))
        BY <3>3
      <4>2. QED
        BY <4>1, Zenon
    <3>4. QED
      BY <3>1, <3>2, <3>3
  <2>2. QED
    BY <1>6, <2>1, Zenon
<1>8. Len(all) = m + n + 5
  BY <1>4, <1>5, Zenon
<1>9. ExplodedRow(all, sheet, m, n, r)
  BY <1>4, <1>7, <1>8, Zenon DEF ExplodedRow, old
<1>10. QED
  BY <1>9, Zenon DEF all, two

(* A folded row explodes into the rows of its loan. *)
LEMMA LoanExplodes ==
  ASSUME NEW sheet, NEW folded, NEW lead, NEW trail, NEW loans, NEW at, NEW w,
         FoldedAs(sheet, folded, lead, trail, loans, at, w), NEW l \in 1..Len(loans)
  PROVE  LET e == Explode(folded.headers, folded.rows[l]) IN
         /\ IsSequence(e) /\ Len(e) = Len(loans[l])
         /\ \A i \in 1..Len(loans[l]) : ExplodedRow(e[i], sheet, Len(lead), Len(trail), loans[l][i])
<1> DEFINE gs == folded.headers
           row == folded.rows[l]
           loan == loans[l]
           k == Len(loan)
           m == Len(lead)
           n == Len(trail)
           blocks == MapOrnaments(gs)
           K == {b \in Range(blocks) : IsOrnament(row, b)}
           found == Kept(blocks, K)
           e == Explode(gs, row)
           made(i) == LoanCells(gs, row, lead, i = 1)
                        \o <<Value(<<Anchor(found[i].number)>>), CellAt(row, found[i].name)>>
                        \o Figures(row, found[i])
                        \o LoanCells(gs, row, trail, i = 1)
<1>1. AuditAt(sheet, lead, trail) /\ k <= w /\ w \in 1..3
  BY Zenon DEF FoldedAs
<1>2. m \in Nat /\ n \in Nat
  BY <1>1, Zenon DEF AuditAt, TallAt
<1>3. LoanIn(sheet, loan)
  <2>1. LoansAt(sheet, loans, at)
    BY Zenon DEF FoldedAs
  <2>2. QED
    BY <2>1, LoanInIs
<1>4. k \in 1..3
  BY <1>3, Zenon DEF LoanIn
<1>5. FoldedHeadings(gs, lead, trail, w)
  BY HeadingsFolded
<1>6. /\ Present(LEADING_COLUMNS, gs) = lead /\ Present(TRAILING_COLUMNS, gs) = trail
      /\ IsSequence(blocks) /\ Len(blocks) = w
  BY <1>5, Zenon DEF FoldedHeadings
<1>7. LoanFolded(gs, row, sheet, lead, trail, loan, w)
  BY LoanReads
<1>8. /\ \A i \in 1..w : IsOrnament(row, blocks[i]) <=> i <= k
      /\ \A i \in 1..k :
           /\ CellAt(row, blocks[i].name) = sheet.rows[loan[i]][m + 2]
           /\ Copied(Figures(row, blocks[i]), 3, sheet.rows[loan[i]], m + 2)
  BY <1>7, Zenon DEF LoanFolded
<1>9. DOMAIN blocks = 1..w
  BY <1>6, IsSeqOf, Zenon
<1>10. \A i \in 1..k :
         /\ Copied(LoanCells(gs, row, lead, i = 1), m, sheet.rows[loan[i]], 0)
         /\ Copied(LoanCells(gs, row, trail, i = 1), n, sheet.rows[loan[i]], m + 5)
  BY LoanCellsBack
<1>11. e = [i \in DOMAIN found |-> made(i)]
  BY <1>6, Zenon DEF Explode
<1>12. \A i \in 1..w : blocks[i] \in K <=> i <= k
  <2>1. \A i \in 1..w : blocks[i] \in Range(blocks)
    BY <1>9, Zenon DEF Range
  <2> HIDE DEF blocks, k
  <2>2. QED
    BY <1>8, <2>1, Zenon
<1> HIDE DEF gs, row, loan, k, m, n, blocks, K, e
<1>13. IsSequence(found) /\ Len(found) = k /\ \A i \in 1..k : found[i] = blocks[i]
  <2>1. k \in 0..Len(blocks)
    BY <1>1, <1>4, <1>6
  <2>2. \A i \in 1..Len(blocks) : blocks[i] \in K <=> i <= k
    BY <1>6, <1>12, Zenon
  <2>3. QED
    BY <1>6, <2>1, <2>2, KeptPrefix
<1> HIDE DEF found
<1>14. DOMAIN found = 1..k
  BY <1>13, IsSeqOf, Zenon
<1>15. ASSUME NEW i \in 1..k PROVE ExplodedRow(made(i), sheet, m, n, loan[i])
  <2> DEFINE r == loan[i]
             x == LoanCells(gs, row, lead, i = 1)
             y == LoanCells(gs, row, trail, i = 1)
             v == Value(<<Anchor(found[i].number)>>)
             u == CellAt(row, found[i].name)
             f == Figures(row, found[i])
  <2>1. /\ Copied(x, m, sheet.rows[r], 0) /\ Copied(y, n, sheet.rows[r], m + 5)
        /\ u = sheet.rows[r][m + 2] /\ Copied(f, 3, sheet.rows[r], m + 2)
    BY <1>8, <1>10, <1>13, Zenon
  <2> HIDE DEF r, x, y, v, u, f
  <2>2. ExplodedRow(x \o <<v, u>> \o f \o y, sheet, m, n, r)
    BY <1>2, <2>1, RowBack
  <2>3. QED
    BY <2>2, Zenon DEF r, x, y, v, u, f
<1> HIDE DEF made
<1>16. IsSequence(e) /\ Len(e) = k /\ \A i \in 1..k : e[i] = made(i)
  <2>1. e = [i \in 1..k |-> made(i)]
    BY <1>11, <1>14, Zenon
  <2>2. IsSequence(e) /\ Len(e) = k
    BY <1>4, <2>1 DEF IsSequence
  <2>3. QED
    BY <2>1, <2>2, Zenon
<1>17. \A i \in 1..k : ExplodedRow(e[i], sheet, m, n, loan[i])
  BY <1>15, <1>16, Zenon
<1>18. QED
  BY <1>16, <1>17, Zenon DEF e, gs, row, k, loan, m, n

(* The rows of the converted master.                                          *)
LEMMA RowsBack ==
  ASSUME NEW sheet, NEW folded, NEW lead, NEW trail, NEW loans, NEW at, NEW w,
         FoldedAs(sheet, folded, lead, trail, loans, at, w)
  PROVE  LET out == Convert(folded).rows IN
         /\ IsSequence(out) /\ Len(out) = Len(sheet.rows)
         /\ \A r \in 1..Len(sheet.rows) : ExplodedRow(out[r], sheet, Len(lead), Len(trail), r)
<1> DEFINE gs == folded.headers
           rows == folded.rows
           L == Len(loans)
           N == Len(sheet.rows)
           m == Len(lead)
           n == Len(trail)
           seqs == [r \in DOMAIN rows |-> IF IsLoan(gs, rows[r]) THEN Explode(gs, rows[r]) ELSE <<>>]
           out == FlattenSeq(seqs)
<1>1. /\ LoansAt(sheet, loans, at) /\ IsSequence(rows) /\ Len(rows) = L /\ AuditAt(sheet, lead, trail)
  BY Zenon DEF FoldedAs
<1>2. Convert(folded).rows = out
  <2>1. Convert(folded) = Sheet(TallHeaders(gs), out)
    BY Zenon DEF Convert
  <2>2. \A x, y : Sheet(x, y).rows = y
    BY DEF Sheet
  <2>3. QED
    BY <2>1, <2>2, Zenon
<1>3. /\ L \in Nat /\ at[1] = 1 /\ at[L + 1] = N + 1
      /\ \A l \in 1..L : LoanAt(sheet, loans[l], at[l], at[l + 1])
  BY <1>1, Zenon DEF LoansAt
<1>4. DOMAIN rows = 1..L
  BY <1>1, IsSeqOf, Zenon
<1>5. ASSUME NEW l \in 1..L
      PROVE  /\ IsLoan(gs, rows[l])
             /\ IsSequence(Explode(gs, rows[l])) /\ Len(Explode(gs, rows[l])) = Len(loans[l])
             /\ \A i \in 1..Len(loans[l]) : ExplodedRow(Explode(gs, rows[l])[i], sheet, m, n, loans[l][i])
  <2>1. LoanFolded(gs, rows[l], sheet, lead, trail, loans[l], w)
    BY LoanReads
  <2>2. IsLoan(gs, rows[l])
    BY <2>1, Zenon DEF LoanFolded
  <2>3. /\ IsSequence(Explode(gs, rows[l])) /\ Len(Explode(gs, rows[l])) = Len(loans[l])
        /\ \A i \in 1..Len(loans[l]) : ExplodedRow(Explode(gs, rows[l])[i], sheet, m, n, loans[l][i])
    BY LoanExplodes
  <2>4. QED
    BY <2>2, <2>3, Zenon
<1>6. \A l \in 1..L : seqs[l] = Explode(gs, rows[l])
  BY <1>4, <1>5, Zenon
<1>7. IsSequence(seqs) /\ Len(seqs) = L
  <2>1. DOMAIN seqs = 1..L /\ seqs = [l \in 1..L |-> seqs[l]]
    BY <1>4, Zenon
  <2> HIDE DEF seqs
  <2>2. QED
    BY <1>3, <2>1, AsSequence
<1>8. N \in Nat
  BY <1>1, Zenon DEF AuditAt, IsSequence
<1> HIDE DEF gs, rows, L, N, m, n, seqs, out
<1>9. /\ \A l \in 1..L : IsSequence(seqs[l]) /\ Len(seqs[l]) = Len(loans[l])
      /\ \A l \in 1..L : \A i \in 1..Len(loans[l]) : ExplodedRow(seqs[l][i], sheet, m, n, loans[l][i])
  BY <1>5, <1>6, Zenon
<1>10. \A l \in 1..L : at[l + 1] = at[l] + Len(loans[l])
  BY <1>3, Zenon DEF LoanAt
<1>11. InRuns(seqs, Len(seqs), out, at)
  <2>1. \A l \in 1..Len(seqs) : IsSequence(seqs[l]) /\ at[l + 1] = at[l] + Len(seqs[l])
    BY <1>7, <1>9, <1>10, Zenon
  <2>2. QED
    BY <1>3, <1>7, <2>1, JoinedRuns DEF out
<1>12. /\ IsSequence(out) /\ at[L + 1] = Len(out) + 1
       /\ \A l \in 1..L : \A i \in 1..Len(loans[l]) : out[at[l] + i - 1] = seqs[l][i]
       /\ \A p \in 1..Len(out) : \E l \in 1..L : \E i \in 1..Len(loans[l]) : p = at[l] + i - 1
  BY <1>7, <1>9, <1>11, Zenon DEF InRuns
<1>13. Len(out) = N
  <2>1. Len(out) \in Nat
    BY <1>12, Zenon DEF IsSequence
  <2>2. Len(out) + 1 = N + 1
    BY <1>3, <1>12, Zenon
  <2>3. QED
    BY <1>8, <2>1, <2>2
<1>14. ASSUME NEW r \in 1..N PROVE ExplodedRow(out[r], sheet, m, n, r)
  <2>0. PICK l \in 1..L : \E i \in 1..Len(loans[l]) : r = at[l] + i - 1
    BY <1>12, <1>13, Zenon
  <2>1. PICK i \in 1..Len(loans[l]) : r = at[l] + i - 1
    BY <2>0
  <2>2. out[r] = seqs[l][i]
    BY <1>12, <2>1, Zenon
  <2>3. /\ loans[l][i] = at[l] + (i - 1) /\ at[l] \in 1..Len(sheet.rows) /\ Len(loans[l]) \in 1..3
    BY <1>3, Zenon DEF LoanAt
  <2> DEFINE a == at[l]
             k == Len(loans[l])
  <2>4. a \in 1..N /\ i \in 1..k /\ k \in 1..3
    BY <2>3, Zenon DEF N
  <2> HIDE DEF a, k
  <2>5. a + i - 1 = a + (i - 1)
    BY <1>8, <2>4
  <2>6. loans[l][i] = r
    BY <2>1, <2>3, <2>5, Zenon DEF a
  <2>7. QED
    BY <1>9, <2>1, <2>2, <2>6, Zenon
<1>15. QED
  BY <1>2, <1>12, <1>13, <1>14, Zenon DEF out, N, m, n

SheetBack(folded, sheet, lead, trail) ==
  /\ \A c \in 1..(Len(lead) + Len(trail) + 5) : Convert(folded).headers[c] = sheet.headers[c]
  /\ sheet.headers[Len(lead) + 1] = "Jewellery No."
  /\ Len(sheet.headers) - Len(AUDIT_BLOCK_COLUMNS) = Len(lead) + Len(trail) + 5
  /\ IsSequence(sheet.headers) /\ Len(sheet.headers) = Len(lead) + Len(trail) + 8
  /\ Len(lead) \in Nat /\ Len(trail) \in Nat

(* Converting the folded sheet gives the branch's headings back. *)
LEMMA HeadingsBack ==
  ASSUME NEW sheet, IsAuditSheet(sheet), NEW folded, NEW lead, NEW trail, NEW loans, NEW at, NEW w,
         FoldedAs(sheet, folded, lead, trail, loans, at, w)
  PROVE  SheetBack(folded, sheet, lead, trail)
<1> DEFINE hs == sheet.headers
           gs == folded.headers
           m == Len(lead)
           n == Len(trail)
           tall == TallHeaders(hs)
           audit == AUDIT_BLOCK_COLUMNS
           J == "Jewellery No."
<1>1. FoldedHeadings(gs, lead, trail, w)
  BY HeadingsFolded
<1>2. /\ Present(LEADING_COLUMNS, gs) = lead /\ Present(TRAILING_COLUMNS, gs) = trail
      /\ Present(LEADING_COLUMNS, hs) = lead /\ Present(TRAILING_COLUMNS, hs) = trail
  BY <1>1, Zenon DEF FoldedHeadings, FoldedAs
<1>3. TallHeaders(gs) = tall
  BY <1>2, Zenon DEF TallHeaders
<1>4. Convert(folded).headers = tall
  <2>1. \E rows : Convert(folded) = Sheet(TallHeaders(gs), rows)
    BY Zenon DEF Convert
  <2>2. \A x, y : Sheet(x, y).headers = x
    BY DEF Sheet
  <2>3. QED
    BY <1>3, <2>1, <2>2, Zenon
<1>5. /\ TallAt(hs, lead, trail)
  BY Zenon DEF FoldedAs, AuditAt
<1>6. IsSequence(hs) /\ Len(hs) = m + n + 8 /\ m \in Nat /\ n \in Nat /\ hs[m + 1] = J
  BY <1>5, Zenon DEF TallAt
<1>7. hs = tall \o audit
  BY Zenon DEF IsAuditSheet
<1>8. IsSequence(tall)
  <2>1. \E x : FourIn(tall, lead, x, DATA_ATTR_ORDER, trail)
    BY <1>2, TallAreThese, Zenon
  <2>2. QED
    BY <2>1, Zenon DEF FourIn
<1>9. IsSequence(audit) /\ Len(audit) = 3
  BY BlockSizes, Zenon
<1> HIDE DEF hs, gs, m, n, tall, audit, J
<1>10. Len(hs) = Len(tall) + Len(audit) /\ \A c \in 1..Len(tall) : hs[c] = tall[c]
  BY <1>7, <1>8, <1>9, Joining
<1>11. Len(tall) \in Nat
  BY <1>8, Zenon DEF IsSequence
<1>12. Len(tall) = m + n + 5 /\ Len(hs) - Len(audit) = m + n + 5
  <2> DEFINE a == Len(tall)
             b == Len(audit)
             z == Len(hs)
  <2>1. a \in Nat /\ b = 3 /\ z = m + n + 8 /\ z = a + b
    BY <1>6, <1>9, <1>10, <1>11, Zenon
  <2> HIDE DEF a, b, z
  <2>2. a = m + n + 5 /\ z - b = m + n + 5
    BY <1>6, <2>1
  <2>3. QED
    BY <2>2, Zenon DEF a, b, z
<1>13. \A c \in 1..(m + n + 5) : Convert(folded).headers[c] = hs[c]
  BY <1>4, <1>10, <1>12, Zenon
<1>14. QED
  BY <1>6, <1>12, <1>13, Zenon DEF SheetBack, m, n, hs, audit, J

(* The content of the rows comes back. *)
LEMMA ContentBack ==
  ASSUME NEW sheet, IsAuditSheet(sheet), NEW folded, NEW lead, NEW trail, NEW loans, NEW at, NEW w,
         FoldedAs(sheet, folded, lead, trail, loans, at, w)
  PROVE  Content(Convert(folded))
           = [r \in DOMAIN sheet.rows |->
                SubSeq(Content(sheet)[r], 1, Len(sheet.headers) - Len(AUDIT_BLOCK_COLUMNS))]
<1> DEFINE hs == sheet.headers
           rows == sheet.rows
           back == Convert(folded)
           out == back.rows
           m == Len(lead)
           n == Len(trail)
           N == Len(rows)
           width == m + n + 5
           J == "Jewellery No."
           cellB(r, c) == IF back.headers[c] = J THEN Nothing ELSE out[r][c]
           cellF(r, c) == IF hs[c] = J THEN Nothing ELSE rows[r][c]
           given == Len(hs) - Len(AUDIT_BLOCK_COLUMNS)
<1>1. /\ IsSequence(out) /\ Len(out) = N
      /\ \A r \in 1..N : ExplodedRow(out[r], sheet, m, n, r)
  BY RowsBack
<1>2. /\ \A c \in 1..width : back.headers[c] = hs[c]
      /\ hs[m + 1] = J /\ given = width /\ m \in Nat /\ n \in Nat
  <2>1. SheetBack(folded, sheet, lead, trail)
    BY HeadingsBack
  <2>2. QED
    BY <2>1, Zenon DEF SheetBack
<1>3. AuditAt(sheet, lead, trail)
  BY Zenon DEF FoldedAs
<1>4. /\ IsSequence(rows) /\ \A r \in 1..N : IsSequence(rows[r]) /\ Len(rows[r]) = m + n + 8
  <2>1. IsSequence(rows) /\ \A r \in 1..N : AuditRow(sheet, m, n, r)
    BY <1>3, Zenon DEF AuditAt
  <2>2. QED
    BY <2>1, Zenon DEF AuditRow
<1>5. /\ DOMAIN out = 1..N /\ DOMAIN rows = 1..N
      /\ \A r \in 1..N : DOMAIN rows[r] = 1..(m + n + 8)
  BY <1>1, <1>4, IsSeqOf, Zenon
<1>6. Content(back) = [r \in DOMAIN out |-> [c \in DOMAIN out[r] |-> cellB(r, c)]]
  BY Zenon DEF Content
<1>7. Content(sheet) = [r \in DOMAIN rows |-> [c \in DOMAIN rows[r] |-> cellF(r, c)]]
  BY Zenon DEF Content
<1>8. \A r \in 1..N : \A c \in 1..width : c # m + 1 => out[r][c] = rows[r][c]
  BY <1>1, Zenon DEF ExplodedRow
<1>9. \A r \in 1..N : IsSequence(out[r]) /\ Len(out[r]) = width
  BY <1>1, Zenon DEF ExplodedRow
<1>10. \A r \in 1..N : DOMAIN out[r] = 1..width
  BY <1>9, IsSeqOf, Zenon
<1> HIDE DEF hs, rows, back, out, m, n, N, width, J, given
<1>11. \A r \in 1..N : \A c \in 1..width : cellB(r, c) = cellF(r, c)
  <2>1. ASSUME NEW r \in 1..N, NEW c \in 1..width PROVE cellB(r, c) = cellF(r, c)
    <3>1. CASE c = m + 1
      BY <1>2, <3>1, Zenon
    <3>2. CASE c # m + 1
      BY <1>2, <1>8, <3>2, Zenon
    <3>3. QED
      BY <3>1, <3>2, Zenon
  <2>2. QED
    BY <2>1, Zenon
<1>12. width \in Nat /\ \A c \in 1..width : c \in 1..(m + n + 8) /\ (c + 1) - 1 = c
  BY <1>2 DEF width
<1> DEFINE left == [r \in 1..N |-> [c \in 1..width |-> cellB(r, c)]]
           right == [r \in 1..N |-> [c \in 1..width |-> cellF(r, c)]]
<1>13. Content(back) = left
  <2>1. Content(back) = [r \in 1..N |-> [c \in DOMAIN out[r] |-> cellB(r, c)]]
    BY <1>5, <1>6, Zenon
  <2>2. [r \in 1..N |-> [c \in DOMAIN out[r] |-> cellB(r, c)]] = left
    <3> HIDE DEF cellB
    <3>1. QED
      BY <1>10
  <2>3. QED
    BY <2>1, <2>2, Zenon
<1>14. left = right
  <2> HIDE DEF cellB, cellF
  <2>1. QED
    BY <1>11
<1>15. ASSUME NEW r \in 1..N PROVE SubSeq(Content(sheet)[r], 1, width) = [c \in 1..width |-> cellF(r, c)]
  <2> DEFINE s == Content(sheet)[r]
  <2>1. s = [c \in 1..(m + n + 8) |-> cellF(r, c)]
    BY <1>5, <1>7, Zenon
  <2>2. \A c \in 1..width : s[c] = cellF(r, c)
    BY <1>12, <2>1, Zenon
  <2> HIDE DEF s, cellF
  <2>3. width \in Nat
    BY <1>12
  <2>4. SubSeq(s, 1, width) = [c \in 1..width |-> s[c]]
    BY <2>3
  <2>5. [c \in 1..width |-> s[c]] = [c \in 1..width |-> cellF(r, c)]
    BY <2>2
  <2>6. QED
    BY <2>4, <2>5, Zenon DEF s
<1>16. [r \in DOMAIN rows |-> SubSeq(Content(sheet)[r], 1, given)] = right
  <2> DEFINE cut(r) == SubSeq(Content(sheet)[r], 1, width)
             line(r) == [c \in 1..width |-> cellF(r, c)]
  <2>1. \A r \in 1..N : cut(r) = line(r)
    BY <1>15, Zenon
  <2> HIDE DEF cut, line
  <2>2. [r \in 1..N |-> cut(r)] = [r \in 1..N |-> line(r)]
    BY <2>1
  <2>3. QED
    BY <1>2, <1>5, <2>2, Zenon DEF cut, line
<1>17. QED
  BY <1>13, <1>14, <1>16, Zenon DEF back, rows, hs, given

(* The names of the ornaments of the folded master are those of its groups.   *)
LEMMA NamesFolded ==
  ASSUME NEW gs, NEW lead, NEW trail, NEW w, WideAt(gs, lead, trail, w), NEW i \in Numbers
  PROVE  Anchor(i) \in Range(gs) <=> i <= w
<1> DEFINE m == Len(lead)
           names == [j \in 1..w |-> Start(m, j) + 2]
           splits == [j \in 1..w |-> Start(m, j) + 6]
<1>1. BlocksLaid(gs, w, names, splits)
  BY WideBlocks
<1> HIDE DEF names, splits
<1>2. /\ IsSequence(gs) /\ w \in 1..3
      /\ \A j \in 1..w : names[j] \in 1..Len(gs) /\ gs[names[j]] = Anchor(j)
      /\ \A a \in 1..Len(gs), n \in Numbers : gs[a] = Anchor(n) => \E j \in 1..w : names[j] = a
  BY <1>1, Zenon DEF BlocksLaid
<1>3. DOMAIN gs = 1..Len(gs)
  BY <1>2, IsSeqOf, Zenon
<1>4. ASSUME i <= w PROVE Anchor(i) \in Range(gs)
  <2>1. i \in 1..w
    BY <1>2, <1>4 DEF Numbers
  <2>2. QED
    BY <1>2, <1>3, <2>1, Zenon DEF Range
<1>5. ASSUME Anchor(i) \in Range(gs) PROVE i <= w
  <2>1. PICK a \in 1..Len(gs) : gs[a] = Anchor(i)
    BY <1>3, <1>5, Zenon DEF Range
  <2>2. PICK j \in 1..w : names[j] = a
    BY <1>2, <2>1, Zenon
  <2>3. Anchor(j) = Anchor(i)
    BY <1>2, <2>1, <2>2, Zenon
  <2>4. j \in Numbers
    BY <1>2 DEF Numbers
  <2>5. j = i
    BY <2>3, <2>4, AnchorsDiffer, Zenon
  <2>6. QED
    BY <1>2, <2>5
<1>6. QED
  BY <1>4, <1>5, Zenon

(* An audit sheet is detected as one. *)
LEMMA DetectedOne ==
  ASSUME NEW sheet, IsTall(sheet, 1)
  PROVE  Detected(<<[sheet |-> sheet, above |-> 1]>>).kind = IF IsRaw(sheet, 1) THEN "raw" ELSE "tall"
<1> DEFINE one == [sheet |-> sheet, above |-> 1]
           book == <<one>>
           raw == {i \in DOMAIN book : IsRaw(book[i].sheet, book[i].above)}
           tall == {i \in DOMAIN book : IsTall(book[i].sheet, book[i].above)}
<1>1. one.sheet = sheet /\ one.above = 1
  OBVIOUS
<1>2. DOMAIN book = {1} /\ book[1] = one
  OBVIOUS
<1> HIDE DEF one, book
<1>3. raw = IF IsRaw(sheet, 1) THEN {1} ELSE {}
  BY <1>1, <1>2, Zenon
<1>4. tall = {1}
  BY <1>1, <1>2, Zenon
<1>5. Detected(book) = IF raw # {} THEN [kind |-> "raw", at |-> Min(raw)]
                       ELSE IF tall # {} THEN [kind |-> "tall", at |-> Min(tall)]
                       ELSE [kind |-> "none", at |-> 0]
  BY Zenon DEF Detected
<1> HIDE DEF raw, tall
<1>6. (raw # {} <=> IsRaw(sheet, 1)) /\ tall # {}
  BY <1>3, <1>4
<1>7. \A x, y : [kind |-> x, at |-> y].kind = x
  OBVIOUS
<1>8. QED
  BY <1>5, <1>6, <1>7, Zenon DEF book, one

(* A folded sheet is not detected as an audit sheet. *)
LEMMA KindFolded ==
  ASSUME NEW sheet, IsAuditSheet(sheet), NEW folded, NEW lead, NEW trail, NEW loans, NEW at, NEW w,
         FoldedAs(sheet, folded, lead, trail, loans, at, w)
  PROVE  Detected(<<[sheet |-> folded, above |-> 1]>>).kind
           = IF Len(MapOrnaments(folded.headers)) >= 2 THEN "raw" ELSE "tall"
<1> DEFINE hs == sheet.headers
           gs == folded.headers
           m == Len(lead)
           n == Len(trail)
           e == m + 5
           f == m + w * 8
           Leads == LEADING_COLUMNS
           Trails == TRAILING_COLUMNS
           Data == DATA_ATTR_ORDER
           J == "Jewellery No."
           J1 == "Jewellery1"
           J2 == "Jewellery2"
           P == "Packets Number"
<1>1. /\ AuditAt(sheet, lead, trail) /\ WideAt(gs, lead, trail, w)
  BY Zenon DEF FoldedAs
<1>2. /\ TallAt(hs, lead, trail) /\ IsSequence(lead) /\ IsSequence(trail)
  BY <1>1, Zenon DEF AuditAt
<1>3. Len(MapOrnaments(gs)) = w
  <2>1. FoldedHeadings(gs, lead, trail, w)
    BY HeadingsFolded
  <2>2. QED
    BY <2>1, Zenon DEF FoldedHeadings
<1>4. J1 = Anchor(1) /\ J2 = Anchor(2)
  BY AnchorsAre, Zenon
<1>5. w \in 1..3 /\ 1 \in Numbers /\ 2 \in Numbers
  <2>1. w \in 1..3
    BY Zenon DEF FoldedAs
  <2>2. QED
    BY <2>1 DEF Numbers
<1>6. Anchor(1) \in Range(gs) /\ (Anchor(2) \in Range(gs) <=> w >= 2)
  <2>1. (Anchor(1) \in Range(gs) <=> 1 <= w) /\ (Anchor(2) \in Range(gs) <=> 2 <= w)
    <3> HIDE DEF gs
    <3>1. QED
      BY <1>1, <1>5, NamesFolded
  <2>2. QED
    BY <1>5, <2>1
<1>7. IsRaw(folded, 1) <=> w >= 2
  <2>1. 1 < 3
    OBVIOUS
  <2>2. IsRaw(folded, 1) <=> 1 < 3 /\ {J1, J2} \subseteq Range(gs)
    BY Zenon DEF IsRaw
  <2> HIDE DEF J1, J2, gs
  <2>3. QED
    BY <1>4, <1>6, <2>1, <2>2, Zenon
<1>8. LoanColumns(hs, lead, trail, e)
  BY <1>2, TallLoanColumns
<1>9. LoanColumns(gs, lead, trail, f)
  BY <1>1, WideLoanColumns
<1>10. /\ \A h \in Range(Leads) : h \in Range(hs) <=> h \in Range(gs)
       /\ \A h \in Range(Trails) : h \in Range(hs) <=> h \in Range(gs)
  <2> HIDE DEF hs, gs, e, f, Leads, Trails
  <2>1. /\ \A h \in Range(Leads) : h \in Range(hs) <=> h \in Range(lead)
        /\ \A h \in Range(Trails) : h \in Range(hs) <=> h \in Range(trail)
    BY <1>2, <1>8, LoanColumnsThere DEF Leads, Trails
  <2>2. /\ \A h \in Range(Leads) : h \in Range(gs) <=> h \in Range(lead)
        /\ \A h \in Range(Trails) : h \in Range(gs) <=> h \in Range(trail)
    BY <1>2, <1>9, LoanColumnsThere DEF Leads, Trails
  <2>3. QED
    BY <2>1, <2>2, Zenon
<1>11. REQUIRED_COLUMNS \subseteq Range(hs)
  BY Zenon DEF IsAuditSheet
<1>12. REQUIRED_COLUMNS = Range(Leads) \cup Range(Data) \cup {J, J1, P}
  BY Zenon DEF REQUIRED_COLUMNS
<1>13. P \in Range(Trails)
  <2>1. DOMAIN Trails = {1, 2} /\ Trails[2] = P
    <3>1. \A x, y : DOMAIN <<x, y>> = {1, 2} /\ <<x, y>>[2] = y
      OBVIOUS
    <3>2. QED
      BY <3>1, Zenon DEF TRAILING_COLUMNS
  <2>2. QED
    BY <2>1, Zenon DEF Range
<1>14. IsSequence(gs) /\ GroupAt(gs, Start(m, 1), 1) /\ m \in Nat /\ Len(gs) = m + w * 8 + n /\ n \in Nat
  <2>1. 1 \in 1..w
    BY <1>5
  <2>2. QED
    BY <1>1, <2>1, Zenon DEF WideAt
<1>15. J \in Range(gs) /\ \A j \in 1..3 : Data[j] \in Range(gs)
  <2> DEFINE s == Start(m, 1)
  <2>1. DOMAIN gs = 1..Len(gs)
    BY <1>14, IsSeqOf, Zenon
  <2>2. gs[s + 1] = J /\ \A j \in 1..3 : gs[s + 2 + j] = Data[j]
    BY <1>14, Zenon DEF GroupAt
  <2>a. m \in Nat /\ Len(gs) = m + w * 8 + n /\ n \in Nat
    BY <1>14, Zenon
  <2> HIDE DEF m, n, gs
  <2>3. s + 1 \in 1..Len(gs) /\ \A j \in 1..3 : s + 2 + j \in 1..Len(gs)
    BY <1>5, <2>a DEF Start
  <2> HIDE DEF s, J, Data
  <2>4. QED
    BY <2>1, <2>2, <2>3, Zenon DEF Range
<1>16. \A h \in Range(Data) : h \in Range(gs)
  <2>1. DOMAIN Data = 1..3
    BY BlockSizes, Zenon
  <2> HIDE DEF Data
  <2>2. \A h \in Range(Data) : \E j \in 1..3 : h = Data[j]
    BY <2>1, Zenon DEF Range
  <2>3. QED
    BY <1>15, <2>2, Zenon
<1> HIDE DEF hs, gs, Leads, Trails, Data, J, J1, J2, P
<1>17. REQUIRED_COLUMNS \subseteq Range(gs)
  <2>1. ASSUME NEW h \in REQUIRED_COLUMNS PROVE h \in Range(gs)
    <3>1. h \in Range(hs)
      BY <1>11, Zenon
    <3>2. h \in Range(Leads) \/ h \in Range(Data) \/ h = J \/ h = J1 \/ h = P
      BY <1>12, Zenon
    <3>3. QED
      BY <1>4, <1>6, <1>10, <1>13, <1>15, <1>16, <3>1, <3>2, Zenon
  <2>2. QED
    BY <2>1, Zenon
<1>18. IsTall(folded, 1)
  <2>1. 1 < 10
    OBVIOUS
  <2>2. QED
    BY <1>17, <2>1, Zenon DEF IsTall, gs
<1>19. QED
  BY <1>3, <1>7, <1>18, DetectedOne, Zenon DEF gs

(* A cell of the folded master beside an ornament's name.                     *)
LEMMA CellsOfOrnament ==
  ASSUME NEW sheet, NEW folded, NEW lead, NEW trail, NEW loans, NEW at, NEW w,
         FoldedAs(sheet, folded, lead, trail, loans, at, w), NEW l \in 1..Len(loans), NEW i \in 1..w
  PROVE  /\ i > Len(loans[l]) => \A y \in 1..8 : folded.rows[l][Start(Len(lead), i) + y] = Nothing
         /\ i <= Len(loans[l]) =>
              /\ i \in 1..Len(loans[l]) /\ loans[l][i] \in 1..Len(sheet.rows)
              /\ GroupCells(folded.rows[l], Start(Len(lead), i), sheet, Len(lead), Len(trail), loans[l][i], l,
                            Start(Len(lead), i))
<1> DEFINE row == folded.rows[l]
           loan == loans[l]
           k == Len(loan)
           m == Len(lead)
           n == Len(trail)
<1>1. LoansAt(sheet, loans, at) /\ WideRow(row, sheet, m, n, loan, l, w) /\ w \in 1..3
  BY Zenon DEF FoldedAs
<1>2. GroupsIn(row, m, sheet, m, n, loan, l)
      /\ \A j \in 1..w : j > k => \A y \in 1..8 : row[Start(m, j) + y] = Nothing
  BY <1>1, Zenon DEF WideRow
<1>3. LoanIn(sheet, loan)
  BY <1>1, LoanInIs
<1>4. k \in 1..3 /\ \A j \in 1..k : loan[j] \in 1..Len(sheet.rows)
  BY <1>3, Zenon DEF LoanIn
<1> HIDE DEF k
<1>5. i <= k => i \in 1..k
  BY <1>1, <1>4
<1>6. \A j \in 1..k : GroupCells(row, Start(m, j), sheet, m, n, loan[j], l, Start(m, j))
  BY <1>2, Zenon DEF GroupsIn, k
<1>7. QED
  BY <1>2, <1>4, <1>5, <1>6, Zenon DEF k

CountIs(name, count) ==
  name # Nothing => count = Value(<<"Count of Ornament", name.of[2], name.of[3]>>)

(* The auditor's count stands beside each ornament. *)
LEMMA CountBeside ==
  ASSUME NEW sheet, NEW folded, NEW lead, NEW trail, NEW loans, NEW at, NEW w,
         FoldedAs(sheet, folded, lead, trail, loans, at, w), NEW l \in 1..Len(loans), NEW i \in 1..w
  PROVE  CountIs(folded.rows[l][Start(Len(lead), i) + 2], folded.rows[l][Start(Len(lead), i) + 6])
<1> SUFFICES ASSUME folded.rows[l][Start(Len(lead), i) + 2] # Nothing
             PROVE  folded.rows[l][Start(Len(lead), i) + 6]
                      = Value(<<"Count of Ornament", folded.rows[l][Start(Len(lead), i) + 2].of[2],
                                folded.rows[l][Start(Len(lead), i) + 2].of[3]>>)
  BY Zenon DEF CountIs
<1> DEFINE row == folded.rows[l]
           m == Len(lead)
           n == Len(trail)
           s == Start(m, i)
           r == loans[l][i]
           old == sheet.rows[r]
           map == ColumnMap(MapOrnaments(sheet.headers)[1], s)
           Count == "Count of Ornament"
           Ring == "ring"
           moved == Moved(sheet, r, l, map, m + n + 5 + 1)
<1>1. LoansAt(sheet, loans, at) /\ AuditAt(sheet, lead, trail) /\ w \in 1..3
  BY Zenon DEF FoldedAs
<1>2. Len(loans[l]) \in Nat
  <2>1. LoanIn(sheet, loans[l])
    BY <1>1, LoanInIs
  <2>2. QED
    BY <2>1 DEF LoanIn
<1>3. i <= Len(loans[l])
  <2>1. 2 \in 1..8
    OBVIOUS
  <2>2. i > Len(loans[l]) => \A y \in 1..8 : row[s + y] = Nothing
    BY CellsOfOrnament
  <2>3. ~(i > Len(loans[l]))
    BY <2>1, <2>2, Zenon
  <2>4. QED
    BY <1>1, <1>2, <2>3
<1>4. r \in 1..Len(sheet.rows) /\ GroupCells(row, s, sheet, m, n, r, l, s)
  BY <1>3, CellsOfOrnament
<1>5. 1 \in 1..3
  OBVIOUS
<1>6. row[s + 2] = old[m + 2] /\ row[s + 5 + 1] = moved
  BY <1>4, <1>5, Zenon DEF GroupCells
<1>7. AuditRow(sheet, m, n, r) /\ m \in Nat /\ n \in Nat
  BY <1>1, <1>4, Zenon DEF AuditAt, TallAt
<1>8. /\ IsSequence(old) /\ Len(old) = m + n + 8
      /\ old[m + n + 6] = Value(<<Count, old[m + 2].of[2], old[m + 2].of[3]>>)
  BY <1>7, Zenon DEF AuditRow
<1>9. m + n + 5 + 1 = m + n + 6 /\ m + n + 6 \in 1..(m + n + 8) /\ s + 5 + 1 = s + 6
  BY <1>1, <1>7 DEF Start
<1>10. DOMAIN old = 1..(m + n + 8)
  BY <1>8, IsSeqOf, Zenon
<1>11. moved = old[m + n + 6]
  <2> DEFINE c == m + n + 6
  <2>1. CellAt(sheet.rows[r], c) = old[c]
    BY <1>9, <1>10, Zenon DEF CellAt
  <2>2. old[c].k # "formula"
    BY <1>8, CellKinds, Zenon
  <2> HIDE DEF c
  <2>3. Moved(sheet, r, l, map, c) = old[c]
    BY <2>1, <2>2, Zenon DEF Moved
  <2>4. QED
    BY <1>9, <2>3, Zenon DEF c
<1>12. row[s + 6] = old[m + n + 6]
  BY <1>6, <1>9, <1>11, Zenon
<1> HIDE DEF row, s, old, m, n, Count, moved
<1>13. row[s + 6] = Value(<<Count, row[s + 2].of[2], row[s + 2].of[3]>>)
  BY <1>6, <1>8, <1>12, Zenon
<1>14. QED
  BY <1>13, Zenon DEF row, s, m, Count

(* A folded sheet reads back as the audit sheet it came from. *)
LEMMA RoundTrips ==
  ASSUME NEW sheet, IsAuditSheet(sheet), NEW folded, NEW lead, NEW trail, NEW loans, NEW at, NEW w,
         FoldedAs(sheet, folded, lead, trail, loans, at, w)
  PROVE  RoundTrip(sheet, folded)
<1> DEFINE gs == folded.headers
           m == Len(lead)
           blocks == MapOrnaments(gs)
           width == Len(sheet.headers) - Len(AUDIT_BLOCK_COLUMNS)
           Count == "Count of Ornament"
           A == AUDIT_BLOCK_COLUMNS
           kind == Detected(<<[sheet |-> folded, above |-> 1]>>).kind
           audit(l, i) == [j \in DOMAIN A |-> IF A[j] \in DOMAIN blocks[i].audit
                                              THEN folded.rows[l][blocks[i].audit[A[j]]] ELSE Nothing]
<1>1. kind = IF Len(blocks) >= 2 THEN "raw" ELSE "tall"
  BY KindFolded
<1>2. Content(Convert(folded)) = [r \in DOMAIN sheet.rows |-> SubSeq(Content(sheet)[r], 1, width)]
  BY ContentBack
<1>3. DOMAIN folded.rows = 1..Len(loans)
  <2>1. IsSequence(folded.rows) /\ Len(folded.rows) = Len(loans)
    BY Zenon DEF FoldedAs
  <2>2. QED
    BY <2>1, IsSeqOf, Zenon
<1>4. FoldedHeadings(gs, lead, trail, w)
  BY HeadingsFolded
<1>5. /\ IsSequence(blocks) /\ Len(blocks) = w
      /\ \A i \in 1..w : BlockFinds(blocks[i], Start(m, i) + 2, Start(m, i) + 6)
  BY <1>4, Zenon DEF FoldedHeadings
<1>6. DOMAIN blocks = 1..w
  BY <1>5, IsSeqOf, Zenon
<1>7. 1 \in DOMAIN A /\ 1 \in 1..3
  BY BlockSizes
<1>8. ASSUME NEW l \in 1..Len(loans), NEW i \in 1..w
      PROVE  LET name == folded.rows[l][blocks[i].name] IN
             name # Nothing => audit(l, i)[1] = Value(<<Count, name.of[2], name.of[3]>>)
  <2> DEFINE s == Start(m, i)
             name == folded.rows[l][blocks[i].name]
  <2>1. blocks[i].name = s + 2 /\ A[1] \in DOMAIN blocks[i].audit /\ blocks[i].audit[A[1]] = s + 6 + (1 - 1)
    BY <1>5, <1>7, Zenon DEF BlockFinds
  <2>2. s + 6 + (1 - 1) = s + 6
    <3>1. m \in Nat /\ w \in 1..3
      <4>1. WideAt(gs, lead, trail, w)
        BY Zenon DEF FoldedAs
      <4>2. QED
        BY <4>1, Zenon DEF WideAt
    <3>2. s \in Nat
      BY <3>1 DEF Start
    <3> HIDE DEF s
    <3>3. QED
      BY <3>2
  <2>3. audit(l, i)[1] = folded.rows[l][s + 6]
    BY <1>7, <2>1, <2>2, Zenon
  <2> DEFINE x == folded.rows[l][s + 2]
             y == folded.rows[l][s + 6]
  <2>4. x # Nothing => y = Value(<<Count, x.of[2], x.of[3]>>)
    <3>1. CountIs(x, y)
      BY CountBeside
    <3>2. QED
      BY <3>1, Zenon DEF CountIs
  <2>5. name = x
    BY <2>1, Zenon
  <2> HIDE DEF x, y, audit, name, Count
  <2>6. name # Nothing => audit(l, i)[1] = Value(<<Count, name.of[2], name.of[3]>>)
    BY <2>3, <2>4, <2>5, Zenon DEF y
  <2>7. QED
    BY <2>6, Zenon DEF name
<1>9. QED
  BY <1>1, <1>2, <1>3, <1>6, <1>8, Zenon DEF RoundTrip

(* A formula that was moved as a formula.                                     *)
Repointed(refs, map, row) == [i \in DOMAIN refs |-> <<map[refs[i][1]], row>>]
LEMMA MovedFormula ==
  ASSUME NEW sheet, NEW r, NEW l, NEW map, NEW c, IsSheetCell(CellAt(sheet.rows[r], c)),
         Moved(sheet, r, l, map, c).k = "formula"
  PROVE  LET cell == CellAt(sheet.rows[r], c) IN
         /\ cell.k = "formula"
         /\ Moved(sheet, r, l, map, c).refs = Repointed(cell.refs, map, FIRST_DATA_ROW + l - 1)
         /\ \A i \in DOMAIN cell.refs :
              cell.refs[i][2] = FIRST_DATA_ROW + r - 1 /\ cell.refs[i][1] \in DOMAIN map
<1> DEFINE cell == CellAt(sheet.rows[r], c)
           src == FIRST_DATA_ROW + r - 1
           dst == FIRST_DATA_ROW + l - 1
           old == cell.refs
           refs == RemapFormula(old, src, dst, map)
           moved == Moved(sheet, r, l, map, c)
           F == "formula"
<1>1. moved = IF cell.k # F THEN cell ELSE IF refs # <<>> THEN Formula(refs) ELSE Computed(cell)
  BY Zenon DEF Moved
<1>2. moved.k = F
  BY Zenon
<1>3. cell \in {Nothing, Value(cell.of), Formula(cell.refs)}
  BY Zenon DEF IsSheetCell
<1>4. refs = IF \A i \in DOMAIN old : old[i][2] = src /\ old[i][1] \in DOMAIN map
             THEN Repointed(old, map, dst) ELSE <<>>
  BY Zenon DEF RemapFormula, Repointed
<1>5. \A x : Computed(Formula(x)).k # F
  BY DEF Computed, Formula
<1> HIDE DEF cell, src, dst, old, refs, moved, F
<1>6. cell.k = F
  BY <1>1, <1>2, Zenon
<1>7. cell = Formula(cell.refs)
  BY <1>3, <1>6, CellKinds, Zenon DEF F
<1>8. Computed(cell).k # F
  BY <1>5, <1>7, Zenon
<1>9. refs # <<>>
  BY <1>1, <1>2, <1>6, <1>8, Zenon
<1>10. moved = Formula(refs)
  BY <1>1, <1>6, <1>9, Zenon
<1>11. moved.refs = refs
  BY <1>10, CellKinds, Zenon
<1>12. /\ \A i \in DOMAIN old : old[i][2] = src /\ old[i][1] \in DOMAIN map
       /\ refs = Repointed(old, map, dst)
  BY <1>4, <1>9, Zenon
<1>13. QED
  BY <1>6, <1>11, <1>12, Zenon DEF cell, src, dst, old, moved, F

(* What a column that moves with the ornament holds is found where it went.   *)
MovesTo(row, old, map, c, width) ==
  /\ c \in 1..width
  /\ old[c].k # "formula" => CellAt(row, map[c]) = CellAt(old, c)

(* A figure is found again through the column map. *)
LEMMA SourceMoves ==
  ASSUME NEW sheet, NEW folded, NEW lead, NEW trail, NEW loans, NEW at, NEW w,
         FoldedAs(sheet, folded, lead, trail, loans, at, w), NEW l \in 1..Len(loans), NEW i \in 1..w,
         i <= Len(loans[l]),
         NEW c \in DOMAIN ColumnMap(MapOrnaments(sheet.headers)[1], Start(Len(lead), i))
  PROVE  MovesTo(folded.rows[l], sheet.rows[loans[l][i]],
                 ColumnMap(MapOrnaments(sheet.headers)[1], Start(Len(lead), i)), c, Len(lead) + Len(trail) + 8)
<1> DEFINE row == folded.rows[l]
           m == Len(lead)
           n == Len(trail)
           s == Start(m, i)
           r == loans[l][i]
           old == sheet.rows[r]
           b == MapOrnaments(sheet.headers)[1]
           from == Sources(b)
           map == ColumnMap(b, s)
           F == "formula"
<1>1. AuditAt(sheet, lead, trail) /\ w \in 1..3 /\ WideRow(row, sheet, m, n, loans[l], l, w)
  BY Zenon DEF FoldedAs
<1>2. r \in 1..Len(sheet.rows) /\ GroupCells(row, s, sheet, m, n, r, l, s)
  BY CellsOfOrnament
<1>3. /\ \A j \in 1..3 : row[s + 2 + j] = old[m + 2 + j]
      /\ \A j \in 1..3 : row[s + 5 + j] = Moved(sheet, r, l, map, m + n + 5 + j)
  BY <1>2, Zenon DEF GroupCells
<1>4. TallAt(sheet.headers, lead, trail) /\ AuditRow(sheet, m, n, r) /\ m \in Nat /\ n \in Nat
  BY <1>1, <1>2, Zenon DEF AuditAt, TallAt
<1>5. BlockFinds(b, m + 2, m + n + 6)
  BY <1>4, TallOrnament, Zenon
<1>6. FromColumns(from, m + 2, m + n + 6)
  BY <1>5, SourcesAre, Zenon
<1>7. \A j \in 1..3 : from[j] = m + 2 + j /\ from[3 + j] = m + n + 6 + (j - 1)
  BY <1>6, Zenon DEF FromColumns
<1>8. IsSequence(old) /\ Len(old) = m + n + 8 /\ IsSequence(row) /\ Len(row) = m + w * 8 + n
  BY <1>1, <1>4, Zenon DEF AuditRow, WideRow
<1>9. DOMAIN old = 1..(m + n + 8) /\ DOMAIN row = 1..(m + w * 8 + n)
  BY <1>8, IsSeqOf, Zenon
<1> HIDE DEF row, m, n, r, old, b, from, map, F
<1>10. /\ \A x \in DOMAIN map : \E j \in 1..6 : x = from[j]
       /\ \A j \in 1..6 : map[from[j]] = s + 2 + j
  <2> DEFINE a == m + 2
             split == m + n + 6
             start == s
  <2>1. BlockFinds(b, a, split) /\ a \in Nat /\ split \in Nat /\ 1 <= a /\ a + 3 < split
    BY <1>4, <1>5
  <2> HIDE DEF a, split, start
  <2>2. /\ \A x \in DOMAIN ColumnMap(b, start) : \E j \in 1..6 : x = Sources(b)[j]
        /\ \A j \in 1..6 : ColumnMap(b, start)[Sources(b)[j]] = start + 2 + j
    BY <2>1, MapIs
  <2>3. QED
    BY <2>2, Zenon DEF map, from, start
<1>11. PICK j \in 1..6 : c = from[j]
  BY <1>10, Zenon DEF map, b, s, m
<1>12. map[c] = s + 2 + j
  BY <1>10, <1>11, Zenon
<1>13. s \in Nat /\ s + 8 <= m + w * 8
  BY <1>1, <1>4 DEF Start
<1> HIDE DEF s
<1>14. CASE j \in 1..3
  <2>1. c = m + 2 + j
    BY <1>7, <1>11, <1>14, Zenon
  <2>2. c \in 1..(m + n + 8) /\ s + 2 + j \in 1..(m + w * 8 + n)
    BY <1>1, <1>4, <1>13, <1>14, <2>1
  <2>3. CellAt(row, s + 2 + j) = row[s + 2 + j] /\ CellAt(old, c) = old[c]
    BY <1>9, <2>2, Zenon DEF CellAt
  <2>4. row[s + 2 + j] = old[c]
    BY <1>3, <1>14, <2>1, Zenon
  <2>5. MovesTo(row, old, map, c, m + n + 8)
    BY <1>12, <2>2, <2>3, <2>4, Zenon DEF MovesTo
  <2>6. QED
    BY <2>5, Zenon DEF row, old, map, m, n, s, b, r
<1>15. CASE j \notin 1..3
  <2> DEFINE q == j - 3
  <2>1. q \in 1..3 /\ 3 + q = j /\ s + 5 + q = s + 2 + j /\ m + n + 6 + (q - 1) = m + n + 5 + q
        /\ m + n + 5 + q \in 1..(m + n + 8) /\ s + 2 + j \in 1..(m + w * 8 + n)
    BY <1>1, <1>4, <1>13, <1>15
  <2> HIDE DEF q
  <2>2. c = m + n + 5 + q
    BY <1>7, <1>11, <2>1, Zenon
  <2>3. CellAt(row, s + 2 + j) = row[s + 2 + j] /\ CellAt(old, c) = old[c] /\ c \in 1..(m + n + 8)
    BY <1>9, <2>1, <2>2, Zenon DEF CellAt
  <2>4. row[s + 2 + j] = Moved(sheet, r, l, map, c)
    BY <1>3, <2>1, <2>2, Zenon
  <2>5. ASSUME old[c].k # F PROVE Moved(sheet, r, l, map, c) = old[c]
    BY <2>3, <2>5, Zenon DEF Moved, old, F
  <2>6. MovesTo(row, old, map, c, m + n + 8)
    BY <1>12, <2>3, <2>4, <2>5, Zenon DEF MovesTo, F
  <2>7. QED
    BY <2>6, Zenon DEF row, old, map, m, n, s, b, r
<1>16. QED
  BY <1>14, <1>15, Zenon

(* A formula of a folded row is the auditor's, of an ornament of the loan.    *)
FormulaFrom(row, sheet, m, n, loan, l, w, c) ==
  \E i \in 1..w, j \in 1..3 :
    /\ i <= Len(loan) /\ c = Start(m, i) + 5 + j
    /\ row[c] = Moved(sheet, loan[i], l, ColumnMap(MapOrnaments(sheet.headers)[1], Start(m, i)), m + n + 5 + j)
LEMMA FormulasAre ==
  ASSUME NEW sheet, NEW folded, NEW lead, NEW trail, NEW loans, NEW at, NEW w,
         FoldedAs(sheet, folded, lead, trail, loans, at, w), NEW l \in 1..Len(loans),
         NEW c \in 1..(Len(lead) + w * 8 + Len(trail)), folded.rows[l][c].k = "formula"
  PROVE  FormulaFrom(folded.rows[l], sheet, Len(lead), Len(trail), loans[l], l, w, c)
<1> DEFINE row == folded.rows[l]
           m == Len(lead)
           n == Len(trail)
           loan == loans[l]
           first == sheet.rows[loan[1]]
           F == "formula"
<1>1. AuditAt(sheet, lead, trail) /\ LoansAt(sheet, loans, at) /\ w \in 1..3 /\ WideRow(row, sheet, m, n, loan, l, w)
  BY Zenon DEF FoldedAs
<1>2. m \in Nat /\ n \in Nat
  BY <1>1, Zenon DEF AuditAt, TallAt
<1>3. LoanIn(sheet, loan)
  BY <1>1, LoanInIs
<1>4. /\ \A j \in 1..m : row[j] = first[j]
      /\ \A i \in 1..Len(loan) : GroupCells(row, Start(m, i), sheet, m, n, loan[i], l, Start(m, i))
      /\ \A i \in 1..w : i > Len(loan) => \A y \in 1..8 : row[Start(m, i) + y] = Nothing
      /\ \A j \in 1..n : row[m + w * 8 + j] = first[m + 5 + j]
  BY <1>1, Zenon DEF WideRow, GroupsIn
<1>5. Len(loan) \in 1..3 /\ \A i \in 1..Len(loan) : loan[i] \in 1..Len(sheet.rows)
  BY <1>3, Zenon DEF LoanIn
<1>6. \A r \in 1..Len(sheet.rows) : \A d \in 1..(m + n + 5) : sheet.rows[r][d].k # F
  <2>1. ASSUME NEW r \in 1..Len(sheet.rows) PROVE Stays(sheet, r, m + n + 5)
    BY <1>1, NotMoved
  <2>2. QED
    BY <2>1, Zenon DEF Stays, StaysAt
<1>7. WideCase(c, m, n, w)
  BY <1>1, <1>2, WideColumns
<1>8. row[c].k = F /\ Nothing.k # F
  BY CellKinds, Zenon
<1> HIDE DEF row, m, n, loan, F
<1>9. 1 \in 1..Len(loan) /\ loan[1] \in 1..Len(sheet.rows)
  <2> DEFINE k == Len(loan)
  <2>1. k \in 1..3
    BY <1>5, Zenon
  <2> HIDE DEF k
  <2>2. 1 \in 1..k
    BY <2>1
  <2>3. QED
    BY <1>5, <2>2, Zenon DEF k
<1>10. \A d \in 1..(m + n + 5) : first[d].k # F
  BY <1>6, <1>9, Zenon
<1> HIDE DEF first
<1>11. (\A j \in 1..m : j \in 1..(m + n + 5)) /\ \A j \in 1..n : m + 5 + j \in 1..(m + n + 5)
  BY <1>2
<1>12. PICK i \in 1..w : \E y \in 1..8 : c = Start(m, i) + y
  BY <1>4, <1>7, <1>8, <1>10, <1>11, Zenon DEF WideCase
<1>13. PICK y \in 1..8 : c = Start(m, i) + y
  BY <1>12
<1>14. ~(i > Len(loan))
  BY <1>4, <1>8, <1>13, Zenon
<1>15. i \in 1..Len(loan) /\ i <= Len(loan)
  BY <1>1, <1>5, <1>12, <1>14
<1> DEFINE s == Start(m, i)
<1>16. s \in Nat
  BY <1>1, <1>2, <1>12 DEF Start
<1>17. GroupCells(row, s, sheet, m, n, loan[i], l, s) /\ loan[i] \in 1..Len(sheet.rows) /\ c = s + y
  BY <1>4, <1>5, <1>13, <1>15, Zenon
<1> HIDE DEF s
<1>18. /\ row[s + 1].k # F /\ row[s + 2] = sheet.rows[loan[i]][m + 2]
       /\ \A j \in 1..3 : row[s + 2 + j] = sheet.rows[loan[i]][m + 2 + j]
       /\ \A j \in 1..3 : row[s + 5 + j] = Moved(sheet, loan[i], l, ColumnMap(MapOrnaments(sheet.headers)[1], s), m + n + 5 + j)
  BY <1>17, Zenon DEF GroupCells, F
<1>19. /\ m + 2 \in 1..(m + n + 5) /\ \A j \in 1..3 : m + 2 + j \in 1..(m + n + 5)
       /\ \A j \in 1..3 : s + (2 + j) = s + 2 + j /\ s + (5 + j) = s + 5 + j
  BY <1>2, <1>16
<1>20. y = 1 \/ y = 2 \/ (\E j \in 1..3 : y = 2 + j) \/ \E j \in 1..3 : y = 5 + j
  BY GroupItems
<1>21. y # 1 /\ y # 2 /\ ~\E j \in 1..3 : y = 2 + j
  BY <1>6, <1>8, <1>17, <1>18, <1>19, Zenon
<1>22. PICK j \in 1..3 : y = 5 + j
  BY <1>20, <1>21, Zenon
<1>23. c = s + 5 + j
  BY <1>17, <1>19, <1>22, Zenon
<1>24. row[c] = Moved(sheet, loan[i], l, ColumnMap(MapOrnaments(sheet.headers)[1], s), m + n + 5 + j)
  BY <1>18, <1>23, Zenon
<1>25. FormulaFrom(row, sheet, m, n, loan, l, w, c)
  BY <1>15, <1>23, <1>24, Zenon DEF FormulaFrom, s
<1>26. QED
  BY <1>25, Zenon DEF row, m, n, loan

(* What the formulas of a sheet compute from, FormulasMeanTheSame's.          *)
ReadAt(sheet, ref) ==
  LET r == (ref[2] + 1) - FIRST_DATA_ROW
  IN IF r \in DOMAIN sheet.rows THEN CellAt(sheet.rows[r], ref[1]) ELSE Nothing
FormulaPlaces(sheet) ==
  {p \in (DOMAIN sheet.rows) \X (1..Len(sheet.headers)) : CellAt(sheet.rows[p[1]], p[2]).k = "formula"}
ReadsOf(sheet, p) ==
  LET refs == sheet.rows[p[1]][p[2]].refs IN [i \in DOMAIN refs |-> ReadAt(sheet, refs[i])]
MeansTheSame(filled, folded, p) ==
  \E q \in FormulaPlaces(filled) :
    ReadsOf(folded, p) = ReadsOf(filled, q) /\ folded.headers[p[2]] = filled.headers[q[2]]

(* A formula of the folded sheet reads what that of the audit sheet read. *)
LEMMA FormulaMeans ==
  ASSUME NEW sheet, NEW folded, NEW lead, NEW trail, NEW loans, NEW at, NEW w,
         FoldedAs(sheet, folded, lead, trail, loans, at, w), NEW l \in 1..Len(loans),
         NEW c \in 1..(Len(lead) + w * 8 + Len(trail)), folded.rows[l][c].k = "formula"
  PROVE  MeansTheSame(sheet, folded, <<l, c>>)
<1> DEFINE row == folded.rows[l]
           m == Len(lead)
           n == Len(trail)
           loan == loans[l]
           F == "formula"
           b == MapOrnaments(sheet.headers)[1]
<1>1. /\ AuditAt(sheet, lead, trail) /\ LoansAt(sheet, loans, at) /\ w \in 1..3
      /\ WideAt(folded.headers, lead, trail, w) /\ IsSequence(folded.rows) /\ Len(folded.rows) = Len(loans)
  BY Zenon DEF FoldedAs
<1>2. /\ m \in Nat /\ n \in Nat /\ TallAt(sheet.headers, lead, trail) /\ IsSequence(sheet.rows)
      /\ \A r \in 1..Len(sheet.rows) : AuditRow(sheet, m, n, r)
  BY <1>1, Zenon DEF AuditAt, TallAt
<1>3. LoanIn(sheet, loan)
  BY <1>1, LoanInIs
<1>4. Len(loan) \in 1..3 /\ \A i \in 1..Len(loan) : loan[i] \in 1..Len(sheet.rows)
  BY <1>3, Zenon DEF LoanIn
<1>5. FormulaFrom(row, sheet, m, n, loan, l, w, c)
  BY FormulasAre
<1>6. PICK i \in 1..w, j \in 1..3 :
        /\ i <= Len(loan) /\ c = Start(m, i) + 5 + j
        /\ row[c] = Moved(sheet, loan[i], l, ColumnMap(b, Start(m, i)), m + n + 5 + j)
  BY <1>5, Zenon DEF FormulaFrom
<1>7. i \in 1..Len(loan)
  BY <1>1, <1>4, <1>6
<1> DEFINE r == loan[i]
           map == ColumnMap(b, Start(m, i))
           C == m + n + 5 + j
           old == sheet.rows[r]
           width == m + n + 8
<1>8. r \in 1..Len(sheet.rows) /\ C \in 1..width
  BY <1>2, <1>4, <1>6, <1>7
<1>9. AuditRow(sheet, m, n, r)
  BY <1>2, <1>8, Zenon
<1>10. /\ IsSequence(old) /\ Len(old) = width /\ IsSheetCell(old[C])
       /\ FormulaCell(sheet.headers, old, r, C, m + n + 5)
  BY <1>8, <1>9, Zenon DEF AuditRow
<1>11. DOMAIN old = 1..width
  BY <1>10, IsSeqOf, Zenon
<1>12. CellAt(old, C) = old[C]
  BY <1>8, <1>11, Zenon DEF CellAt
<1>13. IsSheetCell(CellAt(sheet.rows[r], C)) /\ Moved(sheet, r, l, map, C).k = F
  BY <1>6, <1>10, <1>12, Zenon
<1>14. LET cell == CellAt(sheet.rows[r], C) IN
       /\ cell.k = F
       /\ Moved(sheet, r, l, map, C).refs = Repointed(cell.refs, map, FIRST_DATA_ROW + l - 1)
       /\ \A x \in DOMAIN cell.refs :
            cell.refs[x][2] = FIRST_DATA_ROW + r - 1 /\ cell.refs[x][1] \in DOMAIN map
  <2> HIDE DEF map, C, r
  <2>1. QED
    BY <1>13, MovedFormula
<1> DEFINE refs == old[C].refs
           news == row[c].refs
<1>15. /\ old[C].k = F /\ news = Repointed(refs, map, FIRST_DATA_ROW + l - 1)
       /\ \A x \in DOMAIN refs : refs[x][2] = FIRST_DATA_ROW + r - 1 /\ refs[x][1] \in DOMAIN map
  BY <1>6, <1>12, <1>14, Zenon
<1>16. \A d \in DOMAIN map : MovesTo(row, old, map, d, width)
  BY <1>6, SourceMoves
<1>17. DOMAIN sheet.headers = 1..width /\ IsSequence(sheet.headers) /\ Len(sheet.headers) = width
  BY <1>2, IsSeqOf, Zenon DEF TallAt
<1>18. DOMAIN sheet.rows = 1..Len(sheet.rows) /\ DOMAIN folded.rows = 1..Len(loans)
  BY <1>1, <1>2, IsSeqOf, Zenon
<1>19. \A x \in DOMAIN refs :
          refs[x] = <<refs[x][1], refs[x][2]>>
            /\ (refs[x][2] = FIRST_DATA_ROW + r - 1 /\ refs[x][1] \in DOMAIN sheet.headers
                  => old[refs[x][1]].k # F)
  BY <1>10, <1>15, Zenon DEF FormulaCell
<1>20. news = [x \in DOMAIN refs |-> <<map[refs[x][1]], FIRST_DATA_ROW + l - 1>>]
  BY <1>15, Zenon DEF Repointed
<1>21. l \in DOMAIN folded.rows /\ r \in DOMAIN sheet.rows /\ l \in Nat /\ r \in Nat
  <2>1. l \in Nat
    OBVIOUS
  <2>2. r \in Nat
    BY <1>8
  <2>3. QED
    BY <1>8, <1>18, <2>1, <2>2, Zenon
<1> HIDE DEF row, m, n, loan, F, b, map, C, old, width, refs, news, r
<1>22. (FIRST_DATA_ROW + l - 1 + 1) - FIRST_DATA_ROW = l /\ (FIRST_DATA_ROW + r - 1 + 1) - FIRST_DATA_ROW = r
  BY <1>21 DEF FIRST_DATA_ROW
<1>23. ASSUME NEW x \in DOMAIN refs PROVE ReadAt(folded, news[x]) = ReadAt(sheet, refs[x])
  <2> DEFINE d == refs[x][1]
  <2>1. d \in DOMAIN map /\ refs[x][2] = FIRST_DATA_ROW + r - 1
    BY <1>15, Zenon
  <2>2. MovesTo(row, old, map, d, width)
    BY <1>16, <2>1, Zenon
  <2>3. d \in DOMAIN sheet.headers
    BY <1>17, <2>2, Zenon DEF MovesTo
  <2>4. old[d].k # F
    BY <1>19, <2>1, <2>3, Zenon
  <2>5. CellAt(row, map[d]) = CellAt(old, d)
    BY <2>2, <2>4, Zenon DEF MovesTo, F
  <2>6. news[x] = <<map[d], FIRST_DATA_ROW + l - 1>>
    BY <1>20, Zenon
  <2> HIDE DEF d
  <2>7. news[x][1] = map[d] /\ news[x][2] = FIRST_DATA_ROW + l - 1
    BY <2>6
  <2>8. ReadAt(folded, news[x]) = CellAt(folded.rows[l], map[d])
    <3>1. (news[x][2] + 1) - FIRST_DATA_ROW = l
      BY <1>22, <2>7, Zenon
    <3>2. QED
      BY <1>21, <2>7, <3>1, Zenon DEF ReadAt
  <2>9. ReadAt(sheet, refs[x]) = CellAt(sheet.rows[r], d)
    <3>1. (refs[x][2] + 1) - FIRST_DATA_ROW = r
      BY <1>22, <2>1, Zenon
    <3>2. QED
      BY <1>21, <3>1, Zenon DEF ReadAt, d
  <2>10. QED
    BY <2>5, <2>8, <2>9, Zenon DEF row, old
<1>24. folded.headers[c] = sheet.headers[C]
  <2>1. GroupAt(folded.headers, Start(m, i), i)
    BY <1>1, <1>6, Zenon DEF WideAt, m
  <2>2. folded.headers[Start(m, i) + 5 + j] = AUDIT_BLOCK_COLUMNS[j]
    BY <1>6, <2>1, Zenon DEF GroupAt
  <2>3. sheet.headers[m + n + 5 + j] = AUDIT_BLOCK_COLUMNS[j]
    BY <1>2, <1>6, Zenon DEF TallAt, m, n
  <2>4. QED
    BY <1>6, <2>2, <2>3, Zenon DEF C
<1> DEFINE p == <<l, c>>
           q == <<r, C>>
<1>25. p[1] = l /\ p[2] = c /\ q[1] = r /\ q[2] = C
  OBVIOUS
<1>26. q \in (DOMAIN sheet.rows) \X (1..Len(sheet.headers))
  BY <1>8, <1>17, <1>21, Zenon
<1> HIDE DEF p, q
<1>27. q \in FormulaPlaces(sheet)
  BY <1>12, <1>15, <1>25, <1>26, Zenon DEF FormulaPlaces, F, old
<1>28. ReadsOf(folded, p) = [x \in DOMAIN news |-> ReadAt(folded, news[x])]
  BY <1>25, Zenon DEF ReadsOf, news, row
<1>29. ReadsOf(sheet, q) = [x \in DOMAIN refs |-> ReadAt(sheet, refs[x])]
  BY <1>25, Zenon DEF ReadsOf, refs, old
<1>30. DOMAIN news = DOMAIN refs
  BY <1>20, Zenon
<1>31. ReadsOf(folded, p) = ReadsOf(sheet, q)
  <2>1. [x \in DOMAIN refs |-> ReadAt(folded, news[x])] = [x \in DOMAIN refs |-> ReadAt(sheet, refs[x])]
    BY <1>23, Zenon
  <2>2. QED
    BY <1>28, <1>29, <1>30, <2>1, Zenon
<1>32. MeansTheSame(sheet, folded, p)
  BY <1>24, <1>25, <1>27, <1>31, Zenon DEF MeansTheSame
<1>33. QED
  BY <1>32, Zenon DEF p

(* So does every formula of the folded sheet. *)
LEMMA FormulasMoved ==
  ASSUME NEW sheet, NEW folded, NEW lead, NEW trail, NEW loans, NEW at, NEW w,
         FoldedAs(sheet, folded, lead, trail, loans, at, w)
  PROVE  FormulasMeanTheSame(sheet, folded)
<1> DEFINE F == "formula"
<1>1. /\ WideAt(folded.headers, lead, trail, w) /\ IsSequence(folded.rows) /\ Len(folded.rows) = Len(loans)
      /\ \A l \in 1..Len(loans) : WideRow(folded.rows[l], sheet, Len(lead), Len(trail), loans[l], l, w)
  BY Zenon DEF FoldedAs
<1>2. DOMAIN folded.rows = 1..Len(loans) /\ Len(folded.headers) = Len(lead) + w * 8 + Len(trail)
  BY <1>1, IsSeqOf, Zenon DEF WideAt
<1>3. ASSUME NEW p \in FormulaPlaces(folded) PROVE MeansTheSame(sheet, folded, p)
  <2> DEFINE l == p[1]
             c == p[2]
             width == Len(lead) + w * 8 + Len(trail)
  <2>1. p \in (DOMAIN folded.rows) \X (1..Len(folded.headers)) /\ CellAt(folded.rows[l], c).k = F
    BY Zenon DEF FormulaPlaces
  <2>2. p = <<l, c>> /\ l \in 1..Len(loans) /\ c \in 1..Len(folded.headers)
    <3>1. p = <<p[1], p[2]>> /\ p[1] \in DOMAIN folded.rows /\ p[2] \in 1..Len(folded.headers)
      <4>1. p \in (DOMAIN folded.rows) \X (1..Len(folded.headers))
        BY <2>1
      <4>2. QED
        BY <4>1
    <3>2. QED
      BY <1>2, <3>1, Zenon
  <2>3. c \in 1..width
    BY <1>2, <2>2, Zenon
  <2>4. DOMAIN folded.rows[l] = 1..width
    <3>1. IsSequence(folded.rows[l]) /\ Len(folded.rows[l]) = width
      BY <1>1, <2>2, Zenon DEF WideRow
    <3>2. QED
      BY <3>1, IsSeqOf, Zenon
  <2>5. folded.rows[l][c].k = F
    BY <2>1, <2>3, <2>4, Zenon DEF CellAt
  <2> HIDE DEF l, c
  <2>6. MeansTheSame(sheet, folded, <<l, c>>)
    BY <2>2, <2>3, <2>5, FormulaMeans DEF F
  <2>7. QED
    BY <2>2, <2>6, Zenon
<1>4. QED
  BY <1>3, Zenon DEF FormulasMeanTheSame, FormulaPlaces, MeansTheSame, ReadsOf, ReadAt

(* What Rebuild promises of every audit sheet.                                *)
LEMMA RebuildsRight ==
  ASSUME NEW sheet, IsAuditSheet(sheet)
  PROVE  RoundTrip(sheet, Rebuild(sheet).sheet) /\ FormulasMeanTheSame(sheet, Rebuild(sheet).sheet)
<1> DEFINE folded == Rebuild(sheet).sheet
<1>1. \E lead, trail, loans, at, w : FoldedAs(sheet, folded, lead, trail, loans, at, w)
  BY RebuiltAs
<1> HIDE DEF folded
<1>2. PICK lead, trail, loans, at, w : FoldedAs(sheet, folded, lead, trail, loans, at, w)
  BY <1>1, Zenon
<1>3. RoundTrip(sheet, folded)
  BY <1>2, RoundTrips
<1>4. FormulasMeanTheSame(sheet, folded)
  BY <1>2, FormulasMoved
<1>5. QED
  BY <1>3, <1>4, Zenon DEF folded

=============================================================================
