------------------------------ MODULE PdfTools ------------------------------
(***************************************************************************)
(* What the PDF tools compute: the merge of branch folders into one PDF    *)
(* for each branch (services/pdf_merger.py) and the flattening of a PDF    *)
(* (services/pdf_flattener.py).                                            *)
(*                                                                         *)
(* A folder is the sequence of its entries in natural order.  A PDF is     *)
(* where it lies, how it opens and its pages.  A name is a word and the    *)
(* numbers in brackets after it: "A (2)" is <<"A", 2>>, and Lower gives    *)
(* its word in lower case.                                                 *)
(***************************************************************************)
EXTENDS Lists, SequencesExt, Functions

(* Words of the names, their safe form and their form in lower case. *)
SafeWord(w) == IF w = "A:" THEN "A_" ELSE w
Lower(name) == [name EXCEPT ![1] = IF @ = "a" THEN "A" ELSE @]

-----------------------------------------------------------------------------
(* safe_branch_name *)
SafeName(name) == [name EXCEPT ![1] = SafeWord(@)]

(* Mutant: names are compared as they are written. *)
CandidateCased(name, used) ==
  IF name \notin used THEN name
  ELSE Append(name, CHOOSE k \in 2..(Cardinality(used) + 2) :
                      /\ Append(name, k) \notin used
                      /\ \A j \in 2..(k - 1) : Append(name, j) \in used)

(* The first of "name", "name (2)", "name (3)" that no branch has taken. *)
Candidate(name, used) ==
  IF Lower(name) \notin used THEN name
  ELSE Append(name, CHOOSE k \in 2..(Cardinality(used) + 2) :
                      /\ Lower(Append(name, k)) \notin used
                      /\ \A j \in 2..(k - 1) : Lower(Append(name, j)) \in used)

(* find_branches: the folders that hold a PDF at any depth. *)
Branches(root) == Kept(root, {e \in Range(root) : e.folder /\ e.pdfs # <<>>})

(* A note for each folder without one, for PDFs loose in the root, and for a *)
(* folder whose PDFs all lie further down.                                   *)
FindNotes(root) ==
  {<<"empty", i>> : i \in {j \in DOMAIN root : root[j].folder /\ root[j].pdfs = <<>>}}
    \cup {<<"loose", 0>> : i \in {j \in DOMAIN root : ~root[j].folder}}
    \cup {<<"below", i>> : i \in {j \in DOMAIN root :
            /\ root[j].folder /\ root[j].pdfs # <<>>
            /\ \A p \in Range(root[j].pdfs) : p.below}}

(* The pages merge_branch takes from a file: none when a password is needed, *)
(* and of one that turns out to be broken those before the break.            *)
PagesOf(pdf) ==
  CASE pdf.opens \in {"yes", "unlocked"} -> pdf.pages
    [] pdf.opens = "broken" -> pdf.good
    [] pdf.opens = "password" -> 0

Skipped(pdf) == pdf.opens \in {"password", "broken"}

(* merge_branch: the merged PDF, as the pages <<file, page>> in order. *)
MergedPages(pdfs) ==
  FlattenSeq([i \in DOMAIN pdfs |-> [n \in 1..PagesOf(pdfs[i]) |-> <<i, n>>]])

(* One branch of the zip: merged under a name of its own.  One without a     *)
(* readable page keeps its name taken and is noted.                          *)
MergeBranch(acc, b) ==
  LET name == Candidate(SafeName(b.name), acc.used)
      pages == MergedPages(b.pdfs)
      bad == {<<"skipped", b.id, i>> : i \in {j \in DOMAIN b.pdfs : Skipped(b.pdfs[j])}}
  IN [used |-> acc.used \cup {Lower(name)},
      zip |-> IF pages = <<>> THEN acc.zip
              ELSE Append(acc.zip, [branch |-> b, name |-> name, pages |-> pages]),
      notes |-> acc.notes \cup bad
                  \cup (IF pages = <<>> THEN {<<"nothing", b.id>>} ELSE {})]

(* merge_folder_to_zip: the branches are merged one after the other.  Nothing *)
(* found or nothing merged is an error.                                       *)
MergeFolder(root) ==
  LET found == Branches(root)
      after[n \in 0..Len(found)] ==
        IF n = 0 THEN [used |-> {}, zip |-> <<>>, notes |-> {}]
        ELSE MergeBranch(after[n - 1], found[n])
      done == after[Len(found)]
  IN IF done.zip = <<>> THEN [ok |-> FALSE]
     ELSE [ok |-> TRUE,
           zip |-> done.zip,
           notes |-> done.notes \cup FindNotes(root),
           total |-> Added([i \in DOMAIN done.zip |-> Len(done.zip[i].pages)])]

-----------------------------------------------------------------------------
(* A PDF to flatten: per page its annotations, each with an appearance to    *)
(* bake in, a bare link, or another without one; and its form fields.        *)
Annotations(pages) == Added([i \in DOMAIN pages |-> Len(pages[i])])

(* pikepdf's flatten_annotations: what has an appearance becomes page        *)
(* content (external).                                                       *)
BakedIn(pages) == [i \in DOMAIN pages |-> Kept(pages[i], Range(pages[i]) \ {"shown"})]

(* _drop_bare_annotations *)
DropLinks(pages) == [i \in DOMAIN pages |-> Kept(pages[i], Range(pages[i]) \ {"link"})]

LinksIn(pages) == Added([i \in DOMAIN pages |-> Len(Kept(pages[i], {"link"}))])

(* flatten_pdf: an error leaves no file; the counts of the summary are taken *)
(* before and after.                                                         *)
Flatten(pdf) ==
  IF pdf.opens # "yes" THEN [ok |-> FALSE]
  ELSE LET baked == BakedIn(pdf.pages)
           flat == DropLinks(baked)
           links == LinksIn(baked)
           gone == Annotations(pdf.pages) - Annotations(flat)
       IN [ok |-> TRUE, pages |-> flat, form |-> FALSE, fields |-> pdf.fields,
           links |-> links,
           annotations |-> IF gone >= links THEN gone - links ELSE 0]

-----------------------------------------------------------------------------
(* What the tools are given: entries and PDFs as the file system and pypdf    *)
(* show them, and PDFs as pikepdf does.                                       *)
IsPdf(p) ==
  /\ p.below \in BOOLEAN /\ p.opens \in {"yes", "unlocked", "password", "broken"}
  /\ p.pages \in Nat /\ p.good \in 0..p.pages
IsRoot(root) ==
  /\ IsSequence(root)
  /\ \A i, j \in DOMAIN root : root[i].id = root[j].id => i = j
  /\ \A e \in Range(root) :
       /\ e.folder \in BOOLEAN
       /\ IsSequence(e.name) /\ e.name # <<>>
       /\ IsSequence(e.pdfs) /\ \A p \in Range(e.pdfs) : IsPdf(p)
IsDocument(pdf) ==
  /\ IsSequence(pdf.pages)
  /\ \A i \in DOMAIN pdf.pages : IsSequence(pdf.pages[i])

(* No two branches are merged under one name, or one branch under two.       *)
BranchesApart(zip) ==
  \A i, j \in DOMAIN zip :
    i # j => Lower(zip[i].name) # Lower(zip[j].name) /\ zip[i].branch.id # zip[j].branch.id

(* A folder that is not in the zip, and PDFs loose in the root, are noted; one *)
(* that is there has the pages of its files in their order.                  *)
FoldersAnswered(root, merged) ==
  \A k \in DOMAIN root :
    LET e == root[k]
        entry == {i \in DOMAIN merged.zip : merged.zip[i].branch.id = e.id}
    IN IF ~e.folder THEN <<"loose", 0>> \in merged.notes
       ELSE IF entry = {}
            THEN {<<"empty", k>>, <<"nothing", e.id>>} \cap merged.notes # {}
            ELSE \A i \in entry :
                   /\ merged.zip[i].pages # <<>>
                   /\ \A p, q \in DOMAIN merged.zip[i].pages :
                        LET a == merged.zip[i].pages[p]  b == merged.zip[i].pages[q]
                        IN p < q => a[1] < b[1] \/ (a[1] = b[1] /\ a[2] < b[2])

(* Every page of a file is in its branch's PDF, or the file is noted.         *)
PagesAnswered(root, merged) ==
  \A k \in DOMAIN root : root[k].folder =>
    \A f \in DOMAIN root[k].pdfs :
      LET pdf == root[k].pdfs[f]
          there == {n \in 1..pdf.pages :
                      \E i \in DOMAIN merged.zip :
                        /\ merged.zip[i].branch.id = root[k].id
                        /\ <<f, n>> \in Range(merged.zip[i].pages)}
      IN there # 1..pdf.pages => <<"skipped", root[k].id, f>> \in merged.notes

(* Every branch is in the zip once, under a name no other has on any file    *)
(* system, with the pages of its files in their order; what is not there is  *)
(* noted (the module's docstring: "each is skipped and reported").  A merge  *)
(* fails only when there was no page to merge.                               *)
MergeKeepsPages(root, merged) ==
  IF merged.ok
  THEN BranchesApart(merged.zip) /\ FoldersAnswered(root, merged) /\ PagesAnswered(root, merged)
  ELSE \A e \in Range(root) : e.folder => \A p \in Range(e.pdfs) : PagesOf(p) = 0

(* A flattened PDF has no form, no link and nothing left that had an         *)
(* appearance, and its summary accounts for every annotation that is gone.   *)
FlattenIsFinal(pdf, flat) ==
  flat.ok =>
    /\ ~flat.form
    /\ \A i \in DOMAIN flat.pages : Range(flat.pages[i]) \cap {"shown", "link"} = {}
    /\ Annotations(pdf.pages) = Annotations(flat.pages) + flat.links + flat.annotations

=============================================================================
