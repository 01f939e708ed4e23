----------------------------- MODULE RunFolders -----------------------------
(***************************************************************************)
(* Where the IDFC and Arvog workers put the reports of a batch             *)
(* (tasks/workers.py): a folder for each workbook, named by the workbook   *)
(* and the second, then a ZIP beside it, which in "ZIP ONLY" replaces it.  *)
(* A user's runs follow one another into the same base directory; the      *)
(* clock moves on its own.                                                 *)
(***************************************************************************)
EXTENDS Naturals, Sequences, FiniteSets

CONSTANTS
  Workbooks,   (* base names of workbooks *)
  Branches,    (* branches of a workbook, each with a file name of its own *)
  MaxBatch,    (* bound: workbooks of a run *)
  MaxStarts,     (* bound: runs *)
  MaxClock     (* bound: seconds *)

ASSUME RunFoldersAssumption ==
  MaxBatch \in Nat /\ MaxStarts \in Nat /\ MaxClock \in Nat

Modes == {"FOLDER", "ZIP ONLY", "BOTH"}
Labels == Workbooks \X (0..MaxClock)
Inputs == (1..MaxStarts) \X (1..MaxBatch)
Reports == Inputs \X Branches

VARIABLES
  clock,     (* datetime.now, in seconds *)
  runNo,       (* the number of the run *)
  mode,      (* output_mode *)
  batch,     (* its workbooks *)
  at,        (* [pc, idx, label, dir, todo]: the worker *)
  folders,   (* reports in each folder there is, by label and suffix *)
  zips,      (* reports in each ZIP there is, by label *)
  cancel     (* cancel_event *)

folderVars == <<clock, runNo, mode, batch, at, folders, zips, cancel>>

Idle == [pc |-> "idle", idx |-> 0, label |-> <<>>, dir |-> <<>>, todo |-> {}]

FoldersInit ==
  /\ clock = 0 /\ runNo = 0 /\ mode = "FOLDER" /\ batch = <<>> /\ at = Idle
  /\ folders = <<>> /\ zips = <<>> /\ cancel = FALSE

-----------------------------------------------------------------------------
Second ==
  /\ clock < MaxClock
  /\ clock' = clock + 1
  /\ UNCHANGED <<runNo, mode, batch, at, folders, zips, cancel>>

StartRun(m, b) ==
  /\ at.pc = "idle" /\ runNo < MaxStarts
  /\ runNo' = runNo + 1 /\ mode' = m /\ batch' = b /\ cancel' = FALSE
  /\ at' = [Idle EXCEPT !.pc = "file", !.idx = 1]
  /\ UNCHANGED <<clock, folders, zips>>

CancelRun ==
  /\ at.pc # "idle"
  /\ cancel' = TRUE
  /\ UNCHANGED <<clock, runNo, mode, batch, at, folders, zips>>

(* Mutant: the label is the folder, made or found. *)
SameDir(label) == <<label, 1>>

(* _distinct_run_dir: the label, then "label_2", "label_3", ... *)
DistinctDir(label) ==
  <<label, CHOOSE k \in 1..(Cardinality(DOMAIN folders) + 1) :
             /\ <<label, k>> \notin DOMAIN folders
             /\ \A j \in 1..(k - 1) : <<label, j>> \in DOMAIN folders>>

(* The next workbook: its folder is made. *)
BeginWorkbook ==
  /\ at.pc = "file" /\ at.idx <= Len(batch) /\ ~cancel
  /\ LET label == <<batch[at.idx], clock>>
         dir == DistinctDir(label)
     IN /\ at' = [at EXCEPT !.pc = "branch", !.label = label, !.dir = dir, !.todo = Branches]
        /\ folders' = [d \in DOMAIN folders \cup {dir} |->
                         IF d \in DOMAIN folders THEN folders[d] ELSE {}]
  /\ UNCHANGED <<clock, runNo, mode, batch, zips, cancel>>

(* After the last one, or when the run is cancelled. *)
EndBatch ==
  /\ at.pc = "file" /\ (at.idx > Len(batch) \/ cancel)
  /\ at' = Idle
  /\ UNCHANGED <<clock, runNo, mode, batch, folders, zips, cancel>>

(* A report replaces one of the same name. *)
Report(b) ==
  /\ at.pc = "branch" /\ b \in at.todo /\ ~cancel
  /\ folders' = [folders EXCEPT ![at.dir] =
                   {r \in folders[at.dir] : r[2] # b} \cup {<<<<runNo, at.idx>>, b>>}]
  /\ at' = [at EXCEPT !.todo = @ \ {b}]
  /\ UNCHANGED <<clock, runNo, mode, batch, zips, cancel>>

(* Anything raised ends the whole batch; its folders stay. *)
RaiseError ==
  /\ at.pc = "branch"
  /\ at' = Idle
  /\ UNCHANGED <<clock, runNo, mode, batch, folders, zips, cancel>>

BranchesDone ==
  /\ at.pc = "branch" /\ (at.todo = {} \/ cancel)
  /\ at' = IF mode = "FOLDER" \/ cancel
           THEN [Idle EXCEPT !.pc = "file", !.idx = at.idx + 1]
           ELSE [at EXCEPT !.pc = "zip"]
  /\ UNCHANGED <<clock, runNo, mode, batch, folders, zips, cancel>>

(* Mutant: every folder of the label goes into the ZIP. *)
CompressLabel ==
  /\ at.pc = "zip"
  /\ zips' = [l \in DOMAIN zips \cup {at.label} |->
                IF l = at.label
                THEN UNION {folders[d] : d \in {f \in DOMAIN folders : f[1] = l}}
                ELSE zips[l]]
  /\ at' = IF mode = "ZIP ONLY" THEN [at EXCEPT !.pc = "remove"]
           ELSE [Idle EXCEPT !.pc = "file", !.idx = at.idx + 1]
  /\ UNCHANGED <<clock, runNo, mode, batch, folders, cancel>>

(* The ZIP's name is the label, written anew. *)
Compress ==
  /\ at.pc = "zip"
  /\ zips' = [l \in DOMAIN zips \cup {at.label} |->
                IF l = at.label THEN folders[at.dir] ELSE zips[l]]
  /\ at' = IF mode = "ZIP ONLY" THEN [at EXCEPT !.pc = "remove"]
           ELSE [Idle EXCEPT !.pc = "file", !.idx = at.idx + 1]
  /\ UNCHANGED <<clock, runNo, mode, batch, folders, cancel>>

RemoveFolder ==
  /\ at.pc = "remove"
  /\ folders' = [d \in DOMAIN folders \ {at.dir} |-> folders[d]]
  /\ at' = [Idle EXCEPT !.pc = "file", !.idx = at.idx + 1]
  /\ UNCHANGED <<clock, runNo, mode, batch, zips, cancel>>

FoldersNext ==
  \/ Second
  \/ \E m \in Modes, b \in UNION {[1..n -> Workbooks] : n \in 1..MaxBatch} : StartRun(m, b)
  \/ CancelRun
  \/ BeginWorkbook
  \/ EndBatch
  \/ \E b \in Branches : Report(b)
  \/ RaiseError
  \/ BranchesDone
  \/ Compress
  \/ RemoveFolder

FoldersSpec == FoldersInit /\ [][FoldersNext]_folderVars

-----------------------------------------------------------------------------
Folded == UNION {folders[d] : d \in DOMAIN folders}
Zipped == UNION {zips[l] : l \in DOMAIN zips}

FoldersTypeOK ==
  /\ clock \in 0..MaxClock /\ runNo \in 0..MaxStarts /\ mode \in Modes /\ cancel \in BOOLEAN
  /\ batch \in Seq(Workbooks) /\ Len(batch) <= MaxBatch
  /\ at \in [pc : {"idle", "file", "branch", "zip", "remove"}, idx : Nat,
             label : Labels \cup {<<>>}, dir : (Labels \X Nat) \cup {<<>>}, todo : SUBSET Branches]
  /\ IsFiniteSet(DOMAIN folders)
  /\ \A d \in DOMAIN folders : d \in Labels \X Nat /\ folders[d] \subseteq Reports
  /\ \A l \in DOMAIN zips : l \in Labels /\ zips[l] \subseteq Reports

(* A batch yields one folder per input (_distinct_run_dir): what a folder or *)
(* a ZIP holds is of one workbook of one run, whatever the names and the       *)
(* clock, and a ZIP is whole.                                                *)
NothingMerged ==
  /\ \A d \in DOMAIN folders : \A r, s \in folders[d] : r[1] = s[1]
  /\ \A l \in DOMAIN zips : (\A r, s \in zips[l] : r[1] = s[1])
                              /\ {r[2] : r \in zips[l]} = Branches

(* The folder at hand is the workbook's own: it holds what is done of it.     *)
FolderIsItsOwn ==
  /\ at.pc # "idle" => at.idx > 0 /\ runNo > 0
  /\ at.pc \in {"branch", "zip", "remove"} =>
       /\ at.label \in Labels /\ at.dir \in DOMAIN folders /\ at.idx <= Len(batch)
       /\ \A r \in folders[at.dir] : r[1] = <<runNo, at.idx>>
       /\ {r[2] : r \in folders[at.dir]} = Branches \ at.todo
  /\ at.pc \in {"zip", "remove"} => at.todo = {}
  /\ at.pc = "remove" => mode = "ZIP ONLY"

(* With the types: no folder or ZIP mixes two workbooks.                      *)
FoldersInv == FoldersTypeOK /\ NothingMerged /\ FolderIsItsOwn

(* A report that was written is never lost to a later workbook or run, as      *)
(* long as folders are kept.                                                *)
FoldersKeep == [][mode # "ZIP ONLY" => Folded \subseteq Folded']_folderVars

(* The same of "ZIP ONLY": what a run has made is in a folder or a ZIP for     *)
(* good ("silently overwrote each other.  That is precisely the merge a      *)
(* batch is supposed not to do", _distinct_run_dir).                         *)
ZipsKeep == [][Folded \cup Zipped \subseteq (Folded \cup Zipped)']_folderVars

=============================================================================
