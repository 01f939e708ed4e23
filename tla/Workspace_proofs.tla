-------------------------- MODULE Workspace_proofs --------------------------
(***************************************************************************)
(* Proofs about Workspace, for any users, times and number of requests.    *)
(***************************************************************************)
EXTENDS Workspace, TLAPS

USE WorkspaceAssumption

(* The shapes of the directories and of a job. *)
Uploads == [here : BOOLEAN, age : Ages, files : SUBSET Ids]
Outputs == [here : BOOLEAN, age : Ages, folder : BOOLEAN, files : SUBSET Reports]
JobShape == [pc : {"idle", "open", "write", "close"}, todo : SUBSET Paths,
             cur : Paths \cup {NoInput}, outcome : {"none", "success", "failed"}]

LEMMA Bounds ==
  /\ 0 \in Ages /\ Ids \subseteq Nat /\ Ids \subseteq Reports /\ ZipFile \in Reports
  /\ NoUploads \in Uploads /\ NoOutputs \in Outputs /\ NoJob \in JobShape
  BY DEF Ages, Ids, Reports, ZipFile, NoUploads, NoOutputs, NoInput, NoJob, Uploads, Outputs, JobShape

(* A directory that is touched stays one, with the same files. *)
LEMMA TouchedUploads ==
  ASSUME NEW old \in Uploads, NEW new \in Uploads, NEW same \in BOOLEAN
  PROVE  /\ Touched(old, new, same) \in Uploads
         /\ Touched(old, new, same).files = new.files
  BY Bounds DEF Touched, Uploads

LEMMA TouchedOutputs ==
  ASSUME NEW old \in Outputs, NEW new \in Outputs, NEW same \in BOOLEAN
  PROVE  /\ Touched(old, new, same) \in Outputs
         /\ Touched(old, new, same).files = new.files
         /\ Touched(old, new, same).folder = new.folder
  BY Bounds DEF Touched, Outputs

LEMMA WithFolderOutputs ==
  ASSUME NEW d \in Outputs
  PROVE  WithFolder(d) \in Outputs /\ WithFolder(d).files = d.files /\ WithFolder(d).folder
  BY Bounds DEF WithFolder, Touched, Outputs

LEMMA WithoutUploads ==
  ASSUME NEW d \in Uploads, NEW i
  PROVE  Without(d, i) \in Uploads /\ Without(d, i).files = d.files \ {i}
  BY Bounds DEF Without, Touched, Uploads

LEMMA UnlinkedOutputs ==
  ASSUME NEW d \in Outputs, NEW n
  PROVE  /\ Unlinked(d, n) \in Outputs
         /\ Unlinked(d, n).files = d.files \ {n} /\ Unlinked(d, n).folder = d.folder
  BY Bounds DEF Unlinked, Outputs

(* The directory goes with the last file in it, which takes no folder along.  *)
LEMMA WithoutReportOutputs ==
  ASSUME NEW d \in Outputs, NEW n
  PROVE  /\ WithoutReport(d, n) \in Outputs
         /\ WithoutReport(d, n).files = d.files \ {n} /\ WithoutReport(d, n).folder = d.folder
<1>1. NoOutputs \in Outputs /\ NoOutputs.files = {} /\ NoOutputs.folder = FALSE
  BY Bounds DEF NoOutputs
<1>2. /\ Unlinked(d, n) \in Outputs
      /\ Unlinked(d, n).files = d.files \ {n} /\ Unlinked(d, n).folder = d.folder
  BY UnlinkedOutputs
<1>3. Unlinked(d, n).folder \in BOOLEAN
  BY <1>2 DEF Outputs
<1>4. QED
  BY <1>1, <1>2, <1>3 DEF WithoutReport

LEMMA OlderDirectories ==
  /\ \A d \in Uploads : Older(d) \in Uploads /\ Older(d).files = d.files
  /\ \A d \in Outputs : Older(d) \in Outputs /\ Older(d).files = d.files /\ Older(d).folder = d.folder
  BY DEF Older, Uploads, Outputs, Ages

-----------------------------------------------------------------------------
(***************************************************************************)
(* A purge keeps the types, takes only files of its own user and, of those, *)
(* leaves no upload but the inputs named.                                  *)
(***************************************************************************)
LEMMA PurgeStep ==
  ASSUME TypeOK, NEW u \in Users, NEW keep, Purge(u, keep)
  PROVE  /\ ups' \in [Users -> Uploads] /\ outs' \in [Users -> Outputs]
         /\ ups'[u].files = ups[u].files \cap NamedIn(keep, "up", u)
         /\ \A v \in Users \ {u} : ups'[v] = ups[v] /\ outs'[v] = outs[v]
<1>1. ups \in [Users -> Uploads] /\ outs \in [Users -> Outputs]
  BY DEF TypeOK, Uploads, Outputs
<1>2. /\ PurgedUploads(u, keep) \in Uploads
      /\ PurgedUploads(u, keep).files = ups[u].files \cap NamedIn(keep, "up", u)
  <2> DEFINE stay == NamedIn(keep, "up", u)
  <2> DEFINE new == [ups[u] EXCEPT !.files = @ \cap stay]
  <2>1. new \in Uploads /\ new.files = ups[u].files \cap stay
    BY <1>1 DEF Uploads
  <2>2. (ups[u].files \subseteq stay) \in BOOLEAN
    OBVIOUS
  <2>3. PurgedUploads(u, keep) = Touched(ups[u], new, ups[u].files \subseteq stay)
    BY DEF PurgedUploads
  <2> HIDE DEF new
  <2>4. Touched(ups[u], new, ups[u].files \subseteq stay) \in Uploads
        /\ Touched(ups[u], new, ups[u].files \subseteq stay).files = new.files
    BY <1>1, <2>1, <2>2, TouchedUploads
  <2>5. QED
    BY <2>1, <2>3, <2>4
<1>3. PurgedOutputs(u, keep) \in Outputs
  <2> DEFINE named == NamedIn(keep, "out", u)
  <2> DEFINE inside == named \cap Ids # {}
  <2> DEFINE stay == (IF inside THEN Ids ELSE {}) \cup (named \cap {ZipFile})
  <2> DEFINE new == [outs[u] EXCEPT !.here = TRUE, !.folder = @ /\ inside, !.files = @ \cap stay]
  <2> DEFINE same == outs[u].here /\ (outs[u].folder => inside) /\ outs[u].files \subseteq stay
  <2>1. PurgedOutputs(u, keep) = Touched(outs[u], new, same)
    BY DEF PurgedOutputs
  <2>2. inside \in BOOLEAN /\ same \in BOOLEAN
    OBVIOUS
  <2> HIDE DEF inside, stay, same
  <2>3. new \in Outputs
    BY <1>1, <2>2 DEF Outputs
  <2> HIDE DEF new
  <2>4. QED
    BY <1>1, <2>1, <2>2, <2>3, TouchedOutputs
<1>4. ups' = [v \in Users |-> IF v \in {u} THEN PurgedUploads(v, keep) ELSE ups[v]]
      /\ outs' = [v \in Users |-> IF v \in {u} THEN PurgedOutputs(v, keep) ELSE outs[v]]
  BY DEF Purge, PurgeScope
<1>5. QED
  BY <1>1, <1>2, <1>3, <1>4

LEMMA CallStep ==
  ASSUME TypeOK, NEW u \in Users, Call(u)
  PROVE  /\ calls' \in [Users -> 0..MaxCalls]
         /\ calls'[u] = calls[u] + 1 /\ calls'[u] \in Ids
         /\ \A v \in Users \ {u} : calls'[v] = calls[v]
<1>1. calls \in [Users -> 0..MaxCalls] /\ calls[u] \in 0..MaxCalls
  BY DEF TypeOK
<1>2. calls[u] < MaxCalls /\ calls' = [calls EXCEPT ![u] = calls[u] + 1]
  BY DEF Call
<1>3. calls[u] + 1 \in 1..MaxCalls
  BY <1>1, <1>2
<1>4. QED
  BY <1>1, <1>2, <1>3 DEF Ids

LEMMA CallGrows ==
  ASSUME TypeOK, NEW u \in Users, Call(u), NEW v \in Users
  PROVE  calls[v] \in Nat /\ calls'[v] \in Nat /\ calls[v] <= calls'[v]
<1>1. calls[v] \in 0..MaxCalls /\ calls'[v] \in 0..MaxCalls
  BY CallStep DEF TypeOK
<1>2. CASE v = u
  BY <1>1, <1>2, CallStep
<1>3. CASE v # u
  BY <1>1, <1>3, CallStep
<1>4. QED
  BY <1>2, <1>3

(* The conjuncts, where a step takes uploads away and adds none. *)
LEMMA FewerUploads ==
  ASSUME \A v \in Users : ups'[v].files \subseteq ups[v].files, taken' = taken,
         taken \in [Users -> SUBSET Paths],
         \A v \in Users : calls[v] \in Nat /\ calls'[v] \in Nat /\ calls[v] <= calls'[v]
  PROVE  /\ InputsDoNotOutlive /\ reapers' = reapers => InputsDoNotOutlive'
         /\ UploadsAreNumbered => UploadsAreNumbered'
         /\ TargetsWereTaken /\ reapers' = reapers => TargetsWereTaken'
<1>1. \A v \in Users : \A p \in taken[v] : p.user \in Users
  BY DEF Paths
<1>2. ASSUME InputsDoNotOutlive, reapers' = reapers PROVE InputsDoNotOutlive'
  BY <1>1, <1>2 DEF InputsDoNotOutlive, There
<1>3. ASSUME UploadsAreNumbered PROVE UploadsAreNumbered'
  <2>1. \A v \in Users : 1..calls[v] \subseteq 1..calls'[v]
    OBVIOUS
  <2>2. QED
    BY <1>1, <1>3, <2>1 DEF UploadsAreNumbered
<1>4. QED
  BY <1>2, <1>3 DEF TargetsWereTaken

LEMMA SameJobs ==
  ASSUME job' = job, runs' = runs, runs \in [Users -> Nat],
         \A v \in Users : calls[v] \in Nat /\ calls'[v] \in Nat /\ calls[v] <= calls'[v]
  PROVE  /\ RunsAreCounted => RunsAreCounted'
         /\ OutcomeAtClose => OutcomeAtClose'
  BY DEF RunsAreCounted, OutcomeAtClose, Running

LEMMA CallsCount ==
  TypeOK => /\ \A v \in Users : calls[v] \in Nat /\ runs[v] \in Nat
            /\ taken \in [Users -> SUBSET Paths]
  BY DEF TypeOK

-----------------------------------------------------------------------------
(* The requests. *)
LEMMA InitWorkspace == Init => WorkspaceInv
<1> SUFFICES ASSUME Init PROVE WorkspaceInv
  OBVIOUS
<1>1. TypeOK
  BY Bounds DEF Init, TypeOK, Uploads, Outputs, JobShape, Nothing
<1>2. InputsDoNotOutlive /\ UploadsAreNumbered
  BY DEF Init, InputsDoNotOutlive, UploadsAreNumbered, NoUploads
<1>2a. TargetsWereTaken
  BY DEF Init, TargetsWereTaken
<1>3. RunsAreCounted /\ OutcomeAtClose
  BY DEF Init, RunsAreCounted, OutcomeAtClose, NoJob, Running
<1>4. QED
  BY <1>1, <1>2, <1>2a, <1>3 DEF WorkspaceInv

LEMMA UploadStep ==
  ASSUME WorkspaceInv, NEW u \in Users, Upload(u)
  PROVE  WorkspaceInv'
<1>1. TypeOK /\ Call(u)
  BY DEF WorkspaceInv, Upload
<1>2. /\ ups' \in [Users -> Uploads]
      /\ ups'[u].files = ups[u].files \cup {calls'[u]}
      /\ \A v \in Users \ {u} : ups'[v] = ups[v]
  BY <1>1, CallStep, Bounds DEF Upload, TypeOK, Uploads
<1>3. TypeOK'
  BY <1>1, <1>2, CallStep DEF Upload, TypeOK, Uploads
<1>4. UploadsAreNumbered'
  <2>1. UploadsAreNumbered /\ taken' = taken /\ taken \in [Users -> SUBSET Paths]
    BY <1>1, CallsCount DEF WorkspaceInv, Upload
  <2>2. \A v \in Users : 1..calls[v] \subseteq 1..calls'[v]
    BY <1>1, CallGrows
  <2>3. \A v \in Users : ups'[v].files \subseteq 1..calls'[v]
    BY <1>1, <1>2, <2>1, <2>2, CallStep, CallsCount DEF UploadsAreNumbered
  <2>4. \A v \in Users : \A p \in taken[v] : p.user \in Users
    BY <2>1 DEF Paths
  <2>5. QED
    BY <2>1, <2>2, <2>3, <2>4 DEF UploadsAreNumbered
<1>5. InputsDoNotOutlive'
  <2> SUFFICES ASSUME NEW v \in Users, NEW p \in taken'[v], p.root = "up", There(p)'
               PROVE  \E r \in reapers' : r.user = v /\ p \in r.targets
    BY DEF InputsDoNotOutlive
  <2>1. /\ taken' = taken /\ reapers' = reapers /\ p \in Paths /\ p.user \in Users
        /\ InputsDoNotOutlive /\ UploadsAreNumbered
    BY <1>1, CallsCount DEF WorkspaceInv, Upload, Paths
  <2>2. p.n \in ups'[p.user].files /\ p.n \in 1..calls[p.user]
    BY <2>1 DEF There, UploadsAreNumbered
  <2>3. calls'[u] \notin 1..calls[u]
    BY <1>1, CallStep, CallsCount
  <2>4. There(p)
    BY <1>2, <2>1, <2>2, <2>3 DEF There
  <2>5. QED
    BY <2>1, <2>4 DEF InputsDoNotOutlive
<1>6. RunsAreCounted' /\ OutcomeAtClose'
  BY <1>1, SameJobs, CallsCount, CallGrows DEF WorkspaceInv, Upload, TypeOK
<1>7. TargetsWereTaken'
  BY DEF WorkspaceInv, TargetsWereTaken, Upload
<1>8. QED
  BY <1>3, <1>4, <1>5, <1>6, <1>7 DEF WorkspaceInv

(* An accepted run gets a reaper for what it was given; the purge leaves      *)
(* nothing else.                                                              *)
LEMMA AcceptStep ==
  ASSUME WorkspaceInv, NEW u \in Users, NEW ins \in SUBSET Paths, Accept(u, ins)
  PROVE  WorkspaceInv'
<1> DEFINE r == [user |-> u, run |-> runs'[u], targets |-> ins, pc |-> "wait", waited |-> 0]
<1>1. TypeOK /\ Call(u) /\ Purge(u, ins)
  BY DEF WorkspaceInv, Accept
<1>2. /\ runs' = [runs EXCEPT ![u] = @ + 1]
      /\ taken' = [taken EXCEPT ![u] = @ \cup ins]
      /\ job' = [job EXCEPT ![u] = [NoJob EXCEPT !.pc = "open", !.todo = ins]]
      /\ reapers' = reapers \cup {r}
      /\ \A p \in ins : There(p)
      /\ UNCHANGED <<zips, timers, gc>>
  BY DEF Accept, ReapTargets
<1>3. /\ ups' \in [Users -> Uploads] /\ outs' \in [Users -> Outputs]
      /\ ups'[u].files = ups[u].files \cap NamedIn(ins, "up", u)
      /\ \A v \in Users \ {u} : ups'[v] = ups[v]
  BY <1>1, PurgeStep
<1>4. runs[u] \in Nat /\ runs[u] <= calls[u] /\ runs'[u] = runs[u] + 1 /\ runs'[u] \in Ids
      /\ runs' \in [Users -> 0..MaxCalls]
  BY <1>1, <1>2, CallStep DEF WorkspaceInv, RunsAreCounted, TypeOK, Ids
<1>5. job'[u] \in JobShape /\ job'[u].pc = "open" /\ job'[u].outcome = "none"
      /\ job' \in [Users -> JobShape] /\ \A v \in Users \ {u} : job'[v] = job[v]
  BY <1>1, <1>2 DEF NoJob, JobShape, TypeOK
<1>6. r \in [user : Users, run : Ids, targets : SUBSET Paths, pc : {"wait", "remove"}, waited : 0..Deadline]
  BY <1>4
<1>7. /\ taken' \in [Users -> SUBSET Paths] /\ taken'[u] = taken[u] \cup ins
      /\ \A v \in Users \ {u} : taken'[v] = taken[v]
      /\ \A v \in Users : \A p \in taken'[v] : p.user \in Users /\ p.n \in Reports
  BY <1>1, <1>2 DEF TypeOK, Paths
<1>8. TypeOK'
  BY <1>1, <1>2, <1>3, <1>4, <1>5, <1>6, <1>7, CallStep DEF TypeOK, Uploads, Outputs, JobShape
<1>9. InputsDoNotOutlive'
  <2> SUFFICES ASSUME NEW v \in Users, NEW p \in taken'[v], p.root = "up", There(p)'
               PROVE  \E s \in reapers' : s.user = v /\ p \in s.targets
    BY DEF InputsDoNotOutlive
  <2>1. r \in reapers' /\ r.user = u /\ r.targets = ins /\ reapers \subseteq reapers'
    BY <1>2
  <2> HIDE DEF r
  <2>2. There(p)
    BY <1>3, <1>7 DEF There
  <2>3. CASE v = u /\ p \in ins
    BY <2>1, <2>3
  <2>4. CASE ~(v = u /\ p \in ins)
    <3>1. p \in taken[v]
      BY <1>7, <2>4
    <3>2. QED
      BY <2>1, <2>2, <3>1 DEF WorkspaceInv, InputsDoNotOutlive
  <2>5. QED
    BY <2>3, <2>4
<1>10. UploadsAreNumbered'
  <2>1. UploadsAreNumbered /\ \A v \in Users : 1..calls[v] \subseteq 1..calls'[v]
    BY <1>1, CallGrows DEF WorkspaceInv
  <2>2. \A v \in Users : ups'[v].files \subseteq 1..calls'[v]
    BY <1>3, <2>1 DEF UploadsAreNumbered
  <2>3. ASSUME NEW v \in Users, NEW p \in taken'[v], p.root = "up" PROVE p.n \in 1..calls'[p.user]
    <3>1. CASE p \in taken[v]
      BY <1>7, <2>1, <2>3, <3>1 DEF UploadsAreNumbered
    <3>2. CASE p \notin taken[v]
      <4>1. p \in ins
        BY <1>7, <3>2
      <4>2. p.n \in ups[p.user].files
        BY <1>2, <2>3, <4>1 DEF There
      <4>3. QED
        BY <1>7, <2>1, <4>2 DEF UploadsAreNumbered
    <3>3. QED
      BY <3>1, <3>2
  <2>4. QED
    BY <2>2, <2>3 DEF UploadsAreNumbered
<1>11. RunsAreCounted' /\ OutcomeAtClose'
  BY <1>1, <1>2, <1>4, <1>5, CallStep, CallGrows DEF WorkspaceInv, RunsAreCounted, OutcomeAtClose, Running, TypeOK
<1>12. TargetsWereTaken'
  <2>1. r.user = u /\ r.targets = ins /\ \A s \in reapers : s.user \in Users
    BY <1>1 DEF TypeOK
  <2> HIDE DEF r
  <2>2. \A v \in Users : taken[v] \subseteq taken'[v]
    BY <1>7
  <2>3. QED
    BY <1>2, <1>7, <2>1, <2>2 DEF WorkspaceInv, TargetsWereTaken
<1>13. QED
  BY <1>8, <1>9, <1>10, <1>11, <1>12 DEF WorkspaceInv

LEMMA RejectStep ==
  ASSUME WorkspaceInv, NEW u \in Users, NEW ins \in SUBSET Paths, Reject(u, ins)
  PROVE  WorkspaceInv'
<1>1. TypeOK /\ Call(u) /\ Purge(u, ins) /\ UNCHANGED <<zips, job, runs, taken, reapers, timers, gc>>
  BY DEF WorkspaceInv, Reject
<1>2. /\ ups' \in [Users -> Uploads] /\ outs' \in [Users -> Outputs]
      /\ \A v \in Users : ups'[v].files \subseteq ups[v].files
  <2>1. ups'[u].files = ups[u].files \cap NamedIn(ins, "up", u) /\ \A v \in Users \ {u} : ups'[v] = ups[v]
    BY <1>1, PurgeStep
  <2>2. QED
    BY <1>1, <2>1, PurgeStep
<1>3. TypeOK'
  BY <1>1, <1>2, CallStep DEF TypeOK, Uploads, Outputs
<1>4. InputsDoNotOutlive' /\ UploadsAreNumbered' /\ TargetsWereTaken'
  BY <1>1, <1>2, FewerUploads, CallGrows, CallsCount DEF WorkspaceInv
<1>5. RunsAreCounted' /\ OutcomeAtClose'
  BY <1>1, SameJobs, CallsCount, CallGrows DEF WorkspaceInv, TypeOK
<1>6. QED
  BY <1>3, <1>4, <1>5 DEF WorkspaceInv

(* The downloads write beside the reports and arm timers; no upload changes.  *)
LEMMA DownloadStep ==
  ASSUME WorkspaceInv, NEW u \in Users,
         DownloadZip(u) \/ DownloadDir(u) \/ \E r \in Reports : DownloadReport(u, r)
  PROVE  WorkspaceInv'
<1>1. TypeOK /\ Call(u) /\ UNCHANGED <<ups, job, runs, taken, reapers, gc>>
  BY DEF WorkspaceInv, DownloadZip, DownloadDir, DownloadReport
<1>2. outs' \in [Users -> Outputs] /\ zips' \subseteq Users
  <2>1. outs \in [Users -> Outputs] /\ zips \subseteq Users
    BY <1>1 DEF TypeOK, Outputs
  <2>2. ASSUME DownloadZip(u) PROVE outs' \in [Users -> Outputs] /\ zips' = zips
    <3> DEFINE new == [outs[u] EXCEPT !.here = TRUE, !.age = 0, !.files = @ \cup {ZipFile}]
    <3>1. outs' = [outs EXCEPT ![u] = new]
      BY <2>2 DEF DownloadZip
    <3>2. outs[u] \in Outputs
      BY <2>1
    <3>3. new \in Outputs
      BY <3>2, Bounds DEF Outputs
    <3> HIDE DEF new
    <3>4. outs' \in [Users -> Outputs]
      BY <2>1, <3>1, <3>3
    <3>5. QED
      BY <2>2, <3>4 DEF DownloadZip
  <2>3. QED
    BY <2>1, <2>2 DEF DownloadDir, DownloadReport
<1>3. timers' \subseteq [user : Users, what : Reports \cup {WholeDir}, left : 0..Delay]
  <2>1. timers \subseteq [user : Users, what : Reports \cup {WholeDir}, left : 0..Delay]
    BY <1>1 DEF TypeOK
  <2>2. ASSUME DownloadDir(u) PROVE timers' = timers \cup {[user |-> u, what |-> WholeDir, left |-> Delay]}
    BY <2>2 DEF DownloadDir
  <2>3. ASSUME NEW r \in Reports, DownloadReport(u, r)
        PROVE  timers' = timers \cup {[user |-> u, what |-> r, left |-> Delay]}
    BY <2>3 DEF DownloadReport
  <2>4. Delay \in 0..Delay
    OBVIOUS
  <2>5. ASSUME DownloadZip(u) PROVE timers' = timers
    BY <2>5 DEF DownloadZip
  <2>6. QED
    BY <2>1, <2>2, <2>3, <2>4, <2>5
<1>4. TypeOK'
  BY <1>1, <1>2, <1>3, CallStep DEF TypeOK, Outputs
<1>5. InputsDoNotOutlive' /\ UploadsAreNumbered' /\ TargetsWereTaken'
  BY <1>1, FewerUploads, CallGrows, CallsCount DEF WorkspaceInv
<1>6. RunsAreCounted' /\ OutcomeAtClose'
  BY <1>1, SameJobs, CallsCount, CallGrows DEF WorkspaceInv, TypeOK
<1>7. QED
  BY <1>4, <1>5, <1>6 DEF WorkspaceInv

-----------------------------------------------------------------------------
(***************************************************************************)
(* The worker writes reports and changes its own job only.                 *)
(***************************************************************************)
LEMMA WorkerStep ==
  ASSUME WorkspaceInv, NEW u \in Users, Worker(u)
  PROVE  WorkspaceInv'
<1>1. TypeOK /\ UNCHANGED <<ups, zips, runs, taken, reapers, timers, gc, calls>>
  BY DEF WorkspaceInv, Worker, OpenFolder, WriteReports, Fail, Announce, End
<1>2. outs \in [Users -> Outputs] /\ job \in [Users -> JobShape]
  BY <1>1 DEF TypeOK, Outputs, JobShape
<1>3. ASSUME Running(u) PROVE runs[u] \in Ids /\ runs[u] \in Reports
  BY <1>1, <1>3, Bounds DEF WorkspaceInv, RunsAreCounted, TypeOK, Ids
<1>4. outs' \in [Users -> Outputs] /\ \A v \in Users \ {u} : outs'[v] = outs[v]
  <2>1. ASSUME NEW i \in job[u].todo, OpenFolder(u, i) PROVE outs' \in [Users -> Outputs]
    <3>1. outs' = [outs EXCEPT ![u] = WithFolder(@)]
      BY <2>1 DEF OpenFolder
    <3>2. QED
      BY <1>2, <3>1, WithFolderOutputs
  <2>2. ASSUME WriteReports(u) PROVE outs' \in [Users -> Outputs]
    BY <1>2, <1>3, <2>2 DEF WriteReports, Running, Outputs
  <2>3. QED
    BY <1>2, <2>1, <2>2 DEF Worker, OpenFolder, WriteReports, Fail, Announce, End
<1>5. /\ job' \in [Users -> JobShape] /\ \A v \in Users \ {u} : job'[v] = job[v]
      /\ Running(u)
      /\ job'[u].pc \in {"open", "write"} => job'[u].outcome = "none"
      /\ job'[u].pc = "close" => job'[u].outcome # "none"
  <2>1. OutcomeAtClose
    BY DEF WorkspaceInv
  <2>2. CASE \E i \in job[u].todo : OpenFolder(u, i)
    <3>1. PICK i \in job[u].todo : OpenFolder(u, i)
      BY <2>2
    <3>2. job[u].pc = "open"
      BY <3>1 DEF OpenFolder
    <3> DEFINE new == [job[u] EXCEPT !.pc = "write", !.cur = i]
    <3>3. new \in JobShape /\ new.pc = "write" /\ new.outcome = job[u].outcome
      BY <1>2 DEF JobShape
    <3>4. job' = [job EXCEPT ![u] = new]
      BY <3>1 DEF OpenFolder
    <3> HIDE DEF new
    <3>5. job' \in [Users -> JobShape] /\ job'[u] = new /\ \A v \in Users \ {u} : job'[v] = job[v]
      BY <1>2, <3>3, <3>4
    <3>6. job[u].outcome = "none" /\ Running(u)
      BY <2>1, <3>2 DEF OutcomeAtClose, Running
    <3>7. QED
      BY <3>3, <3>5, <3>6
  <2>3. CASE WriteReports(u)
    <3> DEFINE new == [job[u] EXCEPT !.pc = "open", !.todo = @ \ {job[u].cur}]
    <3>1. new \in JobShape /\ new.pc = "open" /\ new.outcome = job[u].outcome
      BY <1>2 DEF JobShape
    <3>2. job' = [job EXCEPT ![u] = new]
      BY <2>3 DEF WriteReports
    <3>3. job[u].pc = "write"
      BY <2>3 DEF WriteReports
    <3> HIDE DEF new
    <3>4. job' \in [Users -> JobShape] /\ job'[u] = new /\ \A v \in Users \ {u} : job'[v] = job[v]
      BY <1>2, <3>1, <3>2
    <3>5. job[u].outcome = "none" /\ Running(u)
      BY <2>1, <3>3 DEF OutcomeAtClose, Running
    <3>6. QED
      BY <3>1, <3>4, <3>5
  <2>4. CASE Fail(u)
    BY <1>2, <2>1, <2>4 DEF Fail, Running, JobShape, OutcomeAtClose
  <2>5. CASE Announce(u)
    BY <1>2, <2>1, <2>5 DEF Announce, Running, JobShape, OutcomeAtClose
  <2>6. CASE End(u)
    BY <1>2, <2>1, <2>6 DEF End, Running, JobShape, OutcomeAtClose
  <2>7. QED
    BY <2>2, <2>3, <2>4, <2>5, <2>6 DEF Worker
<1>6. TypeOK'
  BY <1>1, <1>4, <1>5 DEF TypeOK, Outputs, JobShape
<1>7. InputsDoNotOutlive' /\ UploadsAreNumbered' /\ TargetsWereTaken'
  BY <1>1, FewerUploads, CallsCount DEF WorkspaceInv
<1>8. RunsAreCounted' /\ OutcomeAtClose'
  BY <1>1, <1>5 DEF WorkspaceInv, RunsAreCounted, OutcomeAtClose, Running
<1>9. QED
  BY <1>6, <1>7, <1>8 DEF WorkspaceInv

-----------------------------------------------------------------------------
(***************************************************************************)
(* The threads that delete.                                                *)
(***************************************************************************)
Reapers == [user : Users, run : Ids, targets : SUBSET Paths, pc : {"wait", "remove"}, waited : 0..Deadline]

LEMMA ReaperSeesStep ==
  ASSUME WorkspaceInv, NEW r \in reapers, ReaperSees(r)
  PROVE  WorkspaceInv'
<1> DEFINE s == [r EXCEPT !.pc = "remove"]
<1>1. TypeOK /\ reapers \subseteq Reapers
      /\ UNCHANGED <<ups, outs, zips, job, runs, taken, timers, gc, calls>>
  BY DEF WorkspaceInv, TypeOK, ReaperSees, Reapers
<1>2. reapers' = (reapers \ {r}) \cup {s}
  BY DEF ReaperSees
<1>3. s \in Reapers /\ s.user = r.user /\ s.targets = r.targets
  BY <1>1 DEF Reapers
<1> HIDE DEF s
<1>4. TypeOK'
  BY <1>1, <1>2, <1>3 DEF TypeOK, Reapers
<1>5. InputsDoNotOutlive' /\ TargetsWereTaken'
  BY <1>1, <1>2, <1>3 DEF WorkspaceInv, InputsDoNotOutlive, TargetsWereTaken, There
<1>6. UploadsAreNumbered' /\ RunsAreCounted' /\ OutcomeAtClose'
  BY <1>1 DEF WorkspaceInv, UploadsAreNumbered, RunsAreCounted, OutcomeAtClose, Running
<1>7. QED
  BY <1>4, <1>5, <1>6 DEF WorkspaceInv

(* A reaper leaves a target only when it has removed it.                      *)
LEMMA ReaperRemovesStep ==
  ASSUME WorkspaceInv, NEW r \in reapers, ReaperRemoves(r)
  PROVE  WorkspaceInv'
<1>1. TypeOK /\ reapers \subseteq Reapers
      /\ UNCHANGED <<zips, job, runs, taken, timers, gc, calls>>
  BY DEF WorkspaceInv, TypeOK, ReaperRemoves, Reapers
<1>2. r \in Reapers /\ r.user \in Users
  BY <1>1 DEF Reapers
<1>3. PICK q \in r.targets :
        /\ IF q.root = "up"
           THEN ups' = [ups EXCEPT ![q.user] = Without(@, q.n)] /\ UNCHANGED outs
           ELSE outs' = [outs EXCEPT ![q.user] = WithoutReport(@, q.n)] /\ UNCHANGED ups
        /\ reapers' = (reapers \ {r}) \cup
             (IF r.targets = {q} THEN {} ELSE {[r EXCEPT !.targets = @ \ {q}]})
  BY DEF ReaperRemoves
<1>4. q \in Paths /\ q.user \in Users
  BY <1>2 DEF Reapers, Paths
<1>5. /\ ups' \in [Users -> Uploads] /\ outs' \in [Users -> Outputs]
      /\ \A v \in Users : ups'[v].files \subseteq ups[v].files
      /\ q.root = "up" => q.n \notin ups'[q.user].files
  <2>1. ups \in [Users -> Uploads] /\ outs \in [Users -> Outputs]
    BY <1>1 DEF TypeOK, Uploads, Outputs
  <2>2. CASE q.root = "up"
    <3>1. /\ Without(ups[q.user], q.n) \in Uploads
          /\ Without(ups[q.user], q.n).files = ups[q.user].files \ {q.n}
      BY <1>4, <2>1, WithoutUploads
    <3>2. QED
      BY <1>3, <1>4, <2>1, <2>2, <3>1
  <2>3. CASE q.root # "up"
    <3>1. WithoutReport(outs[q.user], q.n) \in Outputs
      BY <1>4, <2>1, WithoutReportOutputs
    <3>2. QED
      BY <1>3, <1>4, <2>1, <2>3, <3>1
  <2>4. QED
    BY <2>2, <2>3
<1>6. ASSUME r.targets # {q}
      PROVE  \E s \in Reapers : /\ reapers' = (reapers \ {r}) \cup {s}
                                /\ s.user = r.user /\ s.targets = r.targets \ {q}
  <2> DEFINE s == [r EXCEPT !.targets = @ \ {q}]
  <2>1. s \in Reapers /\ s.user = r.user /\ s.targets = r.targets \ {q}
    BY <1>2 DEF Reapers
  <2>2. reapers' = (reapers \ {r}) \cup {s}
    BY <1>3, <1>6
  <2> HIDE DEF s
  <2>3. QED
    BY <2>1, <2>2
<1>7. reapers' \subseteq Reapers
  BY <1>1, <1>3, <1>6
<1>8. TypeOK'
  BY <1>1, <1>5, <1>7 DEF TypeOK, Uploads, Outputs, Reapers
<1>9. InputsDoNotOutlive'
  <2> SUFFICES ASSUME NEW v \in Users, NEW p \in taken'[v], p.root = "up", There(p)'
               PROVE  \E s \in reapers' : s.user = v /\ p \in s.targets
    BY DEF InputsDoNotOutlive
  <2>1. p \in taken[v] /\ p \in Paths /\ p.user \in Users
    BY <1>1, CallsCount DEF Paths
  <2>2. There(p) /\ p # q
    BY <1>5, <2>1 DEF There
  <2>3. PICK s \in reapers : s.user = v /\ p \in s.targets
    BY <2>1, <2>2 DEF WorkspaceInv, InputsDoNotOutlive
  <2>4. CASE s # r
    BY <1>3, <2>3, <2>4
  <2>5. CASE s = r
    BY <1>6, <2>2, <2>3, <2>5
  <2>6. QED
    BY <2>4, <2>5
<1>10. UploadsAreNumbered'
  BY <1>1, <1>5, FewerUploads, CallsCount DEF WorkspaceInv
<1>11. RunsAreCounted' /\ OutcomeAtClose'
  BY <1>1 DEF WorkspaceInv, RunsAreCounted, OutcomeAtClose, Running
<1>12. TargetsWereTaken'
  BY <1>1, <1>3, <1>6 DEF WorkspaceInv, TargetsWereTaken
<1>13. QED
  BY <1>8, <1>9, <1>10, <1>11, <1>12 DEF WorkspaceInv

(* A download's timer takes reports, and the zip of a directory.              *)
LEMMA TimerStep ==
  ASSUME WorkspaceInv, NEW t \in timers, TimerFires(t)
  PROVE  WorkspaceInv'
<1>1. TypeOK /\ UNCHANGED <<ups, job, runs, taken, reapers, gc, calls>> /\ timers' = timers \ {t}
  BY DEF WorkspaceInv, TimerFires
<1>2. outs \in [Users -> Outputs] /\ t.user \in Users /\ zips \subseteq Users
  BY <1>1 DEF TypeOK, Outputs
<1>3. outs' \in [Users -> Outputs] /\ zips' \subseteq Users
  <2>1. CASE t.what = WholeDir
    BY <1>2, <2>1, Bounds DEF TimerFires
  <2>2. CASE t.what # WholeDir
    <3>1. outs' = [outs EXCEPT ![t.user] = Unlinked(@, t.what)] /\ zips' = zips
      BY <2>2 DEF TimerFires
    <3>2. QED
      BY <1>2, <3>1, UnlinkedOutputs
  <2>3. QED
    BY <2>1, <2>2
<1>4. TypeOK'
  BY <1>1, <1>3 DEF TypeOK, Outputs
<1>5. InputsDoNotOutlive' /\ UploadsAreNumbered' /\ TargetsWereTaken'
  BY <1>1, FewerUploads, CallsCount DEF WorkspaceInv
<1>5a. RunsAreCounted' /\ OutcomeAtClose'
  BY <1>1 DEF WorkspaceInv, RunsAreCounted, OutcomeAtClose, Running
<1>6. QED
  BY <1>4, <1>5, <1>5a DEF WorkspaceInv

LEMMA SweeperPicksStep ==
  ASSUME WorkspaceInv, NEW root \in {"up", "out"}, NEW u \in Users, SweeperPicks(root, u)
  PROVE  WorkspaceInv'
<1>1. TypeOK /\ UNCHANGED <<ups, outs, zips, job, runs, taken, reapers, timers, calls>>
  BY DEF WorkspaceInv, SweeperPicks
<1>2. gc' = [root |-> root, user |-> u]
  BY DEF SweeperPicks
<1>3. gc' \in {Nothing} \cup [root : {"up", "out"}, user : Users]
  BY <1>2
<1>4. TypeOK'
  BY <1>1, <1>3 DEF TypeOK
<1>5. InputsDoNotOutlive' /\ UploadsAreNumbered' /\ TargetsWereTaken'
  BY <1>1, FewerUploads, CallsCount DEF WorkspaceInv
<1>5a. RunsAreCounted' /\ OutcomeAtClose'
  BY <1>1 DEF WorkspaceInv, RunsAreCounted, OutcomeAtClose, Running
<1>6. QED
  BY <1>4, <1>5, <1>5a DEF WorkspaceInv

LEMMA SweeperRemovesStep ==
  ASSUME WorkspaceInv, SweeperRemoves
  PROVE  WorkspaceInv'
<1>1. TypeOK /\ UNCHANGED <<zips, job, runs, taken, reapers, timers, calls>> /\ gc' = Nothing
  BY DEF WorkspaceInv, SweeperRemoves
<1>2. ups \in [Users -> Uploads] /\ outs \in [Users -> Outputs] /\ gc.user \in Users
  BY <1>1 DEF TypeOK, Uploads, Outputs, SweeperRemoves
<1>3. /\ ups' \in [Users -> Uploads] /\ outs' \in [Users -> Outputs]
      /\ \A v \in Users : ups'[v].files \subseteq ups[v].files
  <2>1. CASE gc.root = "up"
    <3>1. ups' = [ups EXCEPT ![gc.user] = NoUploads] /\ outs' = outs
      BY <2>1 DEF SweeperRemoves
    <3>2. NoUploads \in Uploads /\ NoUploads.files = {}
      BY Bounds DEF NoUploads
    <3>3. QED
      BY <1>2, <3>1, <3>2
  <2>2. CASE gc.root # "up"
    <3>1. outs' = [outs EXCEPT ![gc.user] = NoOutputs] /\ ups' = ups
      BY <2>2 DEF SweeperRemoves
    <3>2. QED
      BY <1>2, <3>1, Bounds
  <2>3. QED
    BY <2>1, <2>2
<1>4. TypeOK'
  BY <1>1, <1>3 DEF TypeOK, Uploads, Outputs
<1>5. InputsDoNotOutlive' /\ UploadsAreNumbered' /\ TargetsWereTaken'
  BY <1>1, <1>3, FewerUploads, CallsCount DEF WorkspaceInv
<1>6. RunsAreCounted' /\ OutcomeAtClose'
  BY <1>1 DEF WorkspaceInv, RunsAreCounted, OutcomeAtClose, Running
<1>7. QED
  BY <1>4, <1>5, <1>6 DEF WorkspaceInv

(* Time makes directories and threads older and changes nothing else.         *)
LEMMA TickStep ==
  ASSUME WorkspaceInv, Tick
  PROVE  WorkspaceInv'
<1> DEFINE later(t) == [t EXCEPT !.left = Less(@)]
<1> DEFINE longer(r) == [r EXCEPT !.waited = IF @ < Deadline THEN @ + 1 ELSE @]
<1>1. TypeOK /\ UNCHANGED <<zips, job, runs, taken, gc, calls>>
  BY DEF WorkspaceInv, Tick
<1>2. ups \in [Users -> Uploads] /\ outs \in [Users -> Outputs] /\ reapers \subseteq Reapers
  BY <1>1 DEF TypeOK, Uploads, Outputs, Reapers
<1>3. /\ ups' \in [Users -> Uploads] /\ outs' \in [Users -> Outputs]
      /\ \A v \in Users : ups'[v].files = ups[v].files
  BY <1>2, OlderDirectories DEF Tick
<1>4. timers' = {later(t) : t \in timers} /\ reapers' = {longer(r) : r \in reapers}
  BY DEF Tick
<1>5. timers' \subseteq [user : Users, what : Reports \cup {WholeDir}, left : 0..Delay]
  <2>1. ASSUME NEW n \in 0..Delay PROVE Less(n) \in 0..Delay
    BY <2>1 DEF Less
  <2>2. ASSUME NEW t \in [user : Users, what : Reports \cup {WholeDir}, left : 0..Delay]
        PROVE  later(t) \in [user : Users, what : Reports \cup {WholeDir}, left : 0..Delay]
    BY <2>1, <2>2
  <2>3. timers \subseteq [user : Users, what : Reports \cup {WholeDir}, left : 0..Delay]
    BY <1>1 DEF TypeOK
  <2> HIDE DEF later
  <2>4. QED
    BY <1>4, <2>2, <2>3
<1>6. \A r \in Reapers : longer(r) \in Reapers /\ longer(r).user = r.user /\ longer(r).targets = r.targets
  BY DEF Reapers
<1> HIDE DEF later, longer
<1>7. TypeOK'
  BY <1>1, <1>2, <1>3, <1>4, <1>5, <1>6 DEF TypeOK, Uploads, Outputs, Reapers
<1>8. InputsDoNotOutlive'
  <2> SUFFICES ASSUME NEW v \in Users, NEW p \in taken'[v], p.root = "up", There(p)'
               PROVE  \E s \in reapers' : s.user = v /\ p \in s.targets
    BY DEF InputsDoNotOutlive
  <2>1. p \in taken[v] /\ p.user \in Users
    BY <1>1, CallsCount DEF Paths
  <2>2. There(p)
    BY <1>3, <2>1 DEF There
  <2>3. PICK s \in reapers : s.user = v /\ p \in s.targets
    BY <2>1, <2>2 DEF WorkspaceInv, InputsDoNotOutlive
  <2>4. longer(s) \in reapers' /\ longer(s).user = v /\ p \in longer(s).targets
    BY <1>2, <1>4, <1>6, <2>3
  <2>5. QED
    BY <2>4
<1>9. UploadsAreNumbered'
  BY <1>1, <1>3, FewerUploads, CallsCount DEF WorkspaceInv
<1>10. RunsAreCounted' /\ OutcomeAtClose'
  BY <1>1 DEF WorkspaceInv, RunsAreCounted, OutcomeAtClose, Running
<1>11. TargetsWereTaken'
  BY <1>1, <1>2, <1>4, <1>6 DEF WorkspaceInv, TargetsWereTaken
<1>12. QED
  BY <1>7, <1>8, <1>9, <1>10, <1>11 DEF WorkspaceInv

-----------------------------------------------------------------------------
(***************************************************************************)
(* Every step preserves the invariant.                                     *)
(***************************************************************************)
LEMMA NextWorkspace == WorkspaceInv /\ [Next]_vars => WorkspaceInv'
<1> SUFFICES ASSUME WorkspaceInv, [Next]_vars PROVE WorkspaceInv'
  OBVIOUS
<1>1. ASSUME NEW u \in Users, Request(u) PROVE WorkspaceInv'
  <2>1. CASE Upload(u)
    BY <2>1, UploadStep
  <2>2. Nameable \subseteq Paths
    BY DEF Nameable
  <2>2a. CASE \E ins \in (SUBSET Nameable) \ {{}} : Accept(u, ins)
    BY <2>2, <2>2a, AcceptStep
  <2>2b. CASE \E ins \in SUBSET Nameable : Reject(u, ins)
    BY <2>2, <2>2b, RejectStep
  <2>3. CASE DownloadZip(u) \/ DownloadDir(u) \/ \E r \in Reports : DownloadReport(u, r)
    BY <2>3, DownloadStep
  <2>4. QED
    BY <1>1, <2>1, <2>2a, <2>2b, <2>3 DEF Request
<1>2. ASSUME NEW u \in Users, Worker(u) PROVE WorkspaceInv'
  BY <1>2, WorkerStep
<1>3. CASE Reaper
  BY <1>3, ReaperSeesStep, ReaperRemovesStep DEF Reaper
<1>4. CASE Timer
  BY <1>4, TimerStep DEF Timer
<1>5. CASE Sweeper
  BY <1>5, SweeperPicksStep, SweeperRemovesStep DEF Sweeper
<1>6. CASE Tick
  BY <1>6, TickStep
<1>7. CASE UNCHANGED vars
  BY <1>7 DEF vars, WorkspaceInv, TypeOK, InputsDoNotOutlive, There, UploadsAreNumbered,
              TargetsWereTaken, RunsAreCounted, OutcomeAtClose, Running
<1>8. QED
  BY <1>1, <1>2, <1>3, <1>4, <1>5, <1>6, <1>7 DEF Next

(* Whatever users, reapers, timers, sweeper and clock do, in any number and   *)
(* order: a workbook given to a run (web_run) has a reaper thread while it    *)
(* exists.                                                                    *)
THEOREM WorkspaceInvariant == Spec => []WorkspaceInv
<1>1. Init => WorkspaceInv
  BY InitWorkspace
<1>2. WorkspaceInv /\ [Next]_vars => WorkspaceInv'
  BY NextWorkspace
<1>3. QED
  BY <1>1, <1>2, PTL DEF Spec

-----------------------------------------------------------------------------
(***************************************************************************)
(* Who may delete: a step that takes a file of a user is that user's or    *)
(* the sweeper's, or the reaper's of a run that was given the file.        *)
(***************************************************************************)
LEMMA NothingLost ==
  ASSUME NEW u \in Users, ups[u].files \subseteq ups'[u].files,
         outs[u].files \subseteq outs'[u].files, outs[u].folder => outs'[u].folder
  PROVE  ~LostFolder(u) /\ \A p \in Paths : p.user = u => ~LostFile(p)
  BY DEF LostFile, LostFolder

(* Where nothing changes for a user nothing of theirs is lost.                *)
Loses(u) == LostFolder(u) \/ \E p \in Paths : p.user = u /\ LostFile(p)

LEMMA SameLoseNothing ==
  ASSUME NEW u \in Users, ups'[u] = ups[u], outs'[u] = outs[u]
  PROVE  ~Loses(u)
  BY NothingLost DEF Loses

LEMMA RequestsLose ==
  ASSUME WorkspaceInv, NEW u \in Users, Request(u), NEW v \in Users, Loses(v)
  PROVE  ActedFor(v)
<1>1. TypeOK
  BY DEF WorkspaceInv
<1>2. Call(u)
  BY DEF Request, Upload, Accept, Reject, DownloadReport, DownloadDir, DownloadZip
<1>3. calls'[u] # calls[u]
  BY <1>1, <1>2, CallStep, CallsCount
<1>4. ASSUME v # u PROVE ups'[v] = ups[v] /\ outs'[v] = outs[v]
  <2>1. ASSUME NEW ins, Purge(u, ins) PROVE ups'[v] = ups[v] /\ outs'[v] = outs[v]
    BY <1>1, <1>4, <2>1, PurgeStep
  <2>2. ups \in [Users -> Uploads] /\ outs \in [Users -> Outputs]
    BY <1>1 DEF TypeOK, Uploads, Outputs
  <2>3. CASE Upload(u)
    BY <1>4, <2>2, <2>3 DEF Upload
  <2>4. CASE DownloadZip(u)
    BY <1>4, <2>2, <2>4 DEF DownloadZip
  <2>5. CASE DownloadDir(u) \/ \E r \in Reports : DownloadReport(u, r)
    BY <2>5 DEF DownloadDir, DownloadReport
  <2>6. CASE \/ \E ins \in (SUBSET Nameable) \ {{}} : Accept(u, ins)
             \/ \E ins \in SUBSET Nameable : Reject(u, ins)
    BY <2>1, <2>6 DEF Accept, Reject
  <2>7. QED
    BY <2>3, <2>4, <2>5, <2>6 DEF Request
<1>5. v = u
  BY <1>4, SameLoseNothing
<1>6. QED
  BY <1>3, <1>5 DEF ActedFor

LEMMA WorkersLoseNothing ==
  ASSUME WorkspaceInv, NEW u \in Users, Worker(u), NEW v \in Users
  PROVE  ~Loses(v)
<1>1. outs \in [Users -> Outputs] /\ ups' = ups
  BY DEF WorkspaceInv, TypeOK, Outputs, Worker, OpenFolder, WriteReports, Fail, Announce, End
<1>2. outs[v].files \subseteq outs'[v].files /\ (outs[v].folder => outs'[v].folder)
  <2>1. ASSUME NEW i \in job[u].todo, OpenFolder(u, i)
        PROVE  outs[v].files \subseteq outs'[v].files /\ (outs[v].folder => outs'[v].folder)
    <3>1. outs' = [outs EXCEPT ![u] = WithFolder(@)]
      BY <2>1 DEF OpenFolder
    <3>2. QED
      BY <1>1, <3>1, WithFolderOutputs
  <2>2. CASE WriteReports(u)
    BY <1>1, <2>2 DEF WriteReports, Outputs
  <2>3. CASE Fail(u) \/ Announce(u) \/ End(u)
    BY <2>3 DEF Fail, Announce, End
  <2>4. QED
    BY <2>1, <2>2, <2>3 DEF Worker
<1>3. QED
  BY <1>1, <1>2, NothingLost DEF Loses

(* A reaper that removes is not the thread it was, a target less or gone; and *)
(* what it takes is a file its own user named to a run.                       *)
LEMMA ReapersLose ==
  ASSUME WorkspaceInv, Reaper, NEW v \in Users
  PROVE  /\ ~LostFolder(v)
         /\ \A p \in Paths : p.user = v /\ LostFile(p) => ReapedByName(p)
<1>1. PICK r \in reapers : ReaperSees(r) \/ ReaperRemoves(r)
  BY DEF Reaper
<1>2. CASE ReaperSees(r)
  BY <1>2, SameLoseNothing DEF ReaperSees, Loses
<1>3. CASE ReaperRemoves(r)
  <2>1. reapers \subseteq Reapers /\ ups \in [Users -> Uploads] /\ outs \in [Users -> Outputs]
    BY DEF WorkspaceInv, TypeOK, Reapers, Uploads, Outputs
  <2>2. PICK q \in r.targets :
          /\ IF q.root = "up"
             THEN ups' = [ups EXCEPT ![q.user] = Without(@, q.n)] /\ UNCHANGED outs
             ELSE outs' = [outs EXCEPT ![q.user] = WithoutReport(@, q.n)] /\ UNCHANGED ups
          /\ reapers' = (reapers \ {r}) \cup
               (IF r.targets = {q} THEN {} ELSE {[r EXCEPT !.targets = @ \ {q}]})
    BY <1>3 DEF ReaperRemoves
  <2>3. q \in Paths /\ q.user \in Users /\ r.user \in Users
    BY <2>1 DEF Reapers, Paths
  <2>4. r \notin reapers'
    <3>1. [r EXCEPT !.targets = @ \ {q}] # r
      BY <2>1 DEF Reapers
    <3>2. QED
      BY <2>2, <3>1
  <2>5. ReapedByName(q)
    <3>1. q \in taken[r.user]
      BY DEF WorkspaceInv, TargetsWereTaken
    <3>2. Mine(reapers', r.user) # Mine(reapers, r.user)
      BY <2>4 DEF Mine
    <3>3. QED
      BY <2>3, <3>1, <3>2 DEF ReapedByName
  <2>6. ~LostFolder(v) /\ \A p \in Paths : p.user = v /\ LostFile(p) => p = q
    <3>1. CASE q.root = "up"
      <4>1. outs' = outs /\ ups' = [ups EXCEPT ![q.user] = Without(ups[q.user], q.n)]
        BY <2>2, <3>1
      <4>2. Without(ups[q.user], q.n).files = ups[q.user].files \ {q.n}
        BY <2>1, <2>3, WithoutUploads
      <4>3. ASSUME NEW p \in Paths, p.user = v, LostFile(p)
            PROVE  p.root = "up" /\ p.user = q.user /\ p.n = q.n
        <5>1. p.root = "up"
          BY <4>1, <4>3 DEF LostFile
        <5>2. p.n \in ups[v].files /\ p.n \notin ups'[v].files
          BY <4>3, <5>1 DEF LostFile
        <5>3. QED
          BY <2>1, <2>3, <4>1, <4>2, <4>3, <5>1, <5>2
      <4>4. QED
        BY <2>3, <3>1, <4>1, <4>3 DEF Paths, LostFolder
    <3>2. CASE q.root # "up"
      <4>1. ups' = ups /\ outs' = [outs EXCEPT ![q.user] = WithoutReport(outs[q.user], q.n)]
        BY <2>2, <3>2
      <4>2. /\ WithoutReport(outs[q.user], q.n).files = outs[q.user].files \ {q.n}
            /\ WithoutReport(outs[q.user], q.n).folder = outs[q.user].folder
        BY <2>1, <2>3, WithoutReportOutputs
      <4>3. ASSUME NEW p \in Paths, p.user = v, LostFile(p)
            PROVE  p.root # "up" /\ p.user = q.user /\ p.n = q.n
        <5>1. p.root # "up"
          BY <4>1, <4>3 DEF LostFile
        <5>2. p.n \in outs[v].files /\ p.n \notin outs'[v].files
          BY <4>3, <5>1 DEF LostFile
        <5>3. QED
          BY <2>1, <2>3, <4>1, <4>2, <4>3, <5>1, <5>2
      <4>4. outs'[v].folder = outs[v].folder
        BY <2>1, <2>3, <4>1, <4>2
      <4>5. QED
        BY <2>3, <3>2, <4>3, <4>4 DEF Paths, LostFolder
    <3>3. QED
      BY <3>1, <3>2
  <2>7. QED
    BY <2>5, <2>6
<1>4. QED
  BY <1>1, <1>2, <1>3

LEMMA TimersLose ==
  ASSUME WorkspaceInv, Timer, NEW v \in Users, Loses(v)
  PROVE  ActedFor(v)
<1>1. PICK t \in timers : TimerFires(t)
  BY DEF Timer
<1>2. ups' = ups /\ timers' = timers \ {t} /\ outs \in [Users -> Outputs]
  BY <1>1 DEF TimerFires, WorkspaceInv, TypeOK, Outputs
<1>3. ASSUME t.user # v PROVE outs'[v] = outs[v]
  BY <1>1, <1>2, <1>3 DEF TimerFires
<1>4. t.user = v
  BY <1>2, <1>3, SameLoseNothing
<1>5. QED
  BY <1>1, <1>2, <1>4 DEF ActedFor, Mine

LEMMA SweeperLoses ==
  ASSUME WorkspaceInv, Sweeper, NEW v \in Users, Loses(v)
  PROVE  ActedFor(v)
<1>1. CASE \E root \in {"up", "out"}, u \in Users : SweeperPicks(root, u)
  BY <1>1, SameLoseNothing DEF SweeperPicks
<1>2. CASE SweeperRemoves
  <2>1. gc # Nothing /\ ups \in [Users -> Uploads] /\ outs \in [Users -> Outputs]
    BY <1>2 DEF SweeperRemoves, WorkspaceInv, TypeOK, Uploads, Outputs
  <2>2. ASSUME gc.user # v PROVE ups'[v] = ups[v] /\ outs'[v] = outs[v]
    BY <1>2, <2>1, <2>2 DEF SweeperRemoves
  <2>3. QED
    BY <2>1, <2>2, SameLoseNothing DEF ActedFor
<1>3. QED
  BY <1>1, <1>2 DEF Sweeper

LEMMA TickLosesNothing ==
  ASSUME WorkspaceInv, Tick, NEW v \in Users
  PROVE  ~Loses(v)
<1>1. ups \in [Users -> Uploads] /\ outs \in [Users -> Outputs]
  BY DEF WorkspaceInv, TypeOK, Uploads, Outputs
<1>2. ups'[v] = Older(ups[v]) /\ outs'[v] = Older(outs[v])
  BY DEF Tick
<1>3. QED
  BY <1>1, <1>2, OlderDirectories, NothingLost DEF Loses

(* _user_dirs keeps purges, downloads, timers and refused runs inside their    *)
(* user's two directories.  An accepted run reaches further, to the paths it   *)
(* was given and no others: for any number of users and requests.              *)
THEOREM FilesAreNamedOrOwn == Spec => NamedOrOwn
<1>1. ASSUME WorkspaceInv, Next
      PROVE  /\ \A p \in Paths : LostFile(p) => ActedFor(p.user) \/ ReapedByName(p)
             /\ \A u \in Users : LostFolder(u) => ActedFor(u)
  <2>1. \A p \in Paths : p.user \in Users
    BY DEF Paths
  <2>2. CASE Reaper
    BY <1>1, <2>1, <2>2, ReapersLose
  <2>3. CASE ~Reaper
    <3>1. ASSUME NEW v \in Users, Loses(v) PROVE ActedFor(v)
      BY <1>1, <2>3, <3>1, RequestsLose, WorkersLoseNothing, TimersLose, SweeperLoses,
         TickLosesNothing DEF Next
    <3>2. QED
      BY <2>1, <3>1 DEF Loses
  <2>4. QED
    BY <2>2, <2>3
<1>2. WorkspaceInv /\ [Next]_vars =>
        [/\ \A p \in Paths : LostFile(p) => ActedFor(p.user) \/ ReapedByName(p)
         /\ \A u \in Users : LostFolder(u) => ActedFor(u)]_vars
  BY <1>1
<1>3. QED
  BY <1>2, WorkspaceInvariant, PTL DEF Spec, NamedOrOwn


-----------------------------------------------------------------------------
(***************************************************************************)
(* The refinement: an accepted request is Start, the end of the loop over   *)
(* the inputs or an exception is Announce, the flag going down is End.      *)
(***************************************************************************)
LEMMA RefInit == Init => Lifecycle!Init
<1> SUFFICES ASSUME Init PROVE Lifecycle!Init
  OBVIOUS
<1>1. \A u \in Users : ~Running(u) /\ job[u].outcome = "none"
  BY DEF Init, NoJob, Running
<1>2. runs = [u \in Users |-> 0]
  BY DEF Init
<1>3. [u \in Users |-> Running(u)] = [u \in Users |-> FALSE]
  <2> DEFINE flag(u) == Running(u)
  <2>1. \A u \in Users : flag(u) = FALSE
    BY <1>1
  <2> HIDE DEF flag
  <2>2. [u \in Users |-> flag(u)] = [u \in Users |-> FALSE]
    BY <2>1
  <2>3. QED
    BY <2>2 DEF flag
<1>4. [u \in Users |-> job[u].outcome] = [u \in Users |-> "none"]
  BY <1>1
<1>5. QED
  BY <1>2, <1>3, <1>4 DEF Lifecycle!Init, Lifecycle!None

LEMMA RefStutter ==
  ASSUME runs' = runs,
         \A u \in Users : /\ (job'[u].pc # "idle") = (job[u].pc # "idle")
                          /\ job'[u].outcome = job[u].outcome
  PROVE  UNCHANGED Lifecycle!lifecycleVars
<1>1. [u \in Users |-> Running(u)]' = [u \in Users |-> Running(u)]
  BY DEF Running
<1>2. [u \in Users |-> job[u].outcome]' = [u \in Users |-> job[u].outcome]
  OBVIOUS
<1>3. QED
  BY <1>1, <1>2 DEF Lifecycle!lifecycleVars

LEMMA RefAccept ==
  ASSUME WorkspaceInv, NEW u \in Users, NEW ins, Accept(u, ins)
  PROVE  Lifecycle!Next
<1>1. job \in [Users -> JobShape] /\ runs \in [Users -> 0..MaxCalls]
  BY DEF WorkspaceInv, TypeOK, JobShape
<1>2. /\ ~Running(u)
      /\ runs' = [runs EXCEPT ![u] = @ + 1]
      /\ job' = [job EXCEPT ![u] = [NoJob EXCEPT !.pc = "open", !.todo = ins]]
  BY DEF Accept
<1>3. /\ job'[u].pc = "open" /\ job'[u].outcome = "none"
      /\ \A v \in Users \ {u} : job'[v] = job[v]
  BY <1>1, <1>2 DEF NoJob
<1>4. [v \in Users |-> Running(v)]' = [[v \in Users |-> Running(v)] EXCEPT ![u] = TRUE]
  BY <1>3 DEF Running
<1>5. [v \in Users |-> job[v].outcome]' = [[v \in Users |-> job[v].outcome] EXCEPT ![u] = "none"]
  BY <1>3
<1>6. Lifecycle!Start(u)
  BY <1>2, <1>4, <1>5 DEF Lifecycle!Start, Lifecycle!None
<1>7. QED
  BY <1>6 DEF Lifecycle!Next

LEMMA RefAnnounce ==
  ASSUME WorkspaceInv, NEW u \in Users, Fail(u) \/ Announce(u)
  PROVE  Lifecycle!Next
<1>1. job \in [Users -> JobShape] /\ runs' = runs
  BY DEF WorkspaceInv, TypeOK, JobShape, Fail, Announce
<1>2. Running(u) /\ job[u].outcome = "none"
  BY DEF WorkspaceInv, OutcomeAtClose, Running, Fail, Announce
<1>3. PICK o \in {"success", "failed"} :
        job' = [job EXCEPT ![u] = [job[u] EXCEPT !.pc = "close", !.outcome = o]]
  BY DEF Fail, Announce
<1>4. /\ job'[u].pc = "close" /\ job'[u].outcome = o
      /\ \A v \in Users \ {u} : job'[v] = job[v]
  BY <1>1, <1>3 DEF JobShape
<1>5. [v \in Users |-> Running(v)]' = [v \in Users |-> Running(v)]
  BY <1>2, <1>4 DEF Running
<1>6. [v \in Users |-> job[v].outcome]' = [[v \in Users |-> job[v].outcome] EXCEPT ![u] = o]
  BY <1>4
<1>7. Lifecycle!Announce(u)
  BY <1>1, <1>2, <1>5, <1>6 DEF Lifecycle!Announce, Lifecycle!None, Lifecycle!Outcomes
<1>8. QED
  BY <1>7 DEF Lifecycle!Next

LEMMA RefEnd ==
  ASSUME WorkspaceInv, NEW u \in Users, End(u)
  PROVE  Lifecycle!Next
<1>1. job \in [Users -> JobShape] /\ runs' = runs
  BY DEF WorkspaceInv, TypeOK, JobShape, End
<1>2. Running(u) /\ job[u].outcome # "none"
  BY DEF WorkspaceInv, OutcomeAtClose, Running, End
<1>3. job' = [job EXCEPT ![u] = [job[u] EXCEPT !.pc = "idle", !.todo = {}]]
  BY DEF End
<1>4. /\ job'[u].pc = "idle" /\ job'[u].outcome = job[u].outcome
      /\ \A v \in Users \ {u} : job'[v] = job[v]
  BY <1>1, <1>3 DEF JobShape
<1>5. [v \in Users |-> Running(v)]' = [[v \in Users |-> Running(v)] EXCEPT ![u] = FALSE]
  BY <1>4 DEF Running
<1>6. [v \in Users |-> job[v].outcome]' = [v \in Users |-> job[v].outcome]
  BY <1>4
<1>7. Lifecycle!End(u)
  BY <1>1, <1>2, <1>5, <1>6 DEF Lifecycle!End, Lifecycle!None
<1>8. QED
  BY <1>7 DEF Lifecycle!Next

(* Folders and reports are not part of what the lifecycle shows.              *)
LEMMA RefWrite ==
  ASSUME WorkspaceInv, NEW u \in Users, WriteReports(u) \/ \E i \in job[u].todo : OpenFolder(u, i)
  PROVE  UNCHANGED Lifecycle!lifecycleVars
<1>1. job \in [Users -> JobShape] /\ runs' = runs /\ job[u].pc \in {"open", "write"}
  BY DEF WorkspaceInv, TypeOK, JobShape, WriteReports, OpenFolder
<1>2. \E new \in JobShape : /\ job' = [job EXCEPT ![u] = new]
                            /\ new.pc \in {"open", "write"} /\ new.outcome = job[u].outcome
  <2>1. ASSUME NEW i \in job[u].todo, OpenFolder(u, i)
        PROVE  \E new \in JobShape : /\ job' = [job EXCEPT ![u] = new]
                                     /\ new.pc \in {"open", "write"} /\ new.outcome = job[u].outcome
    <3> DEFINE new == [job[u] EXCEPT !.pc = "write", !.cur = i]
    <3>1. new \in JobShape /\ new.pc = "write" /\ new.outcome = job[u].outcome
      BY <1>1 DEF JobShape
    <3>2. job' = [job EXCEPT ![u] = new]
      BY <2>1 DEF OpenFolder
    <3> HIDE DEF new
    <3>3. QED
      BY <3>1, <3>2
  <2>2. ASSUME WriteReports(u)
        PROVE  \E new \in JobShape : /\ job' = [job EXCEPT ![u] = new]
                                     /\ new.pc \in {"open", "write"} /\ new.outcome = job[u].outcome
    <3> DEFINE new == [job[u] EXCEPT !.pc = "open", !.todo = @ \ {job[u].cur}]
    <3>1. new \in JobShape /\ new.pc = "open" /\ new.outcome = job[u].outcome
      BY <1>1 DEF JobShape
    <3>2. job' = [job EXCEPT ![u] = new]
      BY <2>2 DEF WriteReports
    <3> HIDE DEF new
    <3>3. QED
      BY <3>1, <3>2
  <2>3. QED
    BY <2>1, <2>2
<1>3. \A v \in Users : /\ (job'[v].pc # "idle") = (job[v].pc # "idle")
                       /\ job'[v].outcome = job[v].outcome
  BY <1>1, <1>2
<1>4. QED
  BY <1>1, <1>3, RefStutter

LEMMA RefStep ==
  ASSUME WorkspaceInv, [Next]_vars
  PROVE  [Lifecycle!Next]_(Lifecycle!lifecycleVars)
<1>1. ASSUME UNCHANGED <<job, runs>> PROVE UNCHANGED Lifecycle!lifecycleVars
  BY <1>1, RefStutter
<1>2. ASSUME NEW u \in Users, Request(u) PROVE [Lifecycle!Next]_(Lifecycle!lifecycleVars)
  <2>1. CASE \E ins \in (SUBSET Nameable) \ {{}} : Accept(u, ins)
    BY <2>1, RefAccept
  <2>2. CASE \/ Upload(u) \/ DownloadDir(u) \/ DownloadZip(u)
             \/ \E ins \in SUBSET Nameable : Reject(u, ins)
             \/ \E r \in Reports : DownloadReport(u, r)
    BY <1>1, <2>2 DEF Upload, DownloadDir, DownloadZip, Reject, DownloadReport
  <2>3. QED
    BY <1>2, <2>1, <2>2 DEF Request
<1>3. ASSUME NEW u \in Users, Worker(u) PROVE [Lifecycle!Next]_(Lifecycle!lifecycleVars)
  BY <1>3, RefWrite, RefAnnounce, RefEnd DEF Worker
<1>4. CASE Reaper \/ Timer \/ Sweeper \/ Tick \/ UNCHANGED vars
  <2>1. UNCHANGED <<job, runs>>
    BY <1>4 DEF Reaper, ReaperSees, ReaperRemoves, Timer, TimerFires, Sweeper, SweeperPicks,
                SweeperRemoves, Tick, vars
  <2>2. QED
    BY <1>1, <2>1
<1>5. QED
  BY <1>2, <1>3, <1>4 DEF Next

(* The job the workspace sees, its files reaped, served and swept around it,   *)
(* keeps to the lifecycle that JobSession is shown to implement.               *)
THEOREM LifecycleKept == Spec => KeepsLifecycle
<1>1. Init => Lifecycle!Init
  BY RefInit
<1>2. WorkspaceInv /\ [Next]_vars => [Lifecycle!Next]_(Lifecycle!lifecycleVars)
  BY RefStep
<1>3. QED
  BY <1>1, <1>2, WorkspaceInvariant, PTL DEF Spec, KeepsLifecycle, Lifecycle!Spec

=============================================================================
