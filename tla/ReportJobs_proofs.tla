------------------------- MODULE ReportJobs_proofs -------------------------
(***************************************************************************)
(* Proofs about ReportJobs, for any jobs, downloads and restarts.          *)
(***************************************************************************)
EXTENDS ReportJobs, TLAPS

USE ReportAssumption

FileShape == [is : Contents, age : 0..Expired]
RowShape == [st : {"none", "queued", "done", "error"}, age : 0..Expired]
SweepShape == [pc : {"sleep", "look", "shred", "unlink"}, todo : SUBSET Files, cur : Files \cup {Idle}]

LEMMA FileNames ==
  /\ \A j \in Jobs, k \in Kinds : <<j, k>> \in Files
  /\ \A i, j \in Jobs, k, l \in Kinds : <<i, k>> = <<j, l>> => i = j /\ k = l
  /\ \A f \in Files : f[1] \in Jobs /\ f[2] \in Kinds /\ f = <<f[1], f[2]>>
  /\ {"src", "pdf", "out", "final"} \subseteq Kinds
  BY DEF Files, Kinds

LEMMA WriteStep ==
  ASSUME TypeOK, NEW f \in Files, NEW x \in Contents, Write(f, x)
  PROVE  /\ file' \in [Files -> FileShape] /\ file'[f].is = x
         /\ \A g \in Files \ {f} : file'[g] = file[g]
<1> DEFINE new == [is |-> x, age |-> 0]
<1>1. file \in [Files -> FileShape]
  BY DEF TypeOK, FileShape
<1>2. new \in FileShape /\ new.is = x
  BY DEF FileShape
<1>3. file' = [file EXCEPT ![f] = new]
  BY DEF Write
<1> HIDE DEF new
<1>4. QED
  BY <1>1, <1>2, <1>3

LEMMA RemoveStep ==
  ASSUME TypeOK, NEW f \in Files, Remove(f)
  PROVE  /\ file' \in [Files -> FileShape] /\ file'[f].is = "gone"
         /\ \A g \in Files \ {f} : file'[g] = file[g]
<1> DEFINE new == [file[f] EXCEPT !.is = "gone"]
<1>1. file \in [Files -> FileShape]
  BY DEF TypeOK, FileShape
<1>2. new \in FileShape /\ new.is = "gone"
  BY <1>1 DEF FileShape, Contents
<1>3. file' = [file EXCEPT ![f] = new]
  BY DEF Remove
<1> HIDE DEF new
<1>4. QED
  BY <1>1, <1>2, <1>3

(* A step that leaves all workbooks alone, and the sweep's hold on them.      *)
LEMMA SameWorkbooks ==
  ASSUME \A j \in Jobs : file'[<<j, "out">>].is = file[<<j, "out">>].is,
         sweep' = sweep \/ sweep.cur = Idle, crashes' = crashes, NEW j \in Jobs, Finished(j)
  PROVE  Finished(j)'
<1>1. Idle # <<j, "out">>
  BY DEF Idle, None
<1>2. QED
  BY <1>1 DEF Finished

LEMMA InitReport == Init => ReportInv
<1> SUFFICES ASSUME Init PROVE ReportInv
  OBVIOUS
<1>1. TypeOK
  BY DEF Init, TypeOK, Contents, Asleep, Idle
<1>2. PdfGoesWithItsJob /\ FreshUntilAccepted /\ SweepHoldsOne /\ FinishedStays
  BY DEF Init, PdfGoesWithItsJob, FreshUntilAccepted, SweepHoldsOne, FinishedStays, Announced,
         Asleep, Idle, None
<1>3. QED
  BY <1>1, <1>2 DEF ReportInv

-----------------------------------------------------------------------------
(* The requests. *)
LEMMA UploadFilesStep ==
  ASSUME ReportInv, NEW j \in Jobs, NEW pdf \in BOOLEAN, UploadFiles(j, pdf)
  PROVE  ReportInv'
<1>1. TypeOK /\ page[j] = "new" /\ req' = <<"upload", j>> /\ page' = [page EXCEPT ![j] = "sending"]
      /\ UNCHANGED <<row, jobs, wrk, fetched, timers, sweep, dir, crashes>>
  BY DEF ReportInv, UploadFiles
<1>2. /\ file' \in [Files -> FileShape]
      /\ \A f \in Files : f \notin {<<j, "src">>, <<j, "pdf">>} => file'[f] = file[f]
  <2>1. [is |-> "whole", age |-> 0] \in FileShape /\ file \in [Files -> FileShape]
    BY <1>1 DEF FileShape, Contents, TypeOK
  <2> DEFINE written == [is |-> "whole", age |-> 0]
  <2>2. file' = [f \in Files |-> IF f = <<j, "src">> \/ (pdf /\ f = <<j, "pdf">>) THEN written ELSE file[f]]
    BY DEF UploadFiles
  <2> HIDE DEF written
  <2>3. QED
    BY <2>1, <2>2 DEF written
<1>3. TypeOK'
  BY <1>1, <1>2 DEF TypeOK, FileShape
<1>4. wrk[j] = "idle" /\ ~Announced(j)
  BY <1>1 DEF ReportInv, FreshUntilAccepted
<1>5. PdfGoesWithItsJob'
  BY <1>1, <1>2, <1>4, FileNames DEF ReportInv, PdfGoesWithItsJob, OnDisk
<1>6. FreshUntilAccepted'
  BY <1>1, <1>4 DEF ReportInv, FreshUntilAccepted, Announced, TypeOK
<1>7. SweepHoldsOne' /\ FinishedStays'
  BY <1>1, <1>2, <1>4, FileNames, SameWorkbooks DEF ReportInv, SweepHoldsOne, FinishedStays, Announced, TypeOK
<1>8. QED
  BY <1>3, <1>5, <1>6, <1>7 DEF ReportInv

LEMMA UploadAcceptStep ==
  ASSUME ReportInv, NEW j \in Jobs, UploadAccept(j)
  PROVE  ReportInv'
<1>1. TypeOK /\ req = <<"upload", j>> /\ req' = Idle
      /\ row' = [row EXCEPT ![j] = [st |-> "queued", age |-> 0]]
      /\ wrk' = [wrk EXCEPT ![j] = "begin"] /\ page' = [page EXCEPT ![j] = "polling"]
      /\ UNCHANGED <<file, jobs, fetched, timers, sweep, dir, crashes>>
  BY DEF ReportInv, UploadAccept
<1>2. page[j] = "sending" /\ ~Announced(j)
  BY <1>1 DEF ReportInv, FreshUntilAccepted
<1>3. row' \in [Jobs -> RowShape] /\ row'[j].st = "queued" /\ \A i \in Jobs \ {j} : row'[i] = row[i]
  BY <1>1 DEF TypeOK, RowShape
<1>4. TypeOK'
  BY <1>1, <1>3 DEF TypeOK, RowShape
<1>5. ~Announced(j)' /\ \A i \in Jobs \ {j} : Announced(i)' = Announced(i)
  BY <1>1, <1>2, <1>3 DEF Announced, TypeOK
<1>6. PdfGoesWithItsJob'
  BY <1>1 DEF ReportInv, PdfGoesWithItsJob, OnDisk, TypeOK
<1>7. FreshUntilAccepted' /\ SweepHoldsOne'
  BY <1>1, <1>5 DEF ReportInv, FreshUntilAccepted, SweepHoldsOne, TypeOK, Idle, None
<1>8. FinishedStays'
  <2>1. \A i \in Jobs : Finished(i)' = Finished(i)
    BY <1>1 DEF Finished
  <2>2. wrk'[j] = "begin" /\ \A i \in Jobs \ {j} : wrk'[i] = wrk[i]
    BY <1>1 DEF TypeOK
  <2>3. QED
    BY <1>5, <2>1, <2>2 DEF ReportInv, FinishedStays
<1>9. QED
  BY <1>4, <1>6, <1>7, <1>8 DEF ReportInv

(* A step that tells a page something, or serves a file, and nothing else.    *)
LEMMA ServeStep ==
  ASSUME ReportInv, TypeOK', UNCHANGED <<file, row, jobs, wrk, sweep, crashes>>,
         \A i \in Jobs : \/ page'[i] = page[i]
                         \/ /\ page'[i] \in {"polling", "done", "failed", "left"}
                            /\ page'[i] = "done" => Announced(i),
         \A i \in Jobs : req' = <<"upload", i>> => req = <<"upload", i>> /\ page'[i] = page[i]
  PROVE  ReportInv'
<1>1. \A i \in Jobs : Announced(i)' => Announced(i)
  BY DEF Announced
<1>2. PdfGoesWithItsJob' /\ SweepHoldsOne'
  BY DEF ReportInv, PdfGoesWithItsJob, OnDisk, SweepHoldsOne
<1>3. FreshUntilAccepted'
  BY <1>1 DEF ReportInv, FreshUntilAccepted
<1>4. FinishedStays'
  BY <1>1 DEF ReportInv, FinishedStays, Finished
<1>5. QED
  BY <1>2, <1>3, <1>4 DEF ReportInv

LEMMA RequestStep ==
  ASSUME ReportInv, NEW j \in Jobs,
         \/ UploadRefused(j) \/ Poll(j) \/ GiveUp(j) \/ Download(j) \/ \E k \in Kinds : Send(j, k)
  PROVE  ReportInv'
<1>1. TypeOK /\ FreshUntilAccepted
  BY DEF ReportInv
<1>2. Idle \in {Idle} /\ \A i \in Jobs : Idle # <<"upload", i>> /\ <<"out", j>> # <<"upload", i>>
  BY DEF Idle, None
<1>3. CASE UploadRefused(j)
  <2>1. page' = [page EXCEPT ![j] = "failed"] /\ req' = Idle
        /\ UNCHANGED <<file, row, jobs, wrk, fetched, timers, sweep, dir, crashes>>
    BY <1>3 DEF UploadRefused
  <2>2. TypeOK'
    BY <1>1, <2>1 DEF TypeOK
  <2>3. QED
    BY <1>1, <1>2, <2>1, <2>2, ServeStep DEF TypeOK
<1>4. CASE GiveUp(j)
  <2>1. page' = [page EXCEPT ![j] = "left"] /\ page[j] = "polling"
        /\ UNCHANGED <<file, row, jobs, wrk, req, fetched, timers, sweep, dir, crashes>>
    BY <1>4 DEF GiveUp
  <2>2. TypeOK'
    BY <1>1, <2>1 DEF TypeOK
  <2>3. \A i \in Jobs : req = <<"upload", i>> => i # j
    BY <1>1, <2>1 DEF FreshUntilAccepted
  <2>4. QED
    BY <1>1, <2>1, <2>2, <2>3, ServeStep DEF TypeOK
<1>5. CASE Poll(j)
  <2> DEFINE told == CASE Answer(j) = "processing" -> "polling"
                       [] Answer(j) = "done" -> "done"
                       [] OTHER -> "failed"
  <2>1. page' = [page EXCEPT ![j] = told] /\ req = Idle
        /\ UNCHANGED <<file, row, jobs, wrk, req, fetched, timers, sweep, dir, crashes>>
    BY <1>5 DEF Poll
  <2>2. told \in {"polling", "done", "failed"} /\ (told = "done" => Answer(j) = "done")
    OBVIOUS
  <2> HIDE DEF told
  <2>3. Answer(j) = "done" => Announced(j)
    BY <1>1 DEF Answer, Announced, TypeOK
  <2>4. TypeOK'
    BY <1>1, <2>1, <2>2 DEF TypeOK
  <2>5. \A i \in Jobs : \/ page'[i] = page[i]
                        \/ /\ page'[i] \in {"polling", "done", "failed", "left"}
                           /\ page'[i] = "done" => Announced(i)
    BY <1>1, <2>1, <2>2, <2>3 DEF TypeOK
  <2>6. QED
    BY <1>2, <2>1, <2>4, <2>5, ServeStep
<1>6. CASE Download(j)
  <2>1. /\ fetched' = [fetched EXCEPT ![j] = @ + 1] /\ fetched[j] < MaxDownloads
        /\ req' \in {<<"out", j>>, Idle}
        /\ UNCHANGED <<file, row, jobs, wrk, page, timers, sweep, dir, crashes>>
    BY <1>6 DEF Download
  <2>2. fetched' \in [Jobs -> 0..MaxDownloads]
    BY <1>1, <2>1 DEF TypeOK
  <2>3. TypeOK'
    BY <1>1, <2>1, <2>2 DEF TypeOK
  <2>4. QED
    BY <1>2, <2>1, <2>3, ServeStep
<1>7. CASE \E k \in Kinds : Send(j, k)
  <2>1. req' = Idle /\ UNCHANGED <<file, row, jobs, wrk, page, fetched, timers, sweep, dir, crashes>>
    BY <1>7 DEF Send
  <2>2. TypeOK'
    BY <1>1, <2>1 DEF TypeOK
  <2>3. QED
    BY <1>2, <2>1, <2>2, ServeStep
<1>8. QED
  BY <1>3, <1>4, <1>5, <1>6, <1>7

LEMMA DownloadEditedStep ==
  ASSUME ReportInv, NEW j \in Jobs, DownloadEdited(j)
  PROVE  ReportInv'
<1>1. TypeOK /\ <<j, "final">> \in Files /\ "whole" \in Contents
  BY FileNames DEF ReportInv, Contents
<1>2. /\ fetched[j] < MaxDownloads /\ fetched' = [fetched EXCEPT ![j] = @ + 1]
      /\ Write(<<j, "final">>, "whole") /\ timers' = timers \cup {<<j, fetched[j] + 1>>}
      /\ req' = <<"final", j>>
      /\ UNCHANGED <<row, jobs, wrk, page, sweep, dir, crashes>>
  BY DEF DownloadEdited
<1>3. file' \in [Files -> FileShape] /\ \A g \in Files \ {<<j, "final">>} : file'[g] = file[g]
  BY <1>1, <1>2, WriteStep
<1>4. fetched' \in [Jobs -> 0..MaxDownloads] /\ fetched[j] + 1 \in 1..MaxDownloads
  BY <1>1, <1>2 DEF TypeOK
<1>5. TypeOK'
  BY <1>1, <1>2, <1>3, <1>4 DEF TypeOK, FileShape
<1>6. \A i \in Jobs : file'[<<i, "out">>] = file[<<i, "out">>] /\ file'[<<i, "pdf">>] = file[<<i, "pdf">>]
  BY <1>3, FileNames
<1>7. PdfGoesWithItsJob'
  BY <1>2, <1>6 DEF ReportInv, PdfGoesWithItsJob, OnDisk
<1>8. FreshUntilAccepted' /\ SweepHoldsOne'
  BY <1>2 DEF ReportInv, FreshUntilAccepted, SweepHoldsOne, Announced
<1>9. FinishedStays'
  BY <1>2, <1>6, SameWorkbooks DEF ReportInv, FinishedStays, Announced
<1>10. QED
  BY <1>5, <1>7, <1>8, <1>9 DEF ReportInv

-----------------------------------------------------------------------------
(***************************************************************************)
(* The worker of one job.                                                  *)
(***************************************************************************)
LEMMA BeginStep ==
  ASSUME ReportInv, NEW j \in Jobs, Begin(j)
  PROVE  ReportInv'
<1>1. TypeOK /\ wrk[j] = "begin" /\ jobs' = [jobs EXCEPT ![j] = "processing"]
      /\ wrk' = [wrk EXCEPT ![j] = "validate"]
      /\ UNCHANGED <<file, row, page, req, fetched, timers, sweep, dir, crashes>>
  BY DEF ReportInv, Begin
<1>2. TypeOK'
  BY <1>1 DEF TypeOK
<1>3. ~Announced(j) /\ page[j] \notin {"new", "sending"}
  BY <1>1 DEF ReportInv, FinishedStays, FreshUntilAccepted
<1>4. ~Announced(j)' /\ \A i \in Jobs \ {j} : Announced(i)' = Announced(i)
  BY <1>1, <1>3 DEF Announced, TypeOK
<1>5. PdfGoesWithItsJob' /\ SweepHoldsOne'
  BY <1>1 DEF ReportInv, PdfGoesWithItsJob, OnDisk, SweepHoldsOne, TypeOK
<1>6. FreshUntilAccepted'
  BY <1>1, <1>3, <1>4 DEF ReportInv, FreshUntilAccepted, TypeOK
<1>7. FinishedStays'
  <2>1. \A i \in Jobs : Finished(i)' = Finished(i)
    BY <1>1 DEF Finished
  <2>2. wrk'[j] = "validate" /\ \A i \in Jobs \ {j} : wrk'[i] = wrk[i]
    BY <1>1 DEF TypeOK
  <2>3. QED
    BY <1>4, <2>1, <2>2 DEF ReportInv, FinishedStays
<1>8. QED
  BY <1>2, <1>5, <1>6, <1>7 DEF ReportInv

(* Only a workbook that was never announced is written.                       *)
LEMMA SaveStep ==
  ASSUME ReportInv, NEW j \in Jobs, StartSave(j) \/ Saved(j)
  PROVE  ReportInv'
<1>1. TypeOK /\ <<j, "out">> \in Files /\ "part" \in Contents /\ "whole" \in Contents
      /\ wrk[j] \in {"validate", "save"}
      /\ UNCHANGED <<row, jobs, page, req, fetched, timers, sweep, dir, crashes>>
  BY FileNames DEF ReportInv, Contents, StartSave, Saved
<1>2. PICK x \in {"part", "whole"}, w \in {"save", "tell"} :
        /\ Write(<<j, "out">>, x) /\ wrk' = [wrk EXCEPT ![j] = w]
        /\ w = "tell" => x = "whole"
  BY DEF StartSave, Saved
<1>3. /\ file' \in [Files -> FileShape] /\ file'[<<j, "out">>].is = x
      /\ \A g \in Files \ {<<j, "out">>} : file'[g] = file[g]
  BY <1>1, <1>2, WriteStep
<1>4. TypeOK'
  BY <1>1, <1>2, <1>3 DEF TypeOK, FileShape
<1>5. ~Announced(j) /\ page[j] \notin {"new", "sending"}
  BY <1>1 DEF ReportInv, FinishedStays, FreshUntilAccepted
<1>6. wrk'[j] = w /\ \A i \in Jobs \ {j} : wrk'[i] = wrk[i]
  BY <1>1, <1>2 DEF TypeOK
<1>7. \A i \in Jobs : Announced(i)' = Announced(i)
  BY <1>1 DEF Announced
<1>8. PdfGoesWithItsJob'
  BY <1>1, <1>3, <1>6, FileNames DEF ReportInv, PdfGoesWithItsJob, OnDisk
<1>9. FreshUntilAccepted' /\ SweepHoldsOne'
  BY <1>1, <1>5, <1>6, <1>7 DEF ReportInv, FreshUntilAccepted, SweepHoldsOne
<1>10. FinishedStays'
  <2>1. ASSUME NEW i \in Jobs \ {j}, Finished(i) PROVE Finished(i)'
    <3>1. file'[<<i, "out">>] = file[<<i, "out">>]
      BY <1>3, FileNames
    <3>2. QED
      BY <1>1, <2>1, <3>1 DEF Finished
  <2>2. w = "tell" => Finished(j)'
    BY <1>2, <1>3 DEF Finished
  <2>3. QED
    BY <1>2, <1>5, <1>6, <1>7, <2>1, <2>2 DEF ReportInv, FinishedStays
<1>11. QED
  BY <1>4, <1>8, <1>9, <1>10 DEF ReportInv

(* The steps that only tell: JOBS, the row, an error.                         *)
LEMMA TellStep ==
  ASSUME ReportInv, NEW j \in Jobs, TellDone(j) \/ RowDone(j) \/ Raise(j) \/ RowError(j)
  PROVE  ReportInv'
<1>1. TypeOK /\ UNCHANGED <<file, page, req, fetched, timers, sweep, dir, crashes>>
      /\ wrk[j] \in {"validate", "save", "tell", "row", "errorrow"}
  BY DEF ReportInv, TellDone, Told, RowDone, Raise, RowError
<1>2. PICK w \in {"row", "shred", "errorrow"} : wrk' = [wrk EXCEPT ![j] = w]
  BY DEF TellDone, RowDone, Raise, RowError
<1>3. wrk'[j] = w /\ \A i \in Jobs \ {j} : wrk'[i] = wrk[i]
  BY <1>1, <1>2 DEF TypeOK
<1>4. jobs' \in [Jobs -> {"none", "processing", "done", "error"}]
      /\ \A i \in Jobs \ {j} : jobs'[i] = jobs[i]
  <2>1. PICK v \in {jobs[j], "done", "error"} : jobs' = [jobs EXCEPT ![j] = v] \/ jobs' = jobs
    BY <1>1 DEF TellDone, RowDone, Raise, RowError
  <2>2. QED
    BY <1>1, <2>1 DEF TypeOK
<1>5. row' \in [Jobs -> RowShape] /\ \A i \in Jobs \ {j} : row'[i] = row[i]
  <2>1. row \in [Jobs -> RowShape]
    BY <1>1 DEF TypeOK, RowShape
  <2>2. PICK st \in {"done", "error"} :
          row' = row \/ row' = [row EXCEPT ![j] = [st |-> st, age |-> 0]]
    BY DEF TellDone, RowDone, Raise, RowError
  <2>3. [st |-> st, age |-> 0] \in RowShape
    BY DEF RowShape
  <2>4. QED
    BY <2>1, <2>2, <2>3
<1>6. TypeOK'
  BY <1>1, <1>2, <1>4, <1>5 DEF TypeOK, RowShape
<1>7. page[j] \notin {"new", "sending"}
  BY <1>1 DEF ReportInv, FreshUntilAccepted
<1>8. \A i \in Jobs \ {j} : Announced(i)' = Announced(i)
  BY <1>1, <1>4, <1>5 DEF Announced
<1>9. Announced(j)' \/ w = "row" => Finished(j)
  <2>1. Announced(j) \/ wrk[j] \in {"tell", "row"} => Finished(j)
    BY DEF ReportInv, FinishedStays
  <2>2. CASE TellDone(j)
    BY <2>1, <2>2 DEF TellDone, Told
  <2>3. CASE RowDone(j)
    BY <2>1, <2>3 DEF RowDone
  <2>4. CASE Raise(j)
    <3>1. w # "row"
      BY <1>1, <1>3, <2>4 DEF Raise, TypeOK
    <3>2. Announced(j)' => Announced(j)
      BY <1>1, <2>4 DEF Raise, Announced, TypeOK
    <3>3. QED
      BY <2>1, <3>1, <3>2
  <2>5. CASE RowError(j)
    <3>1. w # "row"
      BY <1>1, <1>3, <2>5 DEF RowError, TypeOK
    <3>2. Announced(j)' => Announced(j)
      BY <1>1, <2>5 DEF RowError, Announced, TypeOK
    <3>3. QED
      BY <2>1, <3>1, <3>2
  <2>6. QED
    BY <2>2, <2>3, <2>4, <2>5
<1>10. PdfGoesWithItsJob' /\ SweepHoldsOne'
  BY <1>1, <1>3 DEF ReportInv, PdfGoesWithItsJob, OnDisk, SweepHoldsOne
<1>11. FreshUntilAccepted'
  BY <1>1, <1>3, <1>7, <1>8 DEF ReportInv, FreshUntilAccepted
<1>12. FinishedStays'
  BY <1>1, <1>3, <1>8, <1>9 DEF ReportInv, FinishedStays, Finished
<1>13. QED
  BY <1>6, <1>10, <1>11, <1>12 DEF ReportInv

(* The finally: the pdf goes before the worker ends.                          *)
LEMMA FinallyStep ==
  ASSUME ReportInv, NEW j \in Jobs, ShredPdf(j) \/ UnlinkPdf(j)
  PROVE  ReportInv'
<1>1. TypeOK /\ <<j, "pdf">> \in Files /\ wrk[j] \in {"shred", "unlink"}
      /\ UNCHANGED <<row, jobs, page, req, fetched, timers, sweep, dir, crashes>>
  BY FileNames DEF ReportInv, ShredPdf, UnlinkPdf
<1>2. PICK w \in {"unlink", "end"} : wrk' = [wrk EXCEPT ![j] = w]
  BY DEF ShredPdf, UnlinkPdf
<1>3. wrk'[j] = w /\ \A i \in Jobs \ {j} : wrk'[i] = wrk[i]
  BY <1>1, <1>2 DEF TypeOK
<1>4. /\ file' \in [Files -> FileShape] /\ \A g \in Files \ {<<j, "pdf">>} : file'[g] = file[g]
      /\ w = "end" => file'[<<j, "pdf">>].is \in {"none", "gone"}
  <2>1. CASE UnlinkPdf(j)
    BY <1>1, <2>1, RemoveStep DEF UnlinkPdf
  <2>2. CASE ShredPdf(j) /\ OnDisk(<<j, "pdf">>)
    <3>1. Write(<<j, "pdf">>, "junk") /\ "junk" \in Contents
      BY <2>2 DEF ShredPdf, Contents
    <3>2. wrk'[j] = "unlink"
      BY <1>1, <2>2 DEF ShredPdf, TypeOK
    <3>3. QED
      BY <1>1, <1>3, <3>1, <3>2, WriteStep
  <2>3. CASE ShredPdf(j) /\ ~OnDisk(<<j, "pdf">>)
    BY <1>1, <2>3 DEF ShredPdf, OnDisk, TypeOK, FileShape
  <2>4. QED
    BY <2>1, <2>2, <2>3
<1>5. TypeOK'
  BY <1>1, <1>2, <1>4 DEF TypeOK, FileShape
<1>6. \A i \in Jobs : /\ file'[<<i, "out">>] = file[<<i, "out">>]
                      /\ i # j => file'[<<i, "pdf">>] = file[<<i, "pdf">>]
  BY <1>4, FileNames
<1>7. PdfGoesWithItsJob'
  BY <1>3, <1>4, <1>6 DEF ReportInv, PdfGoesWithItsJob, OnDisk
<1>8. FreshUntilAccepted' /\ SweepHoldsOne'
  BY <1>1, <1>3 DEF ReportInv, FreshUntilAccepted, SweepHoldsOne, Announced
<1>9. FinishedStays'
  BY <1>1, <1>3, <1>6, SameWorkbooks DEF ReportInv, FinishedStays, Announced
<1>10. QED
  BY <1>5, <1>7, <1>8, <1>9 DEF ReportInv

-----------------------------------------------------------------------------
(***************************************************************************)
(* Timers, the sweep, the one-request services, time and restarts.         *)
(***************************************************************************)
LEMMA TimerStep ==
  ASSUME ReportInv, NEW t \in timers, TimerFires(t[1], t[2])
  PROVE  ReportInv'
<1> DEFINE f == <<t[1], "final">>
<1>1. TypeOK /\ timers \subseteq Jobs \X (1..MaxDownloads)
  BY DEF ReportInv, TypeOK
<1>2. t[1] \in Jobs /\ f \in Files
  BY <1>1, FileNames
<1>3. timers' = timers \ {<<t[1], t[2]>>} /\ UNCHANGED <<row, jobs, wrk, page, req, fetched, sweep, dir, crashes>>
  BY DEF TimerFires
<1>4. file' \in [Files -> FileShape] /\ \A g \in Files \ {f} : file'[g] = file[g]
  <2>1. CASE OnDisk(f)
    BY <1>1, <1>2, <2>1, RemoveStep DEF TimerFires
  <2>2. CASE ~OnDisk(f)
    BY <1>1, <2>2 DEF TimerFires, TypeOK, FileShape
  <2>3. QED
    BY <2>1, <2>2
<1>5. TypeOK'
  BY <1>1, <1>3, <1>4 DEF TypeOK, FileShape
<1>6. \A i \in Jobs : file'[<<i, "out">>] = file[<<i, "out">>] /\ file'[<<i, "pdf">>] = file[<<i, "pdf">>]
  BY <1>2, <1>4, FileNames
<1>7. PdfGoesWithItsJob'
  BY <1>3, <1>6 DEF ReportInv, PdfGoesWithItsJob, OnDisk
<1>8. FreshUntilAccepted' /\ SweepHoldsOne'
  BY <1>3 DEF ReportInv, FreshUntilAccepted, SweepHoldsOne, Announced
<1>9. FinishedStays'
  BY <1>3, <1>6, SameWorkbooks DEF ReportInv, FinishedStays, Announced
<1>10. QED
  BY <1>5, <1>7, <1>8, <1>9 DEF ReportInv

(* The sweep takes a snapshot and picks a file of it.                         *)
LEMMA SweepLooks ==
  ASSUME ReportInv, StartSweep \/ \E f \in sweep.todo : Look(f)
  PROVE  ReportInv'
<1>1. TypeOK /\ sweep.cur = Idle /\ UNCHANGED <<file, row, jobs, wrk, page, req, fetched, timers, dir, crashes>>
  BY DEF ReportInv, SweepHoldsOne, StartSweep, Look
<1>2. Idle \notin Files
  BY DEF Idle, None, Files, Kinds
<1>3. sweep' \in SweepShape /\ (sweep'.pc \in {"sleep", "look"} <=> sweep'.cur = Idle)
  <2>1. CASE StartSweep
    <3> DEFINE old == {f \in Files : Old(f)}
    <3>1. sweep' = [pc |-> "look", todo |-> old, cur |-> Idle] /\ old \in SUBSET Files
      BY <2>1 DEF StartSweep
    <3> HIDE DEF old
    <3>2. QED
      BY <3>1 DEF SweepShape
  <2>2. CASE \E f \in sweep.todo : Look(f)
    <3>1. PICK f \in sweep.todo : Look(f)
      BY <2>2
    <3>2. f \in Files /\ sweep.todo \ {f} \in SUBSET Files
      BY <1>1, <3>1 DEF TypeOK
    <3> DEFINE rest == sweep.todo \ {f}
    <3>3. \/ sweep' = [pc |-> "shred", todo |-> rest, cur |-> f]
          \/ sweep' = [pc |-> "look", todo |-> rest, cur |-> Idle]
      BY <3>1 DEF Look
    <3> HIDE DEF rest
    <3>4. QED
      BY <1>2, <3>2, <3>3 DEF SweepShape, rest
  <2>3. QED
    BY <2>1, <2>2
<1>4. TypeOK' /\ SweepHoldsOne'
  BY <1>1, <1>3 DEF TypeOK, SweepShape, SweepHoldsOne
<1>5. PdfGoesWithItsJob' /\ FreshUntilAccepted'
  BY <1>1 DEF ReportInv, PdfGoesWithItsJob, FreshUntilAccepted, OnDisk, Announced
<1>6. FinishedStays'
  BY <1>1, SameWorkbooks DEF ReportInv, FinishedStays, Announced
<1>7. QED
  BY <1>4, <1>5, <1>6 DEF ReportInv

(* A file it holds is overwritten, then gone.                                 *)
LEMMA SweepDeletes ==
  ASSUME ReportInv, Shred \/ Unlink
  PROVE  ReportInv'
<1> DEFINE f == sweep.cur
<1>1. TypeOK /\ UNCHANGED <<row, jobs, wrk, page, req, fetched, timers, dir, crashes>>
  BY DEF ReportInv, Shred, Unlink
<1>2. f \in Files /\ f # Idle
  BY <1>1 DEF ReportInv, SweepHoldsOne, Shred, Unlink, TypeOK
<1>3. /\ sweep' \in SweepShape /\ (sweep'.pc \in {"sleep", "look"} <=> sweep'.cur = Idle)
      /\ sweep'.cur = f \/ Unlink
  <2>1. sweep \in SweepShape
    BY <1>1 DEF TypeOK, SweepShape
  <2>2. CASE Shred
    BY <1>2, <2>1, <2>2 DEF Shred, SweepShape
  <2>3. CASE Unlink
    BY <2>1, <2>3 DEF Unlink, SweepShape
  <2>4. QED
    BY <2>2, <2>3
<1>4. /\ file' \in [Files -> FileShape] /\ \A g \in Files \ {f} : file'[g] = file[g]
      /\ file'[f].is \in IF OnDisk(f) THEN (IF Unlink THEN {"gone"} ELSE {"junk", "gone"}) ELSE {file[f].is}
  <2>1. CASE ~OnDisk(f)
    BY <1>1, <2>1 DEF Shred, Unlink, TypeOK, FileShape
  <2>2. CASE Unlink /\ OnDisk(f)
    BY <1>1, <1>2, <2>2, RemoveStep DEF Unlink
  <2>3. CASE Shred /\ ~Unlink /\ OnDisk(f)
    <3>1. Write(f, "junk") /\ "junk" \in Contents
      BY <2>3 DEF Shred, Contents
    <3>2. QED
      BY <1>1, <1>2, <2>3, <3>1, WriteStep
  <2>4. QED
    BY <2>1, <2>2, <2>3
<1>5. TypeOK' /\ SweepHoldsOne'
  BY <1>1, <1>3, <1>4 DEF TypeOK, SweepShape, FileShape, SweepHoldsOne
<1>6. PdfGoesWithItsJob'
  <2>1. ASSUME NEW i \in Jobs, ~OnDisk(<<i, "pdf">>) PROVE ~OnDisk(<<i, "pdf">>)'
    <3>1. <<i, "pdf">> \in Files
      BY FileNames
    <3>2. CASE f = <<i, "pdf">>
      BY <1>4, <2>1, <3>2 DEF OnDisk
    <3>3. CASE f # <<i, "pdf">>
      BY <1>4, <2>1, <3>1, <3>3 DEF OnDisk
    <3>4. QED
      BY <3>2, <3>3
  <2>2. QED
    BY <1>1, <2>1 DEF ReportInv, PdfGoesWithItsJob
<1>7. FreshUntilAccepted'
  BY <1>1 DEF ReportInv, FreshUntilAccepted, Announced
<1>8. FinishedStays'
  <2>1. ASSUME NEW i \in Jobs, Finished(i) PROVE Finished(i)'
    <3>1. <<i, "out">> \in Files
      BY FileNames
    <3>2. CASE f = <<i, "out">>
      BY <1>1, <1>3, <1>4, <2>1, <3>2 DEF Finished, OnDisk
    <3>3. CASE f # <<i, "out">>
      BY <1>1, <1>4, <2>1, <3>1, <3>3 DEF Finished
    <3>4. QED
      BY <3>2, <3>3
  <2>2. QED
    BY <1>1, <2>1 DEF ReportInv, FinishedStays, Announced
<1>9. QED
  BY <1>5, <1>6, <1>7, <1>8 DEF ReportInv

(* What only makes things older, or forgets rows: nothing is announced anew.  *)
LEMMA QuietStep ==
  ASSUME ReportInv, TypeOK', SweepHoldsOne', UNCHANGED <<jobs, wrk, page, req, crashes>>,
         sweep' = sweep \/ sweep.cur = Idle,
         \A f \in Files : file'[f].is = file[f].is,
         \A i \in Jobs : row'[i].st \in {row[i].st, "none"}
  PROVE  ReportInv'
<1>1. \A i \in Jobs : Announced(i)' => Announced(i)
  BY DEF Announced
<1>2. PdfGoesWithItsJob'
  BY FileNames DEF ReportInv, PdfGoesWithItsJob, OnDisk
<1>3. FreshUntilAccepted'
  BY <1>1 DEF ReportInv, FreshUntilAccepted
<1>4. FinishedStays'
  <2>1. \A i \in Jobs : Finished(i) => Finished(i)'
    BY FileNames, SameWorkbooks
  <2>2. QED
    BY <1>1, <2>1 DEF ReportInv, FinishedStays
<1>5. QED
  BY <1>2, <1>3, <1>4 DEF ReportInv

LEMMA SweepRowsStep ==
  ASSUME ReportInv, SweepRows
  PROVE  ReportInv'
<1>1. TypeOK /\ sweep.cur = Idle /\ sweep' = Asleep
      /\ UNCHANGED <<file, jobs, wrk, page, req, fetched, timers, dir, crashes>>
  BY DEF ReportInv, SweepHoldsOne, SweepRows
<1>2. row' \in [Jobs -> RowShape] /\ \A i \in Jobs : row'[i].st \in {row[i].st, "none"}
  <2> DEFINE blank == [st |-> "none", age |-> 0]
  <2>1. row \in [Jobs -> RowShape] /\ blank \in RowShape /\ blank.st = "none"
    BY <1>1 DEF TypeOK, RowShape
  <2>2. row' = [i \in Jobs |-> IF row[i].age = Expired THEN blank ELSE row[i]]
    BY DEF SweepRows
  <2> HIDE DEF blank
  <2>3. QED
    BY <2>1, <2>2
<1>3. TypeOK' /\ SweepHoldsOne'
  BY <1>1, <1>2 DEF TypeOK, RowShape, Asleep, SweepHoldsOne
<1>4. QED
  BY <1>1, <1>2, <1>3, QuietStep

LEMMA TickStep ==
  ASSUME ReportInv, Tick
  PROVE  ReportInv'
<1>1. TypeOK /\ UNCHANGED <<jobs, wrk, page, req, fetched, timers, sweep, dir, crashes>>
  BY DEF ReportInv, Tick
<1>2. file' \in [Files -> FileShape] /\ \A f \in Files : file'[f].is = file[f].is
  <2>1. file \in [Files -> FileShape]
    BY <1>1 DEF TypeOK, FileShape
  <2>2. \A r \in FileShape : r.age < Expired => /\ [r EXCEPT !.age = @ + 1] \in FileShape
                                               /\ [r EXCEPT !.age = @ + 1].is = r.is
    BY DEF FileShape
  <2>3. file' = [f \in Files |-> IF OnDisk(f) /\ file[f].age < Expired
                                THEN [file[f] EXCEPT !.age = @ + 1] ELSE file[f]]
    BY DEF Tick
  <2>4. QED
    BY <2>1, <2>2, <2>3
<1>3. row' \in [Jobs -> RowShape] /\ \A i \in Jobs : row'[i].st = row[i].st
  <2>1. row \in [Jobs -> RowShape]
    BY <1>1 DEF TypeOK, RowShape
  <2>2. \A r \in RowShape : r.age < Expired => /\ [r EXCEPT !.age = @ + 1] \in RowShape
                                              /\ [r EXCEPT !.age = @ + 1].st = r.st
    BY DEF RowShape
  <2>3. row' = [i \in Jobs |-> IF row[i].st # "none" /\ row[i].age < Expired
                              THEN [row[i] EXCEPT !.age = @ + 1] ELSE row[i]]
    BY DEF Tick
  <2>4. QED
    BY <2>1, <2>2, <2>3
<1>4. TypeOK' /\ SweepHoldsOne'
  BY <1>1, <1>2, <1>3 DEF TypeOK, FileShape, RowShape, ReportInv, SweepHoldsOne
<1>5. QED
  BY <1>1, <1>2, <1>3, <1>4, QuietStep

LEMMA ShotStep ==
  ASSUME ReportInv, NEW s \in Shots, OpenShot(s) \/ CloseShot(s)
  PROVE  ReportInv'
<1>1. TypeOK /\ UNCHANGED <<file, row, jobs, wrk, page, fetched, timers, sweep, crashes>>
      /\ req' \in {Idle, <<"shot", s>>}
  BY DEF ReportInv, OpenShot, CloseShot
<1>2. dir' \in [Shots -> {"none", "made", "gone"}]
  BY <1>1 DEF TypeOK, OpenShot, CloseShot
<1>3. TypeOK'
  BY <1>1, <1>2 DEF TypeOK
<1>4. \A i \in Jobs : req' # <<"upload", i>>
  BY <1>1 DEF Idle, None
<1>5. QED
  BY <1>1, <1>3, <1>4, ServeStep

(* A restart empties JOBS and the threads; files, rows and pages stay.        *)
LEMMA RestartStep ==
  ASSUME ReportInv, Restart
  PROVE  ReportInv'
<1>1. /\ TypeOK /\ crashes < MaxCrashes /\ crashes' = crashes + 1
      /\ jobs' = [j \in Jobs |-> "none"] /\ wrk' = [j \in Jobs |-> "idle"]
      /\ page' = [j \in Jobs |-> IF page[j] = "sending" THEN "failed" ELSE page[j]]
      /\ req' = Idle /\ timers' = {} /\ sweep' = Asleep
      /\ UNCHANGED <<file, row, fetched, dir>>
  BY DEF ReportInv, Restart
<1>2. crashes' \in 0..MaxCrashes /\ crashes' > 0
  BY <1>1 DEF TypeOK
<1>3. TypeOK'
  BY <1>1, <1>2 DEF TypeOK, Asleep
<1>4. \A i \in Jobs : Announced(i)' => Announced(i)
  BY <1>1 DEF Announced
<1>5. PdfGoesWithItsJob' /\ SweepHoldsOne'
  BY <1>1 DEF PdfGoesWithItsJob, SweepHoldsOne, Asleep
<1>6. FreshUntilAccepted'
  BY <1>1, <1>4 DEF ReportInv, FreshUntilAccepted, Idle, None
<1>7. FinishedStays'
  BY <1>1, <1>2, <1>4 DEF ReportInv, FinishedStays, Finished
<1>8. QED
  BY <1>3, <1>5, <1>6, <1>7 DEF ReportInv

-----------------------------------------------------------------------------
(***************************************************************************)
(* Every step preserves the invariant.                                     *)
(***************************************************************************)
LEMMA NextReport == ReportInv /\ [Next]_vars => ReportInv'
<1> SUFFICES ASSUME ReportInv, [Next]_vars PROVE ReportInv'
  OBVIOUS
<1>1. ASSUME NEW j \in Jobs, Request(j) PROVE ReportInv'
  <2>1. CASE \E pdf \in BOOLEAN : UploadFiles(j, pdf)
    BY <2>1, UploadFilesStep
  <2>2. CASE UploadAccept(j)
    BY <2>2, UploadAcceptStep
  <2>3. CASE DownloadEdited(j)
    BY <2>3, DownloadEditedStep
  <2>4. CASE \/ UploadRefused(j) \/ Poll(j) \/ GiveUp(j) \/ Download(j)
             \/ \E k \in Kinds : Send(j, k)
    BY <2>4, RequestStep
  <2>5. QED
    BY <1>1, <2>1, <2>2, <2>3, <2>4 DEF Request
<1>2. ASSUME NEW j \in Jobs, Worker(j) PROVE ReportInv'
  BY <1>2, BeginStep, SaveStep, TellStep, FinallyStep DEF Worker
<1>3. ASSUME NEW s \in Shots, OpenShot(s) \/ CloseShot(s) PROVE ReportInv'
  BY <1>3, ShotStep
<1>4. CASE Timer
  BY <1>4, TimerStep DEF Timer
<1>5. CASE Sweeper
  BY <1>5, SweepLooks, SweepDeletes, SweepRowsStep DEF Sweeper
<1>6. CASE Tick
  BY <1>6, TickStep
<1>7. CASE Restart
  BY <1>7, RestartStep
<1>8. CASE UNCHANGED vars
  BY <1>8 DEF vars, ReportInv, TypeOK, PdfGoesWithItsJob, OnDisk, FreshUntilAccepted, SweepHoldsOne,
              FinishedStays, Finished, Announced
<1>9. QED
  BY <1>1, <1>2, <1>3, <1>4, <1>5, <1>6, <1>7, <1>8 DEF Next

(* Whatever is uploaded, refused, swept or cut off by a restart, the ledger   *)
(* pdf of a job that has ended is gone (_run_job's finally).                  *)
THEOREM ReportInvariant == Spec => []ReportInv
<1>1. Init => ReportInv
  BY InitReport
<1>2. ReportInv /\ [Next]_vars => ReportInv'
  BY NextReport
<1>3. QED
  BY <1>1, <1>2, PTL DEF Spec

(* A workbook that JOBS, the row or a page calls done is whole on disk until  *)
(* the sweep takes it, also across restarts.                                  *)
THEOREM DoneMeansWhole == Spec => []DoneHasWorkbook
<1>1. ReportInv => DoneHasWorkbook
  BY DEF ReportInv, FinishedStays, Finished, DoneHasWorkbook
<1>2. QED
  BY <1>1, ReportInvariant, PTL

=============================================================================
