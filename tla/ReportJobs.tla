----------------------------- MODULE ReportJobs -----------------------------
(***************************************************************************)
(* Report validation in the browser (audit_engine_web/report_routes.py)    *)
(* with the page that polls it (web/src/components/TabReportAutomation.tsx) *)
(* and the one-request services (merge, flatten, rebuild) that keep a work *)
(* folder in the same directory.                                           *)
(*                                                                         *)
(* A job's files and its database row survive a restart; the JOBS map, the *)
(* threads and the timers do not.  Requests are served one at a time;      *)
(* workers, timers and the retention sweep interleave with them.           *)
(***************************************************************************)
EXTENDS Naturals, FiniteSets

CONSTANTS
  Jobs,          (* uploads, each under a file_id of its own *)
  Shots,         (* one-request services *)
  Expired,       (* REPORT_RETENTION_MINUTES in ticks, and one more *)
  DbMayFail,     (* SQLite may refuse a write *)
  MaxDownloads,  (* bound: downloads of one job *)
  MaxCrashes     (* bound: restarts of the server *)

ASSUME ReportAssumption ==
  /\ Expired \in Nat \ {0}
  /\ DbMayFail \in BOOLEAN
  /\ MaxDownloads \in Nat /\ MaxCrashes \in Nat

(* src_<id>.xlsx, src_<id>.pdf, <id>.xlsx and final_<id>.xlsx *)
Kinds == {"src", "pdf", "out", "final"}
Files == Jobs \X Kinds
Contents == {"none", "part", "whole", "junk", "gone"}

VARIABLES
  file,     (* file[f]: what it holds, and its age in ticks *)
  row,      (* row[j]: the job's row in report_jobs *)
  jobs,     (* JOBS[j].status, "none" when JOBS has no entry *)
  wrk,      (* wrk[j]: where the thread of _run_job is *)
  page,     (* page[j]: what the page that uploaded j shows *)
  req,      (* the request being served, when it takes more than a step *)
  fetched,  (* fetched[j]: its downloads *)
  timers,   (* downloads whose _delete_soon timer is pending *)
  sweep,    (* _sweep_expired_reports: files left, and the one it deletes *)
  dir,      (* dir[s]: the work folder of a one-request service *)
  crashes

vars == <<file, row, jobs, wrk, page, req, fetched, timers, sweep, dir, crashes>>

None == "none"
Idle == <<None, None>>
Asleep == [pc |-> "sleep", todo |-> {}, cur |-> Idle]

Init ==
  /\ file = [f \in Files |-> [is |-> "none", age |-> 0]]
  /\ row = [j \in Jobs |-> [st |-> "none", age |-> 0]]
  /\ jobs = [j \in Jobs |-> "none"]
  /\ wrk = [j \in Jobs |-> "idle"]
  /\ page = [j \in Jobs |-> "new"]
  /\ req = Idle
  /\ fetched = [j \in Jobs |-> 0]
  /\ timers = {}
  /\ sweep = Asleep
  /\ dir = [s \in Shots |-> "none"]
  /\ crashes = 0

OnDisk(f) == file[f].is \notin {"none", "gone"}

(* Mutant: the sweep goes by the rows, and takes the files they name. *)
OldWithRow(f) == OnDisk(f) /\ file[f].age = Expired /\ row[f[1]].st # "none"

Old(f) == OnDisk(f) /\ file[f].age = Expired
Write(f, x) == file' = [file EXCEPT ![f] = [is |-> x, age |-> 0]]
Remove(f) == file' = [file EXCEPT ![f].is = "gone"]

-----------------------------------------------------------------------------
(* report_upload: the files first, ... *)
UploadFiles(j, pdf) ==
  /\ req = Idle /\ page[j] = "new"
  /\ req' = <<"upload", j>>
  /\ page' = [page EXCEPT ![j] = "sending"]
  /\ file' = [f \in Files |-> IF f = <<j, "src">> \/ (pdf /\ f = <<j, "pdf">>)
                              THEN [is |-> "whole", age |-> 0] ELSE file[f]]
  /\ UNCHANGED <<row, jobs, wrk, fetched, timers, sweep, dir, crashes>>

(* ... then the row, the thread and the answer. *)
UploadAccept(j) ==
  /\ req = <<"upload", j>>
  /\ row' = [row EXCEPT ![j] = [st |-> "queued", age |-> 0]]
  /\ wrk' = [wrk EXCEPT ![j] = "begin"]
  /\ page' = [page EXCEPT ![j] = "polling"]
  /\ req' = Idle
  /\ UNCHANGED <<file, jobs, fetched, timers, sweep, dir, crashes>>

(* SQLite refuses the row: the files stay, the page is told. *)
UploadRefused(j) ==
  /\ req = <<"upload", j>>
  /\ DbMayFail
  /\ page' = [page EXCEPT ![j] = "failed"]
  /\ req' = Idle
  /\ UNCHANGED <<file, row, jobs, wrk, fetched, timers, sweep, dir, crashes>>

(* report_status: JOBS, then the row.  A job known only from its row has no *)
(* result, and a page that is told "done" without one gives up.             *)
Answer(j) ==
  CASE jobs[j] # "none" -> jobs[j]
    [] jobs[j] = "none" /\ row[j].st = "done" /\ OnDisk(<<j, "out">>) -> "no result"
    [] jobs[j] = "none" /\ row[j].st = "error" -> "error"
    [] OTHER -> "unknown"

Poll(j) ==
  /\ req = Idle /\ page[j] = "polling"
  /\ page' = [page EXCEPT ![j] = CASE Answer(j) = "processing" -> "polling"
                                   [] Answer(j) = "done" -> "done"
                                   [] OTHER -> "failed"]
  /\ UNCHANGED <<file, row, jobs, wrk, req, fetched, timers, sweep, dir, crashes>>

(* After maxAttempts polls, or when the tab is closed. *)
GiveUp(j) ==
  /\ page[j] = "polling"
  /\ page' = [page EXCEPT ![j] = "left"]
  /\ UNCHANGED <<file, row, jobs, wrk, req, fetched, timers, sweep, dir, crashes>>

(* report_download, which asks for the output only, not for the job's state. *)
Download(j) ==
  /\ req = Idle /\ page[j] = "done" /\ fetched[j] < MaxDownloads
  /\ fetched' = [fetched EXCEPT ![j] = @ + 1]
  /\ req' = IF OnDisk(<<j, "out">>) THEN <<"out", j>> ELSE Idle
  /\ UNCHANGED <<file, row, jobs, wrk, page, timers, sweep, dir, crashes>>

(* With edits a copy is written and a timer armed for it. *)
DownloadEdited(j) ==
  /\ req = Idle /\ page[j] = "done" /\ fetched[j] < MaxDownloads
  /\ file[<<j, "out">>].is = "whole"
  /\ fetched' = [fetched EXCEPT ![j] = @ + 1]
  /\ Write(<<j, "final">>, "whole")
  /\ timers' = timers \cup {<<j, fetched[j] + 1>>}
  /\ req' = <<"final", j>>
  /\ UNCHANGED <<row, jobs, wrk, page, sweep, dir, crashes>>

(* static_file sends the file. *)
Send(j, k) ==
  /\ k \in {"out", "final"} /\ req = <<k, j>>
  /\ req' = Idle
  /\ UNCHANGED <<file, row, jobs, wrk, page, fetched, timers, sweep, dir, crashes>>

-----------------------------------------------------------------------------
(* _run_job. *)
Begin(j) ==
  /\ wrk[j] = "begin"
  /\ jobs' = [jobs EXCEPT ![j] = "processing"]
  /\ wrk' = [wrk EXCEPT ![j] = "validate"]
  /\ UNCHANGED <<file, row, page, req, fetched, timers, sweep, dir, crashes>>

StartSave(j) ==
  /\ wrk[j] = "validate"
  /\ Write(<<j, "out">>, "part")
  /\ wrk' = [wrk EXCEPT ![j] = "save"]
  /\ UNCHANGED <<row, jobs, page, req, fetched, timers, sweep, dir, crashes>>

Saved(j) ==
  /\ wrk[j] = "save"
  /\ Write(<<j, "out">>, "whole")
  /\ wrk' = [wrk EXCEPT ![j] = "tell"]
  /\ UNCHANGED <<row, jobs, page, req, fetched, timers, sweep, dir, crashes>>

(* Mutant: done may be announced while the workbook is still being written. *)
ToldEarly(j) == wrk[j] \in {"save", "tell"}

Told(j) == wrk[j] = "tell"

TellDone(j) ==
  /\ Told(j)
  /\ jobs' = [jobs EXCEPT ![j] = "done"]
  /\ wrk' = [wrk EXCEPT ![j] = "row"]
  /\ UNCHANGED <<file, row, page, req, fetched, timers, sweep, dir, crashes>>

RowDone(j) ==
  /\ wrk[j] = "row"
  /\ row' = [row EXCEPT ![j] = [st |-> "done", age |-> 0]]
  /\ wrk' = [wrk EXCEPT ![j] = "shred"]
  /\ UNCHANGED <<file, jobs, page, req, fetched, timers, sweep, dir, crashes>>

(* Mutant: only the row is told of an error. *)
RaiseToRow(j) ==
  /\ \/ wrk[j] \in {"validate", "save"}
     \/ wrk[j] = "row" /\ DbMayFail
  /\ wrk' = [wrk EXCEPT ![j] = "errorrow"]
  /\ UNCHANGED <<file, row, jobs, page, req, fetched, timers, sweep, dir, crashes>>

(* The workbook cannot be validated or written, or the row is refused. *)
Raise(j) ==
  /\ \/ wrk[j] \in {"validate", "save"}
     \/ wrk[j] = "row" /\ DbMayFail
  /\ jobs' = [jobs EXCEPT ![j] = "error"]
  /\ wrk' = [wrk EXCEPT ![j] = "errorrow"]
  /\ UNCHANGED <<file, row, page, req, fetched, timers, sweep, dir, crashes>>

(* Mutant: the pdf is left when the error cannot be recorded either. *)
RowErrorDies(j) ==
  /\ wrk[j] = "errorrow"
  /\ \/ row' = [row EXCEPT ![j] = [st |-> "error", age |-> 0]] /\ wrk' = [wrk EXCEPT ![j] = "shred"]
     \/ DbMayFail /\ UNCHANGED row /\ wrk' = [wrk EXCEPT ![j] = "end"]
  /\ UNCHANGED <<file, jobs, page, req, fetched, timers, sweep, dir, crashes>>

RowError(j) ==
  /\ wrk[j] = "errorrow"
  /\ \/ row' = [row EXCEPT ![j] = [st |-> "error", age |-> 0]]
     \/ DbMayFail /\ UNCHANGED row
  /\ wrk' = [wrk EXCEPT ![j] = "shred"]
  /\ UNCHANGED <<file, jobs, page, req, fetched, timers, sweep, dir, crashes>>

(* finally: the pdf is overwritten, then unlinked. *)
ShredPdf(j) ==
  /\ wrk[j] = "shred"
  /\ wrk' = [wrk EXCEPT ![j] = IF OnDisk(<<j, "pdf">>) THEN "unlink" ELSE "end"]
  /\ IF OnDisk(<<j, "pdf">>) THEN Write(<<j, "pdf">>, "junk") ELSE UNCHANGED file
  /\ UNCHANGED <<row, jobs, page, req, fetched, timers, sweep, dir, crashes>>

UnlinkPdf(j) ==
  /\ wrk[j] = "unlink"
  /\ Remove(<<j, "pdf">>)
  /\ wrk' = [wrk EXCEPT ![j] = "end"]
  /\ UNCHANGED <<row, jobs, page, req, fetched, timers, sweep, dir, crashes>>

-----------------------------------------------------------------------------
(* _delete_soon: overwritten, then unlinked; the response it is for is out.  *)
TimerFires(j, n) ==
  /\ <<j, n>> \in timers
  /\ ~(req = <<"final", j>> /\ n = fetched[j])
  /\ IF OnDisk(<<j, "final">>) THEN Remove(<<j, "final">>) ELSE UNCHANGED file
  /\ timers' = timers \ {<<j, n>>}
  /\ UNCHANGED <<row, jobs, wrk, page, req, fetched, sweep, dir, crashes>>

(* The sweep: the files older than its cutoff, ... *)
StartSweep ==
  /\ sweep.pc = "sleep"
  /\ \/ \E f \in Files : Old(f)
     \/ \E j \in Jobs : row[j].st # "none" /\ row[j].age = Expired
  /\ sweep' = [pc |-> "look", todo |-> {f \in Files : Old(f)}, cur |-> Idle]
  /\ UNCHANGED <<file, row, jobs, wrk, page, req, fetched, timers, dir, crashes>>

(* ... each of which is looked at again, ... *)
Look(f) ==
  /\ sweep.pc = "look" /\ f \in sweep.todo
  /\ sweep' = [pc |-> IF Old(f) THEN "shred" ELSE "look",
               todo |-> sweep.todo \ {f}, cur |-> IF Old(f) THEN f ELSE Idle]
  /\ UNCHANGED <<file, row, jobs, wrk, page, req, fetched, timers, dir, crashes>>

(* ... overwritten, which makes it young again, and unlinked, ... *)
Shred ==
  /\ sweep.pc = "shred"
  /\ IF OnDisk(sweep.cur) THEN Write(sweep.cur, "junk") ELSE UNCHANGED file
  /\ sweep' = [sweep EXCEPT !.pc = "unlink"]
  /\ UNCHANGED <<row, jobs, wrk, page, req, fetched, timers, dir, crashes>>

Unlink ==
  /\ sweep.pc = "unlink"
  /\ IF OnDisk(sweep.cur) THEN Remove(sweep.cur) ELSE UNCHANGED file
  /\ sweep' = [sweep EXCEPT !.pc = "look", !.cur = Idle]
  /\ UNCHANGED <<row, jobs, wrk, page, req, fetched, timers, dir, crashes>>

(* ... then the old rows.  A job still running writes its row anew. *)
SweepRows ==
  /\ sweep.pc = "look" /\ sweep.todo = {}
  /\ row' = [j \in Jobs |-> IF row[j].age = Expired THEN [st |-> "none", age |-> 0] ELSE row[j]]
  /\ sweep' = Asleep
  /\ UNCHANGED <<file, jobs, wrk, page, req, fetched, timers, dir, crashes>>

(* merge_upload, flatten_upload, arvog_rebuild_upload: a work folder for as *)
(* long as the request is served, removed in its finally.                   *)
OpenShot(s) ==
  /\ req = Idle /\ dir[s] = "none"
  /\ dir' = [dir EXCEPT ![s] = "made"]
  /\ req' = <<"shot", s>>
  /\ UNCHANGED <<file, row, jobs, wrk, page, fetched, timers, sweep, crashes>>

CloseShot(s) ==
  /\ req = <<"shot", s>>
  /\ dir' = [dir EXCEPT ![s] = "gone"]
  /\ req' = Idle
  /\ UNCHANGED <<file, row, jobs, wrk, page, fetched, timers, sweep, crashes>>

(* A tick is long: only a validation outlasts it. *)
Tick ==
  /\ req = Idle /\ timers = {}
  /\ \A j \in Jobs : wrk[j] \in {"idle", "validate", "end"}
  /\ file' = [f \in Files |-> IF OnDisk(f) /\ file[f].age < Expired
                              THEN [file[f] EXCEPT !.age = @ + 1] ELSE file[f]]
  /\ row' = [j \in Jobs |-> IF row[j].st # "none" /\ row[j].age < Expired
                            THEN [row[j] EXCEPT !.age = @ + 1] ELSE row[j]]
  /\ UNCHANGED <<jobs, wrk, page, req, fetched, timers, sweep, dir, crashes>>

(* The process is killed and started again.  A page loses the request it had *)
(* sent; what it shows stays.                                                *)
Restart ==
  /\ crashes < MaxCrashes
  /\ crashes' = crashes + 1
  /\ jobs' = [j \in Jobs |-> "none"]
  /\ wrk' = [j \in Jobs |-> "idle"]
  /\ page' = [j \in Jobs |-> IF page[j] = "sending" THEN "failed" ELSE page[j]]
  /\ req' = Idle
  /\ timers' = {}
  /\ sweep' = Asleep
  /\ UNCHANGED <<file, row, fetched, dir>>

Request(j) ==
  \/ (\E pdf \in BOOLEAN : UploadFiles(j, pdf)) \/ UploadAccept(j) \/ UploadRefused(j)
  \/ Poll(j) \/ GiveUp(j)
  \/ Download(j) \/ DownloadEdited(j) \/ (\E k \in Kinds : Send(j, k))

Worker(j) ==
  \/ Begin(j) \/ StartSave(j) \/ Saved(j) \/ TellDone(j) \/ RowDone(j)
  \/ Raise(j) \/ RowError(j) \/ ShredPdf(j) \/ UnlinkPdf(j)

Timer == \E t \in timers : TimerFires(t[1], t[2])

Sweeper == StartSweep \/ (\E f \in sweep.todo : Look(f)) \/ Shred \/ Unlink \/ SweepRows

Next ==
  \/ \E j \in Jobs : Request(j) \/ Worker(j)
  \/ \E s \in Shots : OpenShot(s) \/ CloseShot(s)
  \/ Timer
  \/ Sweeper
  \/ Tick
  \/ Restart

Spec == Init /\ [][Next]_vars

(* A request that is being served is finished, a page that polls goes on      *)
(* polling, threads and timers run and time passes; nobody must upload.       *)
Finish(j) ==
  \/ UploadAccept(j) \/ (\E k \in Kinds : Send(j, k))

FairSpec ==
  /\ Spec
  /\ \A j \in Jobs : WF_vars(Finish(j)) /\ SF_vars(Poll(j)) /\ WF_vars(Worker(j))
  /\ \A s \in Shots : WF_vars(CloseShot(s))
  /\ WF_vars(Timer) /\ WF_vars(Sweeper) /\ SF_vars(Tick)

-----------------------------------------------------------------------------
(* Types. *)
TypeOK ==
  /\ file \in [Files -> [is : Contents, age : 0..Expired]]
  /\ row \in [Jobs -> [st : {"none", "queued", "done", "error"}, age : 0..Expired]]
  /\ jobs \in [Jobs -> {"none", "processing", "done", "error"}]
  /\ wrk \in [Jobs -> {"idle", "begin", "validate", "save", "tell", "row", "errorrow",
                       "shred", "unlink", "end"}]
  /\ page \in [Jobs -> {"new", "sending", "polling", "done", "failed", "left"}]
  /\ req \in {Idle} \cup {"upload", "out", "final"} \X Jobs \cup {"shot"} \X Shots
  /\ fetched \in [Jobs -> 0..MaxDownloads]
  /\ timers \subseteq Jobs \X (1..MaxDownloads)
  /\ sweep \in [pc : {"sleep", "look", "shred", "unlink"}, todo : SUBSET Files,
                cur : Files \cup {Idle}]
  /\ dir \in [Shots -> {"none", "made", "gone"}]
  /\ crashes \in 0..MaxCrashes

(* A workbook announced as done, by JOBS, by the row or on a page, is whole   *)
(* on disk, also after a restart, until the sweep takes it.                    *)
Announced(j) == "done" \in {jobs[j], row[j].st, page[j]}

DoneHasWorkbook ==
  \A j \in Jobs : Announced(j) =>
    \/ file[<<j, "out">>].is \in {"whole", "gone"}
    \/ sweep.cur = <<j, "out">>
    \/ crashes > 0 /\ file[<<j, "out">>].is = "junk"

(* The ledger pdf is gone when its job has ended, however it ended. *)
PdfGoesWithItsJob ==
  \A j \in Jobs : wrk[j] = "end" => ~OnDisk(<<j, "pdf">>)

(* What the two rest on: an upload is one job's only start, the sweep lets    *)
(* go of a file only when it is gone, and nobody writes to a workbook that   *)
(* is finished but the sweep.                                                *)
FreshUntilAccepted ==
  \A j \in Jobs :
    /\ req = <<"upload", j>> => page[j] = "sending"
    /\ page[j] \in {"new", "sending"} => wrk[j] = "idle" /\ ~Announced(j)

SweepHoldsOne == sweep.pc \in {"sleep", "look"} <=> sweep.cur = Idle

Finished(j) ==
  /\ file[<<j, "out">>].is \in {"whole", "gone", "junk"}
  /\ file[<<j, "out">>].is = "junk" => sweep.cur = <<j, "out">> \/ crashes > 0

FinishedStays ==
  \A j \in Jobs :
    /\ Announced(j) => wrk[j] \notin {"begin", "validate", "save", "tell"}
    /\ Announced(j) \/ wrk[j] \in {"tell", "row"} => Finished(j)

(* The ledger pdf of an ended job is gone (_run_job, finally), with the types *)
(* and what makes both properties inductive.                                  *)
ReportInv ==
  /\ TypeOK
  /\ PdfGoesWithItsJob
  /\ FreshUntilAccepted /\ SweepHoldsOne /\ FinishedStays

Leftovers(j) == row[j].st # "none" \/ \E k \in Kinds : OnDisk(<<j, k>>)

(* Everything of a job goes, whatever crashed, failed or was abandoned; the   *)
(* work folder of a service goes with its request, unless a restart cuts that *)
(* off, after which nothing clears it.                                        *)
NothingStays ==
  /\ \A j \in Jobs : Leftovers(j) ~> ~Leftovers(j)
  /\ \A s \in Shots : dir[s] = "made" ~> dir[s] = "gone" \/ crashes > 0

(* A page that polls is told something in the end.                            *)
PageIsAnswered == \A j \in Jobs : page[j] = "polling" ~> page[j] # "polling"

=============================================================================
