----------------------------- MODULE JobSession -----------------------------
(***************************************************************************)
(* Bank jobs: tasks/session.py, tasks/tracker.py, tasks/workers.py and the *)
(* run, cancel and progress handlers of web/handlers.py.                   *)
(*                                                                         *)
(* Every signed-in user has a tracker and a cancel event; the desktop, and *)
(* any thread nothing was bound to, has the default pair.  A handler       *)
(* thread checks the tracker, clears the event, resets the tracker and     *)
(* starts a worker thread; the worker reaches "its" tracker and event      *)
(* through a thread-local that is bound only once the thread is running.   *)
(* Handler threads and workers interleave at every access of shared state. *)
(***************************************************************************)
EXTENDS Naturals, FiniteSets

CONSTANTS
  Users,      (* signed-in users of the web server *)
  Desktop,    (* the unbound session: _default_tracker, _default_cancel *)
  Handlers,   (* threads that serve requests: one in wsgiref, several under pywebview *)
  Threads,    (* worker threads *)
  WebMode,    (* apply_patches() has run: no history, no open_path *)
  Banks,      (* the kinds of worker started, a subset of BankKinds *)
  Files,      (* workbooks per run *)
  Branches,   (* branches per workbook *)
  MaxRuns     (* bound: accepted runs per session *)

BankKinds == {"IDFC", "EQUITAS1", "EQUITAS2", "ARVOG"}

ASSUME SessionAssumption ==
  /\ Desktop \notin Users
  /\ WebMode \in BOOLEAN
  /\ Banks \subseteq BankKinds
  /\ Files \in Nat \ {0}
  /\ Branches \in Nat \ {0}
  /\ MaxRuns \in Nat

Sessions == Users \cup {Desktop}

(* Whose requests reach the handlers: bridge.py binds nobody, the server    *)
(* binds the signed-in user before every handler.                           *)
Requesters == IF WebMode THEN Users ELSE {Desktop}

VARIABLES
  tracker,    (* tracker[s]: the ProgressInfo of session s *)
  cancel,     (* cancel[s]: is the cancel event of s set *)
  hnd,        (* hnd[h]: the request handler thread h is inside *)
  wrk,        (* wrk[t]: the worker running on thread t *)
  runs,       (* runs[s]: how many times the tracker of s was reset *)
  history,    (* history[s]: the runs of s that log_generation wrote a row for *)
  lost        (* the sessions whose last start raised after the reset *)

vars == <<tracker, cancel, hnd, wrk, runs, history, lost>>

(***************************************************************************)
(* Progress, in units of one percent of one branch of one file, so that    *)
(* the fractions of the code stay whole.                                   *)
(***************************************************************************)
FullPct == 100 * Branches * Files
(* Mutant: files numbered from zero. *)
FilePctFromZero(f) == 100 * Branches * (f - 2)

FilePct(f) == 100 * Branches * (f - 1)

NoSummary == [run |-> 0, outcome |-> "none"]

(* ProgressTracker.reset: a new ProgressInfo that is running. *)
Fresh == [running |-> TRUE, pct |-> 0, summary |-> NoSummary, cancelRequested |-> FALSE]
Idle  == [Fresh EXCEPT !.running = FALSE]

NoHandler == [pc |-> "idle", user |-> Desktop]
NoWorker  == [pc |-> "idle", user |-> Desktop, local |-> Desktop, bank |-> "IDFC",
              zip |-> FALSE, file |-> 1, branch |-> 1, made |-> 0, run |-> 0,
              asked |-> FALSE, stopped |-> FALSE, late |-> 0]

WorkerPcs == {"idle", "bind", "file", "branch", "build", "pack", "record",
              "complete", "summary", "except", "finally"}

(* The session a thread's proxies resolve to, and what is written through them. *)
Here(t) == wrk[t].local

ShowPct(t, p) == tracker' = [tracker EXCEPT ![Here(t)] = [@ EXCEPT !.pct = p]]
SayOutcome(t, o) ==
  tracker' = [tracker EXCEPT ![Here(t)] = [@ EXCEPT !.summary = [run |-> wrk[t].run, outcome |-> o]]]
LowerFlag(t) == tracker' = [tracker EXCEPT ![Here(t)] = [@ EXCEPT !.running = FALSE]]

Become(t, w) == wrk' = [wrk EXCEPT ![t] = w]

Alive(t) == wrk[t].pc # "idle"
InFlight(s) == \E t \in Threads : Alive(t) /\ wrk[t].user = s

Init ==
  /\ tracker = [s \in Sessions |-> Idle]
  /\ cancel = [s \in Sessions |-> FALSE]
  /\ hnd = [h \in Handlers |-> NoHandler]
  /\ wrk = [t \in Threads |-> NoWorker]
  /\ runs = [s \in Sessions |-> 0]
  /\ history = [s \in Sessions |-> {}]
  /\ lost = {}

-----------------------------------------------------------------------------
(* Mutant: the second click is not refused. *)
RunRequestUnchecked(h, s) ==
  /\ hnd[h].pc = "idle"
  /\ runs[s] < MaxRuns
  /\ hnd' = [hnd EXCEPT ![h] = [pc |-> "clear", user |-> s]]
  /\ UNCHANGED <<tracker, cancel, wrk, runs, history, lost>>

(***************************************************************************)
(* handle_run.  A request that finds the tracker running, or that fails a  *)
(* validation, answers with an error and changes none of this state.       *)
(***************************************************************************)
RunRequest(h, s) ==
  /\ hnd[h].pc = "idle"
  /\ ~tracker[s].running
  /\ runs[s] < MaxRuns
  /\ hnd' = [hnd EXCEPT ![h] = [pc |-> "clear", user |-> s]]
  /\ UNCHANGED <<tracker, cancel, wrk, runs, history, lost>>

(* Mutant: the event is left as the last run's cancel set it. *)
RunClearForgotten(h) ==
  /\ hnd[h].pc = "clear"
  /\ hnd' = [hnd EXCEPT ![h] = [@ EXCEPT !.pc = "reset"]]
  /\ UNCHANGED <<tracker, cancel, wrk, runs, history, lost>>

RunClear(h) ==
  /\ hnd[h].pc = "clear"
  /\ cancel' = [cancel EXCEPT ![hnd[h].user] = FALSE]
  /\ hnd' = [hnd EXCEPT ![h] = [@ EXCEPT !.pc = "reset"]]
  /\ UNCHANGED <<tracker, wrk, runs, history, lost>>

(* Mutant: the flag is raised without replacing the ProgressInfo. *)
RunResetFlagOnly(h) ==
  LET s == hnd[h].user IN
  /\ hnd[h].pc = "reset"
  /\ tracker' = [tracker EXCEPT ![s].running = TRUE]
  /\ runs' = [runs EXCEPT ![s] = @ + 1]
  /\ hnd' = [hnd EXCEPT ![h] = [@ EXCEPT !.pc = "spawn"]]
  /\ UNCHANGED <<cancel, wrk, history, lost>>

RunReset(h) ==
  LET s == hnd[h].user IN
  /\ hnd[h].pc = "reset"
  /\ tracker' = [tracker EXCEPT ![s] = Fresh]
  /\ runs' = [runs EXCEPT ![s] = @ + 1]
  /\ hnd' = [hnd EXCEPT ![h] = [@ EXCEPT !.pc = "spawn"]]
  /\ UNCHANGED <<cancel, wrk, history, lost>>

(* run_bound: the worker is a new thread, with nothing bound yet. *)
RunSpawn(h, t) ==
  LET s == hnd[h].user IN
  /\ hnd[h].pc = "spawn"
  /\ ~Alive(t)
  /\ \E b \in Banks, z \in BOOLEAN :
       Become(t, [NoWorker EXCEPT !.pc = "bind", !.user = s, !.bank = b, !.zip = z,
                                  !.run = runs[s]])
  /\ hnd' = [hnd EXCEPT ![h] = NoHandler]
  /\ UNCHANGED <<tracker, cancel, runs, history, lost>>

(* A config_repo.set between the reset and run_bound raises (the settings   *)
(* database is locked, or the disk is full): the request fails, the tracker *)
(* stays as the reset left it.                                              *)
RunRaise(h) ==
  /\ hnd[h].pc = "spawn"
  /\ hnd' = [hnd EXCEPT ![h] = NoHandler]
  /\ lost' = lost \cup {hnd[h].user}
  /\ UNCHANGED <<tracker, cancel, wrk, runs, history>>

(* handle_cancel: accepted whether or not a run is in flight. *)
CancelSet(h, s) ==
  /\ hnd[h].pc = "idle"
  /\ cancel' = [cancel EXCEPT ![s] = TRUE]
  /\ wrk' = [t \in Threads |->
               IF Alive(t) /\ wrk[t].user = s THEN [wrk[t] EXCEPT !.asked = TRUE] ELSE wrk[t]]
  /\ hnd' = [hnd EXCEPT ![h] = [pc |-> "mark", user |-> s]]
  /\ UNCHANGED <<tracker, runs, history, lost>>

CancelMark(h) ==
  /\ hnd[h].pc = "mark"
  /\ tracker' = [tracker EXCEPT ![hnd[h].user] = [@ EXCEPT !.cancelRequested = TRUE]]
  /\ hnd' = [hnd EXCEPT ![h] = NoHandler]
  /\ UNCHANGED <<cancel, wrk, runs, history, lost>>

-----------------------------------------------------------------------------
(***************************************************************************)
(* The workers.  Where they differ:                                        *)
(*   IDFC      looks at the event before every branch, shows the branch's  *)
(*             percentage before building it, and fails if a build raises; *)
(*   EQUITAS1  looks before every branch, shows the percentage after it,   *)
(*             and only logs a branch that raises;                         *)
(*   EQUITAS2  has two steps a file, consolidate and write, each after a   *)
(*             look at the event;                                          *)
(*   ARVOG     looks only between files.                                   *)
(***************************************************************************)
Steps(b) == IF b = "EQUITAS2" THEN 2 ELSE Branches
Looks(b) == b # "ARVOG"

(* The share of a file's percentage that its branches get. *)
BuildShare(w) == IF w.zip /\ w.bank # "EQUITAS2" THEN 90 ELSE 100

(* Mutant: the branch's share without the files already done. *)
PctBeforeBuildOneFile(w) ==
  IF w.bank = "IDFC" THEN w.branch * BuildShare(w) ELSE tracker[w.local].pct

PctBeforeBuild(w) ==
  CASE w.bank = "IDFC" -> FilePct(w.file) + w.branch * BuildShare(w)
    [] w.bank = "EQUITAS2" /\ w.branch = 1 -> FilePct(w.file) + 20 * Branches
    [] OTHER -> tracker[w.local].pct

PctAfterBuild(w) ==
  CASE w.bank = "EQUITAS1" -> FilePct(w.file) + (w.made + 1) * BuildShare(w)
    [] w.bank = "EQUITAS2" -> FilePct(w.file) + (IF w.branch = 1 THEN 70 ELSE 100) * Branches
    [] OTHER -> tracker[w.local].pct

(* Mutant: a plain threading.Thread, bound to nobody. *)
BindForgotten(t) ==
  /\ wrk[t].pc = "bind"
  /\ Become(t, [wrk[t] EXCEPT !.pc = "file"])
  /\ UNCHANGED <<tracker, cancel, hnd, runs, history, lost>>

(* _runner: bind(user), then the target. *)
Bind(t) ==
  /\ wrk[t].pc = "bind"
  /\ Become(t, [wrk[t] EXCEPT !.pc = "file", !.local = wrk[t].user])
  /\ UNCHANGED <<tracker, cancel, hnd, runs, history, lost>>

FileStart(t) ==
  LET w == wrk[t] IN
  /\ w.pc = "file"
  /\ w.file <= Files
  /\ ~cancel[Here(t)]
  /\ ShowPct(t, FilePct(w.file))
  /\ Become(t, [wrk[t] EXCEPT !.pc = "branch", !.branch = 1, !.made = 0])
  /\ UNCHANGED <<cancel, hnd, runs, history, lost>>

(* Mutant: the history row is not written. *)
FileStopUnrecorded(t) ==
  LET w == wrk[t] IN
  /\ w.pc = "file"
  /\ w.file > Files \/ cancel[Here(t)]
  /\ Become(t, [wrk[t] EXCEPT !.pc = "complete", !.stopped = @ \/ w.file <= Files])
  /\ UNCHANGED <<tracker, cancel, hnd, runs, history, lost>>

FileStop(t) ==
  LET w == wrk[t] IN
  /\ w.pc = "file"
  /\ w.file > Files \/ cancel[Here(t)]
  /\ Become(t, [wrk[t] EXCEPT !.pc = "record", !.stopped = @ \/ w.file <= Files])
  /\ UNCHANGED <<tracker, cancel, hnd, runs, history, lost>>

(* Mutant: the event is looked at only between files. *)
BranchStartBlind(t) ==
  LET w == wrk[t] IN
  /\ w.pc = "branch"
  /\ w.branch <= Steps(w.bank)
  /\ ShowPct(t, PctBeforeBuild(w))
  /\ Become(t, [wrk[t] EXCEPT !.pc = "build"])
  /\ UNCHANGED <<cancel, hnd, runs, history, lost>>

BranchStart(t) ==
  LET w == wrk[t] IN
  /\ w.pc = "branch"
  /\ w.branch <= Steps(w.bank)
  /\ Looks(w.bank) => ~cancel[Here(t)]
  /\ ShowPct(t, PctBeforeBuild(w))
  /\ Become(t, [wrk[t] EXCEPT !.pc = "build"])
  /\ UNCHANGED <<cancel, hnd, runs, history, lost>>

BranchStop(t) ==
  LET w == wrk[t] IN
  /\ w.pc = "branch"
  /\ \/ w.branch > Steps(w.bank)
     \/ Looks(w.bank) /\ cancel[Here(t)]
  /\ Become(t, [wrk[t] EXCEPT !.pc = "pack", !.stopped = @ \/ w.branch <= Steps(w.bank)])
  /\ UNCHANGED <<tracker, cancel, hnd, runs, history, lost>>

(* One branch built.  late counts the builds that end after a cancel. *)
Build(t) ==
  LET w == wrk[t] IN
  /\ w.pc = "build"
  /\ ShowPct(t, PctAfterBuild(w))
  /\ Become(t, [wrk[t] EXCEPT !.pc = "branch", !.branch = w.branch + 1, !.made = @ + 1,
                   !.late = IF w.asked THEN @ + 1 ELSE @])
  /\ UNCHANGED <<cancel, hnd, runs, history, lost>>

(* EQUITAS1 logs a branch that raises and goes on with the next. *)
Skip(t) ==
  LET w == wrk[t] IN
  /\ w.pc = "build"
  /\ w.bank = "EQUITAS1"
  /\ Become(t, [wrk[t] EXCEPT !.pc = "branch", !.branch = w.branch + 1])
  /\ UNCHANGED <<tracker, cancel, hnd, runs, history, lost>>

(* The zip, unless the run was cancelled.  EQUITAS1 shows 92 and 96 for its *)
(* two archives, of which a run may make either or both.                    *)
Pack(t) ==
  LET w == wrk[t]
      zips == w.zip /\ ~cancel[Here(t)]
  IN
  /\ w.pc = "pack"
  /\ IF zips /\ w.bank = "EQUITAS1"
     THEN \E p \in {92, 96} :
            ShowPct(t, FilePct(w.file) + p * Branches)
     ELSE UNCHANGED tracker
  /\ Become(t, [wrk[t] EXCEPT !.pc = "file", !.file = w.file + 1])
  /\ UNCHANGED <<cancel, hnd, runs, history, lost>>

(* log_generation, which apply_patches() turns into nothing on the server. *)
Record(t) ==
  /\ wrk[t].pc = "record"
  /\ history' = IF WebMode THEN history ELSE [history EXCEPT ![wrk[t].user] = @ \cup {wrk[t].run}]
  /\ Become(t, [wrk[t] EXCEPT !.pc = "complete"])
  /\ UNCHANGED <<tracker, cancel, hnd, runs, lost>>

(* The closing "SUCCESS" log line and update_pct(100.0). *)
Complete(t) ==
  /\ wrk[t].pc = "complete"
  /\ ShowPct(t, FullPct)
  /\ Become(t, [wrk[t] EXCEPT !.pc = "summary"])
  /\ UNCHANGED <<cancel, hnd, runs, history, lost>>

Summarise(t) ==
  /\ wrk[t].pc = "summary"
  /\ SayOutcome(t, "success")
  /\ Become(t, [wrk[t] EXCEPT !.pc = "finally"])
  /\ UNCHANGED <<cancel, hnd, runs, history, lost>>

(* What can raise: reading the workbook, building a branch (EQUITAS1 only    *)
(* logs that one), packing, the history row, and on the desktop open_path    *)
(* after the percentage.                                                     *)
Raise(t) ==
  LET w == wrk[t] IN
  /\ \/ w.pc = "branch" /\ w.branch = 1
     \/ w.pc = "build" /\ w.bank # "EQUITAS1"
     \/ w.pc = "pack"
     \/ w.pc \in {"record", "summary"} /\ ~WebMode
  /\ Become(t, [wrk[t] EXCEPT !.pc = "except"])
  /\ UNCHANGED <<tracker, cancel, hnd, runs, history, lost>>

(* Mutant: the failure is logged and not summarised. *)
ExceptSilent(t) ==
  /\ wrk[t].pc = "except"
  /\ Become(t, [wrk[t] EXCEPT !.pc = "finally"])
  /\ UNCHANGED <<tracker, cancel, hnd, runs, history, lost>>

Except(t) ==
  /\ wrk[t].pc = "except"
  /\ SayOutcome(t, "failed")
  /\ Become(t, [wrk[t] EXCEPT !.pc = "finally"])
  /\ UNCHANGED <<cancel, hnd, runs, history, lost>>

(* Mutant: the flag is lowered on the success path only. *)
FinallyOnSuccess(t) ==
  /\ wrk[t].pc = "finally"
  /\ tracker' = [tracker EXCEPT ![Here(t)].running =
                   tracker[Here(t)].summary.outcome = "failed"]
  /\ Become(t, NoWorker)
  /\ UNCHANGED <<cancel, hnd, runs, history, lost>>

(* The finally clause, then unbind() and the end of the thread. *)
Finally(t) ==
  /\ wrk[t].pc = "finally"
  /\ LowerFlag(t)
  /\ Become(t, NoWorker)
  /\ UNCHANGED <<cancel, hnd, runs, history, lost>>

-----------------------------------------------------------------------------
Handler(h) ==
  \/ \E s \in Requesters : RunRequest(h, s) \/ CancelSet(h, s)
  \/ RunClear(h)
  \/ RunReset(h)
  \/ \E t \in Threads : RunSpawn(h, t)
  \/ RunRaise(h)
  \/ CancelMark(h)

Worker(t) ==
  \/ Bind(t)
  \/ FileStart(t) \/ FileStop(t)
  \/ BranchStart(t) \/ BranchStop(t) \/ Build(t) \/ Skip(t) \/ Pack(t)
  \/ Record(t) \/ Complete(t) \/ Summarise(t)
  \/ Raise(t) \/ Except(t) \/ Finally(t)

Next == (\E h \in Handlers : Handler(h)) \/ (\E t \in Threads : Worker(t))

Spec == Init /\ [][Next]_vars

(* A started thread keeps being scheduled, and a handler that has begun     *)
(* finishes; nobody is obliged to send a request.                           *)
Finishing(h) ==
  RunClear(h) \/ RunReset(h) \/ (\E t \in Threads : RunSpawn(h, t)) \/ CancelMark(h)

FairSpec ==
  /\ Spec
  /\ \A t \in Threads : WF_vars(Worker(t))
  /\ \A h \in Handlers : WF_vars(Finishing(h))

-----------------------------------------------------------------------------
(* Every variable has its type; a worker's counters stay within its batch. *)
InfoType ==
  [running : BOOLEAN, pct : Nat, cancelRequested : BOOLEAN,
   summary : [run : Nat, outcome : {"none", "success", "failed"}]]

HandlerType == [pc : {"idle", "clear", "reset", "spawn", "mark"}, user : Sessions]

WorkerType ==
  [pc : WorkerPcs, user : Sessions, local : Sessions, bank : BankKinds, zip : BOOLEAN,
   file : Nat \ {0}, branch : Nat, made : Nat, run : Nat,
   asked : BOOLEAN, stopped : BOOLEAN, late : Nat]

TypeOK ==
  /\ tracker \in [Sessions -> InfoType]
  /\ cancel \in [Sessions -> BOOLEAN]
  /\ hnd \in [Handlers -> HandlerType]
  /\ wrk \in [Threads -> WorkerType]
  /\ runs \in [Sessions -> Nat]
  /\ history \in [Sessions -> SUBSET Nat]
  /\ lost \subseteq Sessions

(* A session never has two workers: the check of handle_run at                *)
(* handlers.py:172, the reset at 236 and the thread start at 268 are three     *)
(* separate steps, and the flag is lowered by a fourth thread.                 *)
OneWorkerPerSession ==
  \A t, u \in Threads :
    Alive(t) /\ Alive(u) /\ wrk[t].user = wrk[u].user => t = u

(* One user's run is invisible to every other session: a tracker moves only    *)
(* with a step of a request or of a worker of its own session, although the    *)
(* workers never name the tracker they write (session.py's thread-local).      *)
OwnTrackerOnly ==
  [][\A s \in Sessions : tracker'[s] # tracker[s] =>
       \/ \E h \in Handlers : hnd[h].user = s /\ hnd'[h] # hnd[h]
       \/ \E t \in Threads : wrk[t].user = s /\ wrk'[t] # wrk[t]]_vars

(* A run that stops before its last branch was asked to stop while it was      *)
(* running: a cancel pressed while idle, or for the previous run, is gone by   *)
(* the time the next worker looks at the event (handlers.py:235).              *)
NoStaleCancel == \A t \in Threads : wrk[t].stopped => wrk[t].asked

(* A cancelled run finishes at most the branch it is in, or, for the Arvog     *)
(* worker, which never looks inside a workbook, the workbook it is in.         *)
CancelStopsTheRun ==
  \A t \in Threads : wrk[t].late <= (IF Looks(wrk[t].bank) THEN 1 ELSE Branches)

(* What a poll finds once the flag is down is the summary of the run that      *)
(* just ended: the workers write it before the flag, the handler clears it     *)
(* with the flag, and a worker started for one run never ends another's.       *)
EndedRunsAreSummarised ==
  \A s \in Sessions : ~tracker[s].running => tracker[s].summary.run = runs[s]

(* Within one run the progress bar never goes backwards and never passes the   *)
(* end, whatever mixture of per-file, per-branch and packing updates the       *)
(* bank's worker makes.                                                        *)
ProgressIsMonotone ==
  [][\A s \in Sessions : runs'[s] = runs[s] =>
       /\ tracker'[s].pct >= tracker[s].pct
       /\ tracker'[s].pct <= FullPct]_vars

(* On the desktop a run the user is told succeeded is in the history.          *)
SuccessIsRecorded ==
  \A s \in Sessions :
    tracker[s].summary.outcome = "success" /\ ~WebMode => tracker[s].summary.run \in history[s]

(* Every run that gets as far as a worker ends and frees its session, however  *)
(* it ends; a start that raises after the reset is the only other way out.     *)
RunsEnd == \A s \in Sessions : tracker[s].running ~> ~tracker[s].running \/ s \in lost

(***************************************************************************)
(* Why the above hold when requests are served one at a time (Serial): who *)
(* owns a session's flag is always one place, the worker bound to it or    *)
(* the handler starting one, and the summary follows the owner's step.     *)
(***************************************************************************)
Serial == \A h, k \in Handlers : h = k

WorkersAreBound == \A t \in Threads : wrk[t].pc # "bind" => wrk[t].local = wrk[t].user

WorkersOwnTheirSession ==
  \A t \in Threads : LET s == wrk[t].user IN
    Alive(t) =>
      /\ tracker[s].running
      /\ wrk[t].run = runs[s]
      /\ IF wrk[t].pc = "finally"
         THEN /\ tracker[s].summary.outcome \in {"success", "failed"}
              /\ tracker[s].summary.run = runs[s]
         ELSE tracker[s].summary = NoSummary

HandlersOwnTheirSession ==
  \A h \in Handlers : LET s == hnd[h].user IN
    /\ hnd[h].pc \in {"clear", "reset"} => ~tracker[s].running
    /\ hnd[h].pc = "spawn" => tracker[s].running /\ tracker[s].summary = NoSummary /\ ~InFlight(s)

SessionInv ==
  /\ TypeOK
  /\ OneWorkerPerSession
  /\ EndedRunsAreSummarised
  /\ WorkersAreBound
  /\ WorkersOwnTheirSession
  /\ HandlersOwnTheirSession

(* Why a cancel reaches the run it was pressed for and no other: the event   *)
(* is down while a start is under way, and up exactly when the live worker   *)
(* was asked to stop, so no worker begins a branch it would count as late.   *)
EventsFollowRuns ==
  /\ \A h \in Handlers : hnd[h].pc \in {"reset", "spawn"} => ~cancel[hnd[h].user]
  /\ \A t \in Threads : Alive(t) => (wrk[t].asked <=> cancel[wrk[t].user])

(* Where a worker is in its batch. *)
KeepsCount(w) ==
  /\ w.file <= Files + 1
  /\ w.pc \in {"branch", "build", "pack"} => w.file <= Files
  /\ w.pc \in {"branch", "build"} => w.made < w.branch
  /\ w.pc = "branch" => w.branch <= Steps(w.bank) + 1
  /\ w.pc = "build" => w.branch <= Steps(w.bank)

WorkersKeepCount == \A t \in Threads : KeepsCount(wrk[t])

LateIsBounded(w) ==
  /\ w.stopped => w.asked
  /\ ~w.asked => w.late = 0
  /\ w.late <= (IF Looks(w.bank) THEN 1 ELSE Branches)
  /\ w.pc = "build" /\ Looks(w.bank) => w.late = 0
  /\ w.pc \in {"branch", "build"} /\ ~Looks(w.bank) => w.late < w.branch

LateBuildsAreFew == \A t \in Threads : LateIsBounded(wrk[t])

(* How far the bar can be when a worker is where it is: what the next update *)
(* shows is never less.                                                      *)
BarBound(w) ==
  CASE w.pc \in {"bind", "file"} -> FilePct(w.file)
    [] w.pc \in {"branch", "build"} /\ w.bank = "ARVOG" -> FilePct(w.file)
    [] w.pc = "branch" /\ w.bank = "IDFC" -> FilePct(w.file) + (w.branch - 1) * BuildShare(w)
    [] w.pc = "build" /\ w.bank = "IDFC" -> FilePct(w.file) + w.branch * BuildShare(w)
    [] w.pc \in {"branch", "build"} /\ w.bank = "EQUITAS1" -> FilePct(w.file) + w.made * BuildShare(w)
    [] w.pc \in {"branch", "build"} /\ w.bank = "EQUITAS2" ->
         FilePct(w.file) + Branches * (CASE w.branch = 1 -> IF w.pc = "branch" THEN 0 ELSE 20
                                         [] w.branch = 2 -> 70
                                         [] OTHER -> 100)
    [] w.pc = "pack" -> FilePct(w.file) + BuildShare(w) * Branches
    [] OTHER -> FullPct

BarFollowsBatch ==
  /\ \A s \in Sessions : tracker[s].pct <= FullPct
  /\ \A h \in Handlers : hnd[h].pc = "spawn" => tracker[hnd[h].user].pct = 0
  /\ \A t \in Threads : Alive(t) => tracker[wrk[t].user].pct <= BarBound(wrk[t])

(* The row of a run is written before its summary claims success. *)
RowsComeFirst ==
  \A t \in Threads :
    wrk[t].pc \in {"complete", "summary"} /\ ~WebMode => wrk[t].run \in history[wrk[t].user]

JobInv ==
  /\ SessionInv
  /\ WorkersKeepCount
  /\ EventsFollowRuns /\ LateBuildsAreFew
  /\ RowsComeFirst /\ SuccessIsRecorded
  /\ BarFollowsBatch

(* The implementation of the lifecycle a caller relies on. *)
Lifecycle == INSTANCE JobLifecycle WITH
  inFlight <- [s \in Sessions |-> tracker[s].running],
  outcome <- [s \in Sessions |-> tracker[s].summary.outcome],
  count <- runs

ImplementsLifecycle == Lifecycle!Spec

=============================================================================
