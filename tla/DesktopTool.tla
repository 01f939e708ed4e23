----------------------------- MODULE DesktopTool -----------------------------
(***************************************************************************)
(* A tool tab of the desktop program: Merge PDF, Flatten PDF, the Report   *)
(* Validator and the Arvog Rebuild.  Their handlers share one shape: a     *)
(* module-level tracker, a run handler that starts a thread on it, a       *)
(* worker, _fail, and a poll that reads the tracker field by field.  They  *)
(* differ in where the output goes.                                        *)
(*                                                                         *)
(* The bridge serves the page's calls on threads, so a poll is under way   *)
(* while the worker writes.                                                *)
(***************************************************************************)
EXTENDS Naturals, FiniteSets

CONSTANTS
  Tools,     (* which of the four, all of them here *)
  Sources,   (* what can be picked: folders, PDFs, workbooks *)
  MaxRuns,   (* bound: runs, and so the copies of an output *)
  MaxCloses, (* bound: times the program is closed *)
  Overlap    (* two calls of the page's run handler may be under way at once *)

ASSUME DesktopToolAssumption ==
  /\ Tools \subseteq {"merge", "flatten", "report", "rebuild"}
  /\ Sources # {} /\ MaxRuns \in Nat /\ MaxCloses \in Nat /\ Overlap \in BOOLEAN

Calls == {"c1", "c2"}        (* the threads of the bridge that run the handler *)
Runs == 1..MaxRuns
Copies == 1..(MaxRuns + 1)   (* "X.zip", "X (2).zip", ... *)

VARIABLES
  tool,      (* the tab *)
  trk,       (* its tracker *)
  call,      (* what each call of the run handler has come to *)
  worker,    (* each run's thread *)
  out,       (* the output files: what is written under each name *)
  poll,      (* the poll under way, with what it has read *)
  seen,      (* the answer of the last poll *)
  closes

toolVars == <<tool, trk, call, worker, out, poll, seen, closes>>

NoOutput == 0
Partial == MaxRuns + 1
Outputs == Sources \X Copies

FreshTracker == [running |-> FALSE, pct |-> 0, summary |-> 0, error |-> 0, begun |-> FALSE]
NoCall == [at |-> "idle", src |-> CHOOSE s \in Sources : TRUE]
NoWorker == [at |-> "none", src |-> CHOOSE s \in Sources : TRUE, copy |-> 1]
NoPoll == [at |-> "idle", running |-> TRUE, pct |-> 0, summary |-> 0]
NoAnswer == [running |-> TRUE, pct |-> 0, summary |-> 0, error |-> 0]

ToolInit ==
  /\ tool \in Tools
  /\ trk = FreshTracker
  /\ call = [c \in Calls |-> NoCall]
  /\ worker = [r \in Runs |-> NoWorker]
  /\ out = [n \in Outputs |-> NoOutput]
  /\ poll = NoPoll /\ seen = NoAnswer
  /\ closes = 0

-----------------------------------------------------------------------------
(* handle_*_run, past the checks of what was picked. *)
RunAsk(c, s) ==
  /\ call[c] = NoCall
  /\ Overlap \/ ((\A d \in Calls : call[d] = NoCall) /\ poll = NoPoll)
  /\ ~trk.running
  /\ call' = [call EXCEPT ![c] = [at |-> "reset", src |-> s]]
  /\ UNCHANGED <<tool, trk, worker, out, poll, seen, closes>>

(* reset() raises the flag. *)
RunReset(c) ==
  /\ call[c].at = "reset"
  /\ trk' = [FreshTracker EXCEPT !.running = TRUE, !.begun = TRUE]
  /\ call' = [call EXCEPT ![c].at = "start"]
  /\ seen' = NoAnswer
  /\ UNCHANGED <<tool, worker, out, poll, closes>>

RunStart(c) ==
  /\ call[c].at = "start"
  /\ \E r \in Runs :
       /\ worker[r].at = "none" /\ \A q \in Runs : q < r => worker[q].at # "none"
       /\ worker' = [worker EXCEPT ![r] = [at |-> "name", src |-> call[c].src, copy |-> 1]]
  /\ call' = [call EXCEPT ![c] = NoCall]
  /\ UNCHANGED <<tool, trk, out, poll, seen, closes>>

(* Only as many runs as are counted. *)
MayRun == Cardinality({r \in Runs : worker[r].at = "none"})
            > Cardinality({c \in Calls : call[c] # NoCall})

-----------------------------------------------------------------------------

(* _zip_destination: the first free name; the others have one name for a     *)
(* source ("_flattened", "_master", the branch and dates of the report).     *)
OutputCopy(s, r) ==
  IF tool = "merge"
  THEN CHOOSE n \in Copies :
         out[<<s, n>>] = NoOutput /\ \A m \in Copies : m < n => out[<<s, m>>] # NoOutput
  ELSE 1

At(r, a, b) == worker[r].at = a /\ worker' = [worker EXCEPT ![r].at = b]

WorkerNames(r) ==
  /\ worker[r].at = "name"
  /\ worker' = [worker EXCEPT ![r].at = "work", ![r].copy = OutputCopy(worker[r].src, r)]
  /\ UNCHANGED <<tool, trk, call, out, poll, seen, closes>>

(* The service reports its progress, and may raise. *)
WorkerWorks(r) ==
  /\ \/ At(r, "work", "write") /\ trk' = [trk EXCEPT !.pct = 50]
     \/ At(r, "work", "fail") /\ UNCHANGED trk
  /\ UNCHANGED <<tool, call, out, poll, seen, closes>>

Dest(r) == <<worker[r].src, worker[r].copy>>

(* The output is opened, then written; writing may fail half way. *)
WorkerOpens(r) ==
  /\ At(r, "write", "close")
  /\ out' = [out EXCEPT ![Dest(r)] = Partial]
  /\ UNCHANGED <<tool, trk, call, poll, seen, closes>>

WorkerWrites(r) ==
  /\ \/ At(r, "close", "summary") /\ out' = [out EXCEPT ![Dest(r)] = r]
     \/ At(r, "close", "fail") /\ UNCHANGED out
  /\ UNCHANGED <<tool, trk, call, poll, seen, closes>>

(* Mutant: the flag goes down first. *)
ReportsFlagFirst(r) ==
  /\ \/ At(r, "summary", "pct") /\ trk' = [trk EXCEPT !.running = FALSE]
     \/ At(r, "pct", "flag") /\ trk' = [trk EXCEPT !.pct = 100]
     \/ At(r, "flag", "done") /\ trk' = [trk EXCEPT !.summary = r]
  /\ UNCHANGED <<tool, call, out, poll, seen, closes>>

(* The summary, the percentage, then the flag; the notification, which       *)
(* swallows its errors, changes nothing.                                     *)
WorkerReports(r) ==
  /\ \/ At(r, "summary", "pct") /\ trk' = [trk EXCEPT !.summary = r]
     \/ At(r, "pct", "flag") /\ trk' = [trk EXCEPT !.pct = 100]
     \/ At(r, "flag", "done") /\ trk' = [trk EXCEPT !.running = FALSE]
  /\ UNCHANGED <<tool, call, out, poll, seen, closes>>

(* Mutant: the flag stays up after a failure. *)
FailsRunning(r) ==
  /\ \/ At(r, "fail", "failpct") /\ trk' = [trk EXCEPT !.error = r]
     \/ At(r, "failpct", "done") /\ trk' = [trk EXCEPT !.pct = 100]
  /\ UNCHANGED <<tool, call, out, poll, seen, closes>>

(* _fail: the message, the percentage, then the flag. *)
WorkerFails(r) ==
  /\ \/ At(r, "fail", "failpct") /\ trk' = [trk EXCEPT !.error = r]
     \/ At(r, "failpct", "failflag") /\ trk' = [trk EXCEPT !.pct = 100]
     \/ At(r, "failflag", "done") /\ trk' = [trk EXCEPT !.running = FALSE]
  /\ UNCHANGED <<tool, call, out, poll, seen, closes>>

Worker(r) ==
  WorkerNames(r) \/ WorkerWorks(r) \/ WorkerOpens(r) \/ WorkerWrites(r)
    \/ WorkerReports(r) \/ WorkerFails(r)

-----------------------------------------------------------------------------
(* handle_*_progress: the dict is built field by field.  The page polls once *)
(* its run has been answered.                                                *)
Poll ==
  /\ \/ /\ poll.at = "idle" /\ trk.begun /\ (Overlap \/ \A c \in Calls : call[c] = NoCall)
        /\ poll' = [poll EXCEPT !.at = "pct", !.running = trk.running]
        /\ UNCHANGED seen
     \/ poll.at = "pct" /\ poll' = [poll EXCEPT !.at = "summary", !.pct = trk.pct] /\ UNCHANGED seen
     \/ poll.at = "summary" /\ poll' = [poll EXCEPT !.at = "error", !.summary = trk.summary]
        /\ UNCHANGED seen
     \/ /\ poll.at = "error" /\ poll' = NoPoll
        /\ seen' = [running |-> poll.running, pct |-> poll.pct,
                    summary |-> poll.summary, error |-> trk.error]
  /\ UNCHANGED <<tool, trk, call, worker, out, closes>>

(* The program is closed and started again, the daemon threads go with it. *)
Close ==
  /\ closes < MaxCloses
  /\ closes' = closes + 1
  /\ trk' = FreshTracker
  /\ call' = [c \in Calls |-> NoCall]
  /\ worker' = [r \in Runs |-> IF worker[r].at = "none" THEN NoWorker
                               ELSE [worker[r] EXCEPT !.at = "done"]]
  /\ poll' = NoPoll /\ seen' = NoAnswer
  /\ UNCHANGED <<tool, out>>

ToolNext ==
  \/ MayRun /\ \E c \in Calls, s \in Sources : RunAsk(c, s)
  \/ \E c \in Calls : RunReset(c) \/ RunStart(c)
  \/ \E r \in Runs : Worker(r)
  \/ Poll
  \/ Close

ToolSpec == ToolInit /\ [][ToolNext]_toolVars

(* The calls of the bridge and the threads go on running. *)
ToolFairness ==
  /\ WF_toolVars(\E c \in Calls : RunReset(c) \/ RunStart(c))
  /\ \A r \in Runs : WF_toolVars(Worker(r))

-----------------------------------------------------------------------------
ToolTypeOK ==
  /\ tool \in Tools
  /\ trk \in [running : BOOLEAN, pct : {0, 50, 100}, summary : 0..MaxRuns,
              error : 0..MaxRuns, begun : BOOLEAN]
  /\ call \in [Calls -> [at : {"idle", "reset", "start"}, src : Sources]]
  /\ worker \in [Runs -> [at : {"none", "name", "work", "write", "close", "summary", "pct",
                                "flag", "fail", "failpct", "failflag", "done"},
                          src : Sources, copy : Copies]]
  /\ out \in [Outputs -> 0..(MaxRuns + 1)]
  /\ poll \in [at : {"idle", "pct", "summary", "error"}, running : BOOLEAN,
               pct : {0, 50, 100}, summary : 0..MaxRuns]
  /\ seen \in [running : BOOLEAN, pct : {0, 50, 100}, summary : 0..MaxRuns, error : 0..MaxRuns]
  /\ closes \in 0..MaxCloses

(* A poll that says the run is over, built while the worker was writing the  *)
(* tracker, comes with the whole bar and with one outcome: its result, of    *)
(* which the output is on disk, or its error ("each attribute is written as  *)
(* a whole value", _MergeTracker).                                           *)
OverHasOutcome ==
  ~seen.running =>
    /\ seen.pct = 100
    /\ (seen.summary = 0) # (seen.error = 0)
    /\ seen.summary # 0 => out[Dest(seen.summary)] = seen.summary

Busy(r) == worker[r].at \notin {"none", "done"}
Over == ~trk.running /\ trk.begun

(* One thing at a time: a call of the run handler, or the thread it started, *)
(* has the tracker to itself, and no poll is under way during a call.        *)
TrackerIsOwned ==
  /\ \A c \in Calls : call[c].at = "idle" => call[c] = NoCall
  /\ \A c, d \in Calls : call[c].at # "idle" /\ call[d].at # "idle" => c = d
  /\ \A c \in Calls : call[c].at # "idle" =>
       poll = NoPoll /\ (\A r \in Runs : ~Busy(r)) /\ (trk.running <=> call[c].at = "start")
  /\ \A r, q \in Runs : Busy(r) /\ Busy(q) => r = q
  /\ \A r \in Runs : Busy(r) => trk.running

(* How far the thread at work is, told by the tracker.                       *)
StagesOfRun ==
  /\ \A c \in Calls : call[c].at = "start" => trk.summary = 0 /\ trk.error = 0
  /\ \A r \in Runs :
       /\ worker[r].at \in {"name", "work", "write", "close", "summary", "fail"} =>
            trk.summary = 0 /\ trk.error = 0
       /\ worker[r].at \in {"pct", "flag"} => trk.summary = r /\ trk.error = 0
       /\ worker[r].at \in {"failpct", "failflag"} => trk.summary = 0 /\ trk.error = r
       /\ worker[r].at \in {"flag", "failflag"} => trk.pct = 100
       /\ worker[r].at \in {"summary", "pct", "flag"} => out[Dest(r)] = r
  /\ Over =>
       /\ trk.pct = 100 /\ (trk.summary = 0) # (trk.error = 0)
       /\ trk.summary # 0 => worker[trk.summary].at # "none" /\ out[Dest(trk.summary)] = trk.summary

(* What a poll has read once the flag was down stays what the tracker says.  *)
PollsAgree ==
  /\ poll.at = "idle" => poll = NoPoll
  /\ ~poll.running =>
       /\ Over
       /\ poll.at \in {"summary", "error"} => poll.pct = trk.pct
       /\ poll.at = "error" => poll.summary = trk.summary
  /\ ~seen.running =>
       Over /\ seen.pct = trk.pct /\ seen.summary = trk.summary /\ seen.error = trk.error

(* Each output that is there was written by a run that has it.               *)
OutputsHaveRuns ==
  \A n \in Outputs : out[n] # NoOutput =>
    \E r \in Runs : worker[r].at \notin {"none", "name"} /\ Dest(r) = n

(* With the types: a run reported as over has its one outcome, since runs    *)
(* take turns at the tracker (when the page sends one call at a time).       *)
ToolInv ==
  /\ ToolTypeOK /\ OverHasOutcome
  /\ ~Overlap => TrackerIsOwned /\ StagesOfRun /\ PollsAgree /\ OutputsHaveRuns

(* The flag that run handlers ask for comes down after every run, so that    *)
(* the tool can be used again.                                               *)
FlagComesDown == trk.running ~> ~trk.running

=============================================================================
