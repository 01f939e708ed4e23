--------------------------- MODULE Consolidation ---------------------------
(***************************************************************************)
(* Consolidation in the browser: handle_consolidate_run, its worker and    *)
(* its progress poll (web/handlers.py), the cleanup web_consolidate_run    *)
(* puts around it, and the parse cache of consolidator/consolidate.py.     *)
(*                                                                         *)
(* Unlike a bank job there is one tracker for the whole server, nothing    *)
(* refuses a second run, and the rows of a parsed workbook stay in a       *)
(* process-wide cache under its path and, when it was not parsed before    *)
(* the run, under its bare name.  Requests are served one at a time;       *)
(* workers, reapers and the poll's own steps interleave.                   *)
(***************************************************************************)
EXTENDS Naturals, FiniteSets

CONSTANTS
  Users,       (* signed-in users *)
  Pollers,     (* the users whose page polls *)
  Names,       (* file names; several uploads may share one *)
  MaxUploads,  (* bound: uploads *)
  MaxRuns      (* bound: accepted runs *)

ASSUME ConsolidationAssumption ==
  /\ Pollers \subseteq Users
  /\ MaxUploads \in Nat /\ MaxRuns \in Nat
  /\ Names \cap (0..MaxUploads) = {}
  /\ "nobody" \notin Users

(* An upload is known by its path, a folder of its own; so are its rows. *)
Paths == 1..MaxUploads
Runs == 1..MaxRuns
Miss == {0}

VARIABLES
  file,     (* file[p]: who uploaded it, and its name *)
  disk,     (* the uploads still on disk *)
  cache,    (* PREPARSED_CACHE: the rows under a path or a name, or Miss *)
  trk,      (* consolidation_tracker; summary is the run it is of *)
  wrk,      (* wrk[n]: the worker of the n-th accepted run *)
  runs,     (* accepted runs *)
  out,      (* out[u]: the run whose workbook lies in OUTPUT_DIR/u *)
  reapers,  (* threads of _reap_inputs_when_job_ends *)
  poll,     (* the progress request being served *)
  seen,     (* seen[u]: the run whose summary u was last shown *)
  readable, (* the uploads that are workbooks one can parse *)
  patient,  (* users start a run only when none is in progress, as the page makes one do *)
  logTakes  (* the history database takes the row of every run *)

vars == <<file, disk, cache, trk, wrk, runs, out, reapers, poll, seen>>
around == <<readable, patient, logTakes>>   (* settled before the first step *)
allVars == <<vars, around>>

Nobody == "nobody"
NoRun == 0
NoWorker == [pc |-> "idle", user |-> Nobody, want |-> {}, todo |-> {}, rows |-> {}]
NoPoll == [user |-> Nobody, summary |-> NoRun]

Init ==
  /\ file = [p \in Paths |-> [user |-> Nobody, name |-> Nobody]]
  /\ disk = {}
  /\ cache = [k \in Paths \cup Names |-> Miss]
  /\ trk = [running |-> FALSE, summary |-> NoRun, error |-> FALSE]
  /\ wrk = [n \in Runs |-> NoWorker]
  /\ runs = 0
  /\ out = [u \in Users |-> NoRun]
  /\ reapers = {}
  /\ poll = NoPoll
  /\ seen = [u \in Users |-> NoRun]
  /\ readable \in SUBSET Paths /\ patient \in BOOLEAN /\ logTakes \in BOOLEAN

Uploaded == {p \in Paths : file[p].user # Nobody}
Serving == poll # NoPoll

-----------------------------------------------------------------------------
Upload(u, p, x) ==
  /\ ~Serving
  /\ p = Cardinality(Uploaded) + 1
  /\ file' = [file EXCEPT ![p] = [user |-> u, name |-> x]]
  /\ disk' = disk \cup {p}
  /\ UNCHANGED <<cache, trk, wrk, runs, out, reapers, poll, seen>>

(* The rows of a workbook; one that is gone or cannot be parsed has none. *)
Read(p) == {p} \cap disk \cap readable

(* handle_preparse_file: the workbook, anyone's, is parsed under its path.    *)
Preparse(p) ==
  /\ ~Serving
  /\ p \in disk
  /\ cache[p] = Miss
  /\ cache' = [cache EXCEPT ![p] = Read(p)]
  /\ UNCHANGED <<file, disk, trk, wrk, runs, out, reapers, poll, seen>>

(* files_dict has one path per name, that of the last file listed with it. *)
OnePerName(chosen, found) ==
  /\ chosen \subseteq found
  /\ \A p \in found : \E q \in chosen : file[q].name = file[p].name
  /\ \A p, q \in chosen : file[p].name = file[q].name => p = q

(* web_consolidate_run purges first, whether or not the run is accepted. *)
Purge(u, keep) ==
  /\ disk' = {p \in disk : file[p].user = u => p \in keep}
  /\ out' = [out EXCEPT ![u] = NoRun]

(* handle_consolidate_run: accepted if any of the files exists, whosever      *)
(* they are.                                                                 *)
Run(u, ins, chosen) ==
  /\ ~Serving
  /\ patient => ~trk.running
  /\ runs < MaxRuns
  /\ Purge(u, ins)
  /\ chosen # {}
  /\ OnePerName(chosen, ins \cap disk)
  /\ runs' = runs + 1
  /\ trk' = [running |-> TRUE, summary |-> NoRun, error |-> FALSE]
  /\ wrk' = [wrk EXCEPT ![runs + 1] = [NoWorker EXCEPT !.pc = "begin", !.user = u,
                                                       !.want = chosen, !.todo = chosen]]
  /\ reapers' = reapers \cup {[user |-> u, run |-> runs + 1, targets |-> ins, pc |-> "wait"]}
  /\ UNCHANGED <<file, cache, poll, seen>>

Refuse(u, ins) ==
  /\ ~Serving
  /\ patient => ~trk.running
  /\ ins \cap disk = {}
  /\ Purge(u, ins)
  /\ UNCHANGED <<file, cache, trk, wrk, runs, reapers, poll, seen>>

(* handle_consolidate_progress reads the summary first, ... *)
PollSummary(u) ==
  /\ ~Serving
  /\ poll' = [user |-> u, summary |-> trk.summary]
  /\ UNCHANGED <<file, disk, cache, trk, wrk, runs, out, reapers, seen>>

(* ... the rest when it builds the answer. *)
PollAnswer ==
  /\ Serving
  /\ seen' = [seen EXCEPT ![poll.user] = poll.summary]
  /\ poll' = NoPoll
  /\ UNCHANGED <<file, disk, cache, trk, wrk, runs, out, reapers>>

-----------------------------------------------------------------------------
(* worker_consolidation_thread. *)
Begin(n) ==
  /\ wrk[n].pc = "begin"
  /\ wrk' = [wrk EXCEPT ![n].pc = "parse"]
  /\ trk' = [trk EXCEPT !.running = TRUE, !.error = FALSE]
  /\ UNCHANGED <<file, disk, cache, runs, out, reapers, poll, seen>>

(* One workbook: from the cache under its path, then under its name, else   *)
(* parsed and cached under both.  One that cannot be read gives no rows, is *)
(* cached so under its name, and does not fail the run.                     *)
Parse(n, p) ==
  LET x == file[p].name
      hit == IF cache[p] # Miss THEN cache[p] ELSE cache[x]
  IN
  /\ wrk[n].pc = "parse"
  /\ p \in wrk[n].todo
  /\ IF hit # Miss
     THEN /\ wrk' = [wrk EXCEPT ![n].todo = @ \ {p}, ![n].rows = @ \cup hit]
          /\ UNCHANGED cache
     ELSE /\ wrk' = [wrk EXCEPT ![n].todo = @ \ {p}, ![n].rows = @ \cup Read(p)]
          /\ cache' = IF Read(p) # {} THEN [cache EXCEPT ![p] = {p}, ![x] = {p}]
                                      ELSE [cache EXCEPT ![x] = {}]
  /\ UNCHANGED <<file, disk, trk, runs, out, reapers, poll, seen>>

(* Mutant: the output directory is the one the client or the settings name, shared by all. *)
SharedOut(u) == CHOOSE v \in Users : TRUE

OutDir(u) == u

(* The merged workbook goes to a fixed name in the user's output directory. *)
WriteWorkbook(n) ==
  /\ wrk[n].pc = "parse"
  /\ wrk[n].todo = {}
  /\ out' = [out EXCEPT ![OutDir(wrk[n].user)] = n]
  /\ wrk' = [wrk EXCEPT ![n].pc = "tell"]
  /\ UNCHANGED <<file, disk, cache, trk, runs, reapers, poll, seen>>

(* Mutant: the summary is not published. *)
TellNothing(n) ==
  /\ wrk[n].pc = "tell"
  /\ wrk' = [wrk EXCEPT ![n].pc = "lower"]
  /\ UNCHANGED <<file, disk, cache, trk, runs, out, reapers, poll, seen>>

TellSummary(n) ==
  /\ wrk[n].pc = "tell"
  /\ trk' = [trk EXCEPT !.summary = n]
  /\ wrk' = [wrk EXCEPT ![n].pc = "lower"]
  /\ UNCHANGED <<file, disk, cache, runs, out, reapers, poll, seen>>

Lower(n) ==
  /\ wrk[n].pc = "lower"
  /\ trk' = [trk EXCEPT !.running = FALSE]
  /\ wrk' = [wrk EXCEPT ![n].pc = "log"]
  /\ UNCHANGED <<file, disk, cache, runs, out, reapers, poll, seen>>

(* log_consolidation, after the flag is already down. *)
Log(n) ==
  /\ wrk[n].pc = "log"
  /\ wrk' = [wrk EXCEPT ![n].pc = "ended"]
  /\ UNCHANGED <<file, disk, cache, trk, runs, out, reapers, poll, seen>>

(* Merging or writing raises, or the history row does. *)
Raise(n) ==
  /\ \/ wrk[n].pc = "parse" /\ wrk[n].todo = {}
     \/ wrk[n].pc = "log" /\ ~logTakes
  /\ wrk' = [wrk EXCEPT ![n].pc = "error"]
  /\ UNCHANGED <<file, disk, cache, trk, runs, out, reapers, poll, seen>>

SetError(n) ==
  /\ wrk[n].pc = "error"
  /\ trk' = [trk EXCEPT !.error = TRUE]
  /\ wrk' = [wrk EXCEPT ![n].pc = "fail"]
  /\ UNCHANGED <<file, disk, cache, runs, out, reapers, poll, seen>>

(* Mutant: a failed run leaves the flag up. *)
FailRunning(n) ==
  /\ wrk[n].pc = "fail"
  /\ wrk' = [wrk EXCEPT ![n].pc = "failed"]
  /\ UNCHANGED <<file, disk, cache, trk, runs, out, reapers, poll, seen>>

Fail(n) ==
  /\ wrk[n].pc = "fail"
  /\ trk' = [trk EXCEPT !.running = FALSE]
  /\ wrk' = [wrk EXCEPT ![n].pc = "failed"]
  /\ UNCHANGED <<file, disk, cache, runs, out, reapers, poll, seen>>

-----------------------------------------------------------------------------
(* Mutant: the reaper watches the bank jobs' flag, which consolidation never raises. *)
BankFlag == FALSE

(* The flag web_consolidate_run has the reaper watch: everyone's. *)
StillRunning == trk.running

ReaperSees(r) ==
  /\ r.pc = "wait"
  /\ ~StillRunning
  /\ reapers' = (reapers \ {r}) \cup {[r EXCEPT !.pc = "remove"]}
  /\ UNCHANGED <<file, disk, cache, trk, wrk, runs, out, poll, seen>>

ReaperRemoves(r) ==
  /\ r.pc = "remove"
  /\ disk' = disk \ r.targets
  /\ reapers' = reapers \ {r}
  /\ UNCHANGED <<file, cache, trk, wrk, runs, out, poll, seen>>

Request(u) ==
  \/ \E p \in Paths, x \in Names : Upload(u, p, x)
  \/ \E p \in Paths : Preparse(p)
  \/ \E ins \in (SUBSET Uploaded) \ {{}} :
       Refuse(u, ins) \/ \E chosen \in SUBSET ins : Run(u, ins, chosen)
  \/ u \in Pollers /\ PollSummary(u)

Worker(n) ==
  \/ Begin(n) \/ (\E p \in Paths : Parse(n, p)) \/ WriteWorkbook(n)
  \/ TellSummary(n) \/ Lower(n) \/ Log(n)
  \/ Raise(n) \/ SetError(n) \/ Fail(n)

Reaper == \E r \in reapers : ReaperSees(r) \/ ReaperRemoves(r)

Next ==
  /\ UNCHANGED around
  /\ \/ \E u \in Users : Request(u)
     \/ PollAnswer
     \/ \E n \in Runs : Worker(n)
     \/ Reaper

Spec == Init /\ [][Next]_allVars

(* Threads are scheduled; nobody is obliged to send a request. *)
FairSpec == Spec /\ (\A n \in Runs : WF_vars(Worker(n))) /\ WF_vars(Reaper) /\ WF_vars(PollAnswer)

-----------------------------------------------------------------------------
(* Types; a run's rows come from files that were uploaded. *)
TypeOK ==
  /\ readable \subseteq Paths
  /\ file \in [Paths -> [user : Users \cup {Nobody}, name : Names \cup {Nobody}]]
  /\ disk \subseteq Uploaded
  /\ cache \in [Paths \cup Names -> (SUBSET Paths) \cup {Miss}]
  /\ trk \in [running : BOOLEAN, summary : Runs \cup {NoRun}, error : BOOLEAN]
  /\ wrk \in [Runs -> [pc : {"idle", "begin", "parse", "tell", "lower", "log", "ended",
                             "error", "fail", "failed"},
                       user : Users \cup {Nobody}, want : SUBSET Paths, todo : SUBSET Paths,
                       rows : SUBSET Uploaded]]
  /\ runs \in 0..MaxRuns
  /\ out \in [Users -> Runs \cup {NoRun}]
  /\ reapers \subseteq [user : Users, run : Runs, targets : SUBSET Uploaded, pc : {"wait", "remove"}]
  /\ poll \in [user : Users \cup {Nobody}, summary : Runs \cup {NoRun}]
  /\ seen \in [Users -> Runs \cup {NoRun}]

OutputsAreSeparate == \A u \in Users : out[u] # NoRun => wrk[out[u]].user = u

UploadsAreNumbered ==
  /\ \E k \in 0..MaxUploads : Uploaded = 1..k
  /\ \A p \in Uploaded : file[p].name \in Names

RunsAreNumbered ==
  /\ \A n \in Runs : IF n > runs THEN wrk[n] = NoWorker ELSE wrk[n].pc # "idle" /\ wrk[n].user \in Users
  /\ \A u \in Users : out[u] <= runs

WorkersReadTheirOwn ==
  \A n \in Runs :
    /\ wrk[n].want \subseteq Uploaded /\ wrk[n].todo \subseteq wrk[n].want
    /\ wrk[n].pc \notin {"begin", "parse"} => wrk[n].todo = {}
    /\ \A q \in wrk[n].rows : q \in readable /\ \E p \in wrk[n].want : file[q].name = file[p].name

(* What is cached under a path is that workbook, under a name one of the name. *)
CacheIsByName ==
  /\ \A p \in Paths : cache[p] # Miss => cache[p] = {p} \cap readable /\ p \in Uploaded
  /\ \A x \in Names : cache[x] # Miss =>
       /\ \A q \in cache[x] : q \in Uploaded \cap readable /\ file[q].name = x
       /\ \E p \in Uploaded : file[p].name = x

(* However runs overlap and fail: the types, and whose the workbooks are.      *)
ConsolidationInv ==
  /\ TypeOK /\ UploadsAreNumbered /\ RunsAreNumbered
  /\ WorkersReadTheirOwn /\ CacheIsByName /\ OutputsAreSeparate

-----------------------------------------------------------------------------
(* Users wait for the run in progress, and no run is left by its history row   *)
(* when the next one has begun.                                                *)
TakeTurns == patient /\ logTakes

(* When users take turns, a run whose file names are nobody else's merges     *)
(* exactly the workbooks it was given that can be parsed, although the reaper, *)
(* the purge and the cache all touch them while it reads.                      *)
NamedOnce(n) == \A p \in wrk[n].want, q \in Uploaded : file[p].name = file[q].name => p = q

MergesWhatWasGiven ==
  TakeTurns => \A n \in Runs :
    wrk[n].pc \in {"tell", "lower", "log", "ended"} /\ NamedOnce(n) => wrk[n].rows = wrk[n].want \cap readable

(* When users take turns, the flag is down only when the last run's outcome,   *)
(* its summary or an error, is there to be read.                              *)
OutcomeIsThere == ~trk.running /\ runs > 0 => trk.summary = runs \/ trk.error
OutcomeWhenDown == TakeTurns => OutcomeIsThere

(* Why: the flag belongs to the last run until its worker lowers it.           *)
Busy(n) == wrk[n].pc \in {"begin", "parse", "tell", "lower", "error", "fail"}

OneAtATime ==
  \A n \in Runs :
    /\ Busy(n) => n = runs /\ trk.running
    /\ wrk[n].pc = "lower" => trk.summary = n
    /\ wrk[n].pc = "fail" => trk.error

(* A workbook with a name of its own is read once, or still there to be read:  *)
(* a reaper is left with what its run has read.                                *)
Only(p) == \A q \in Uploaded : file[p].name = file[q].name => p = q
Cached(p) == cache[p] # Miss \/ cache[file[p].name] # Miss

ReadOrThere ==
  /\ \A p \in Uploaded : Only(p) => cache[file[p].name] \in {Miss, {p} \cap readable}
  /\ \A n \in Runs : \A p \in wrk[n].want : Only(p) =>
       IF p \in wrk[n].todo THEN p \in disk \/ Cached(p) ELSE {p} \cap readable \subseteq wrk[n].rows /\ Cached(p)

ReapersComeAfter ==
  \A r \in reapers :
    /\ r.run <= runs
    /\ r.pc = "remove" => ~Busy(r.run)
    /\ \A p \in r.targets \cap disk : Only(p) => p \in wrk[r.run].want

TurnsInv ==
  /\ ConsolidationInv /\ OneAtATime /\ ReadOrThere /\ ReapersComeAfter
  /\ OutcomeIsThere

(* However the runs of any users overlap, fail and are cleaned up after, the   *)
(* workbook in a user's output directory is one that user asked for; when      *)
(* users take turns, reapers also only take what has been read.                *)
SeparateOutputs == ConsolidationInv /\ (TakeTurns => TurnsInv)

(* The flag comes down after every run, however runs overlap and fail.         *)
RunsEnd == trk.running ~> ~trk.running

-----------------------------------------------------------------------------
(* tests/test_multi_user.py:1-6: several people "must not share anything       *)
(* else", as in "a progress bar showing somebody else's run".                  *)
ProgressIsMine == \A u \in Users : seen[u] # NoRun => wrk[seen[u]].user = u

(* The same line of the test, of the rows of a merged workbook: they are of    *)
(* one's own workbooks or of those the run was given.                          *)
RowsAreMine ==
  \A n \in Runs : \A p \in wrk[n].rows : file[p].user = wrk[n].user \/ p \in wrk[n].want

=============================================================================
