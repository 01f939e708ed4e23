----------------------------- MODULE Workspace -----------------------------
(***************************************************************************)
(* The zero-trace workspace of the web server (audit_engine_web): uploads, *)
(* reports, and the four things that delete them.                          *)
(*                                                                         *)
(* Every user has an upload and an output directory.  A run purges both    *)
(* but for its inputs before it asks whether it may start; a reaper thread *)
(* per accepted run deletes the inputs when the flag is down; a timer per  *)
(* download deletes what was served; a sweeper deletes a user's directory  *)
(* when its own mtime, which writes deeper down do not touch, is old.      *)
(* Requests are served one at a time, the rest are threads.                *)
(*                                                                         *)
(* A run names its inputs by path, and starting it asks of a path only     *)
(* that something is there: an input may be any user's upload or report.   *)
(***************************************************************************)
EXTENDS Integers, FiniteSets

CONSTANTS
  Users,     (* signed-in users *)
  TTL,       (* IDLE_FILE_TTL, in ticks *)
  Delay,     (* DOWNLOAD_DELETE_DELAY, in ticks *)
  Deadline,  (* the reaper's six hours, in ticks *)
  MaxCalls   (* bound: requests per user *)

ASSUME WorkspaceAssumption ==
  /\ TTL \in Nat
  /\ Delay \in Nat
  /\ Deadline \in Nat
  /\ MaxCalls \in Nat

VARIABLES
  ups,       (* ups[u]: UPLOAD_DIR/u, the uploads in it *)
  outs,      (* outs[u]: OUTPUT_DIR/u, the folder of u's bank and the reports *)
  zips,      (* the users a zip of whose directory lies in OUTPUT_DIR itself *)
  job,       (* job[u]: the bank job of u, as Start, Announce and End of JobLifecycle *)
  runs,      (* runs[u]: accepted runs of u *)
  taken,     (* taken[u]: paths some accepted run of u was given *)
  reapers,   (* threads of _reap_inputs_when_job_ends *)
  timers,    (* threads of _delete_after_download *)
  gc,        (* the directory the sweeper is about to remove *)
  calls      (* calls[u]: requests of u served *)

vars == <<ups, outs, zips, job, runs, taken, reapers, timers, gc, calls>>

Ids == 1..MaxCalls
Reports == Ids \cup {MaxCalls + 1}   (* the reports of a run are its number ... *)
ZipFile == MaxCalls + 1              (* ... and the last is a zip of reports *)
Paths == [root : {"up", "out"}, user : Users, n : Reports]
WholeDir == 0                        (* what a download of the whole directory serves *)
Nothing == [root |-> "none", user |-> "none"]

NoUploads == [here |-> FALSE, age |-> 0, files |-> {}]
NoOutputs == [here |-> FALSE, age |-> 0, folder |-> FALSE, files |-> {}]
NoInput == [root |-> "none"]
NoJob == [pc |-> "idle", todo |-> {}, cur |-> NoInput, outcome |-> "none"]

Running(u) == job[u].pc # "idle"

Init ==
  /\ ups = [u \in Users |-> NoUploads]
  /\ outs = [u \in Users |-> NoOutputs]
  /\ zips = {}
  /\ job = [u \in Users |-> NoJob]
  /\ runs = [u \in Users |-> 0]
  /\ taken = [u \in Users |-> {}]
  /\ reapers = {}
  /\ timers = {}
  /\ gc = Nothing
  /\ calls = [u \in Users |-> 0]

(* Something is at the path, whoever it belongs to. *)
There(p) == p.n \in (IF p.root = "up" THEN ups[p.user].files ELSE outs[p.user].files)

Call(u) == calls[u] < MaxCalls /\ calls' = [calls EXCEPT ![u] = @ + 1]

(* A directory whose own entries are now other ones has a new mtime. *)
Touched(old, new, same) == [new EXCEPT !.age = IF same THEN old.age ELSE 0]

-----------------------------------------------------------------------------
(* handle_upload: a folder of its own for every upload. *)
Upload(u) ==
  /\ Call(u)
  /\ ups' = [ups EXCEPT ![u] = [here |-> TRUE, age |-> 0, files |-> @.files \cup {calls'[u]}]]
  /\ UNCHANGED <<outs, zips, job, runs, taken, reapers, timers, gc>>

(* Mutant: the purge clears the workspace of everyone, as it once did. *)
PurgeEveryone(u) == Users

(* _user_dirs(user): whose directories a purge walks. *)
PurgeScope(u) == {u}

(* web_run makes the output directory, then _purge_workspace keeps nothing *)
(* of it but the inputs named and the directory each one sits in: a report *)
(* keeps its bank's folder, with everything in it.                         *)
NamedIn(keep, root, v) == {n \in Reports : [root |-> root, user |-> v, n |-> n] \in keep}

PurgedUploads(v, keep) ==
  LET stay == NamedIn(keep, "up", v)
  IN  Touched(ups[v], [ups[v] EXCEPT !.files = @ \cap stay], ups[v].files \subseteq stay)

PurgedOutputs(v, keep) ==
  LET named == NamedIn(keep, "out", v)
      inside == named \cap Ids # {}
      stay == (IF inside THEN Ids ELSE {}) \cup (named \cap {ZipFile})
  IN  Touched(outs[v],
              [outs[v] EXCEPT !.here = TRUE, !.folder = @ /\ inside, !.files = @ \cap stay],
              outs[v].here /\ (outs[v].folder => inside) /\ outs[v].files \subseteq stay)

Purge(u, keep) ==
  LET scope == PurgeScope(u) IN
  /\ ups' = [v \in Users |-> IF v \in scope THEN PurgedUploads(v, keep) ELSE ups[v]]
  /\ outs' = [v \in Users |-> IF v \in scope THEN PurgedOutputs(v, keep) ELSE outs[v]]

(* Mutant: only the first input is handed to the reaper. *)
ReapFirst(ins) == {CHOOSE i \in ins : TRUE}

(* The files a reaper is given. *)
ReapTargets(ins) == ins

(* Mutant: a run is accepted on top of another. *)
AcceptUnchecked(u, ins) ==
  /\ Call(u)
  /\ Purge(u, ins)
  /\ \A p \in ins : There(p)
  /\ runs' = [runs EXCEPT ![u] = @ + 1]
  /\ taken' = [taken EXCEPT ![u] = @ \cup ins]
  /\ job' = [job EXCEPT ![u] = [NoJob EXCEPT !.pc = "open", !.todo = ins]]
  /\ reapers' = reapers \cup
       {[user |-> u, run |-> runs'[u], targets |-> ReapTargets(ins), pc |-> "wait", waited |-> 0]}
  /\ UNCHANGED <<zips, timers, gc>>

(* web_run, accepted by handle_run: no job runs and there is something at    *)
(* every path named, which is all that is asked of a path.                   *)
Accept(u, ins) ==
  /\ Call(u)
  /\ Purge(u, ins)
  /\ ~Running(u)
  /\ \A p \in ins : There(p)
  /\ runs' = [runs EXCEPT ![u] = @ + 1]
  /\ taken' = [taken EXCEPT ![u] = @ \cup ins]
  /\ job' = [job EXCEPT ![u] = [NoJob EXCEPT !.pc = "open", !.todo = ins]]
  /\ reapers' = reapers \cup
       {[user |-> u, run |-> runs'[u], targets |-> ReapTargets(ins), pc |-> "wait", waited |-> 0]}
  /\ UNCHANGED <<zips, timers, gc>>

(* web_run, refused by handle_run after the purge: a job runs, an input is  *)
(* missing, or one of the settings sent is invalid.                          *)
Reject(u, ins) ==
  /\ Call(u)
  /\ Purge(u, ins)
  /\ UNCHANGED <<zips, job, runs, taken, reapers, timers, gc>>

(* handle_download_zip: the reports named, once more, in a zip beside them. *)
DownloadZip(u) ==
  /\ Call(u)
  /\ outs' = [outs EXCEPT ![u] = [outs[u] EXCEPT !.here = TRUE, !.age = 0, !.files = @ \cup {ZipFile}]]
  /\ UNCHANGED <<ups, zips, job, runs, taken, reapers, timers, gc>>

(* handle_download of one file. *)
DownloadReport(u, r) ==
  /\ Call(u)
  /\ r \in outs[u].files
  /\ timers' = timers \cup {[user |-> u, what |-> r, left |-> Delay]}
  /\ UNCHANGED <<ups, outs, zips, job, runs, taken, reapers, gc>>

(* handle_download of the output directory, the output_dir a summary names: *)
(* the zip is made beside the users' directories.                           *)
DownloadDir(u) ==
  /\ Call(u)
  /\ outs[u].here
  /\ zips' = zips \cup {u}
  /\ timers' = timers \cup {[user |-> u, what |-> WholeDir, left |-> Delay]}
  /\ UNCHANGED <<ups, outs, job, runs, taken, reapers, gc>>

-----------------------------------------------------------------------------
WithFolder(d) == Touched(d, [d EXCEPT !.here = TRUE, !.folder = TRUE], d.folder)

(* The worker makes a folder for its next input inside that of its bank,    *)
(* which alone shows in the mtime of the user's directory.                  *)
OpenFolder(u, p) ==
  /\ job[u].pc = "open"
  /\ p \in job[u].todo
  /\ job' = [job EXCEPT ![u] = [job[u] EXCEPT !.pc = "write", !.cur = p]]
  /\ outs' = [outs EXCEPT ![u] = WithFolder(@)]
  /\ UNCHANGED <<ups, zips, runs, taken, reapers, timers, gc, calls>>

(* It reads the workbook and writes its reports into that folder, ... *)
WriteReports(u) ==
  /\ job[u].pc = "write"
  /\ There(job[u].cur)
  /\ outs[u].folder
  /\ outs' = [outs EXCEPT ![u].files = @ \cup {runs[u]}]
  /\ job' = [job EXCEPT ![u] = [job[u] EXCEPT !.pc = "open", !.todo = @ \ {job[u].cur}]]
  /\ UNCHANGED <<ups, zips, runs, taken, reapers, timers, gc, calls>>

(* ... or raises: a bad workbook, or one of the two is gone. *)
Fail(u) ==
  /\ job[u].pc = "write"
  /\ job' = [job EXCEPT ![u] = [job[u] EXCEPT !.pc = "close", !.outcome = "failed"]]
  /\ UNCHANGED <<ups, outs, zips, runs, taken, reapers, timers, gc, calls>>

(* All inputs are done, or a cancel was seen between two of them. *)
Announce(u) ==
  /\ job[u].pc = "open"
  /\ job' = [job EXCEPT ![u] = [job[u] EXCEPT !.pc = "close", !.outcome = "success"]]
  /\ UNCHANGED <<ups, outs, zips, runs, taken, reapers, timers, gc, calls>>

End(u) ==
  /\ job[u].pc = "close"
  /\ job' = [job EXCEPT ![u] = [job[u] EXCEPT !.pc = "idle", !.todo = {}]]
  /\ UNCHANGED <<ups, outs, zips, runs, taken, reapers, timers, gc, calls>>

-----------------------------------------------------------------------------
(* The reaper looks at the flag of its user every two seconds, ... *)
ReaperSees(r) ==
  /\ r.pc = "wait"
  /\ ~Running(r.user) \/ r.waited = Deadline
  /\ reapers' = (reapers \ {r}) \cup {[r EXCEPT !.pc = "remove"]}
  /\ UNCHANGED <<ups, outs, zips, job, runs, taken, timers, gc, calls>>

Without(d, i) == Touched(d, [d EXCEPT !.files = @ \ {i}], i \notin d.files)

(* Only the zip lies in the user's directory itself. *)
Unlinked(d, n) ==
  [d EXCEPT !.files = @ \ {n}, !.age = IF n = ZipFile /\ n \in d.files THEN 0 ELSE @]

(* The parent of what was removed goes too if that left it empty. *)
WithoutReport(d, n) ==
  LET rest == Unlinked(d, n)
  IN  IF n = ZipFile /\ n \in d.files /\ rest.files = {} /\ ~rest.folder THEN NoOutputs ELSE rest

(* ... then removes its targets one by one where they lie, each with its     *)
(* folder.                                                                    *)
ReaperRemoves(r) ==
  /\ r.pc = "remove"
  /\ \E p \in r.targets :
       /\ IF p.root = "up"
          THEN ups' = [ups EXCEPT ![p.user] = Without(@, p.n)] /\ UNCHANGED outs
          ELSE outs' = [outs EXCEPT ![p.user] = WithoutReport(@, p.n)] /\ UNCHANGED ups
       /\ reapers' = (reapers \ {r}) \cup
            (IF r.targets = {p} THEN {} ELSE {[r EXCEPT !.targets = @ \ {p}]})
  /\ UNCHANGED <<zips, job, runs, taken, timers, gc, calls>>

(* The timer of a download: a report is unlinked, a directory goes with     *)
(* everything in it, and so does the zip made of it.                         *)
TimerFires(t) ==
  /\ t.left = 0
  /\ timers' = timers \ {t}
  /\ IF t.what = WholeDir
     THEN outs' = [outs EXCEPT ![t.user] = NoOutputs] /\ zips' = zips \ {t.user}
     ELSE outs' = [outs EXCEPT ![t.user] = Unlinked(@, t.what)] /\ UNCHANGED zips
  /\ UNCHANGED <<ups, job, runs, taken, reapers, gc, calls>>

(* Mutant: the uploads alone are swept. *)
UploadsOnly == {"up"}

(* The roots the sweeper walks. *)
SweptRoots == {"up", "out"}

(* The sweeper reads the mtime of a user's directory.  Its test for a job in *)
(* progress reads the tracker of no user, which no run ever raises.          *)
SweeperPicks(root, u) ==
  LET d == IF root = "up" THEN ups[u] ELSE outs[u] IN
  /\ gc = Nothing
  /\ root \in SweptRoots
  /\ d.here
  /\ d.age > TTL
  /\ gc' = [root |-> root, user |-> u]
  /\ UNCHANGED <<ups, outs, zips, job, runs, taken, reapers, timers, calls>>

SweeperRemoves ==
  /\ gc # Nothing
  /\ IF gc.root = "up"
     THEN ups' = [ups EXCEPT ![gc.user] = NoUploads] /\ UNCHANGED outs
     ELSE outs' = [outs EXCEPT ![gc.user] = NoOutputs] /\ UNCHANGED ups
  /\ gc' = Nothing
  /\ UNCHANGED <<zips, job, runs, taken, reapers, timers, calls>>

-----------------------------------------------------------------------------
Older(d) == [d EXCEPT !.age = IF d.here /\ @ <= TTL THEN @ + 1 ELSE @]

Less(n) == IF n = 0 THEN 0 ELSE n - 1

Tick ==
  /\ ups' = [u \in Users |-> Older(ups[u])]
  /\ outs' = [u \in Users |-> Older(outs[u])]
  /\ timers' = {[t EXCEPT !.left = Less(@)] : t \in timers}
  /\ reapers' = {[r EXCEPT !.waited = IF @ < Deadline THEN @ + 1 ELSE @] : r \in reapers}
  /\ UNCHANGED <<zips, job, runs, taken, gc, calls>>

(* The paths a run would find, and one to nothing inside a bank's folder,     *)
(* which a purge keeps.                                                       *)
Nameable == {p \in Paths : There(p) \/ (p.root = "out" /\ p.n = 1 /\ outs[p.user].folder)}

Request(u) ==
  \/ Upload(u)
  \/ \E ins \in (SUBSET Nameable) \ {{}} : Accept(u, ins)
  \/ \E ins \in SUBSET Nameable : Reject(u, ins)
  \/ \E r \in Reports : DownloadReport(u, r)
  \/ DownloadDir(u) \/ DownloadZip(u)

Worker(u) ==
  \/ \E p \in job[u].todo : OpenFolder(u, p)
  \/ WriteReports(u) \/ Fail(u) \/ Announce(u) \/ End(u)

Reaper == \E r \in reapers : ReaperSees(r) \/ ReaperRemoves(r)
Timer == \E t \in timers : TimerFires(t)
Sweeper == (\E root \in {"up", "out"}, u \in Users : SweeperPicks(root, u)) \/ SweeperRemoves

Next ==
  \/ \E u \in Users : Request(u) \/ Worker(u)
  \/ Reaper \/ Timer \/ Sweeper \/ Tick

Spec == Init /\ [][Next]_vars

(* Threads are scheduled and the clock runs; nobody is obliged to call. *)
Fairness ==
  /\ \A u \in Users : WF_vars(Worker(u))
  /\ WF_vars(Reaper) /\ WF_vars(Timer) /\ WF_vars(Sweeper) /\ WF_vars(Tick)

FairSpec == Spec /\ Fairness

-----------------------------------------------------------------------------
(* Types, and the bounds of the clocks. *)
Ages == 0..(TTL + 1)

TypeOK ==
  /\ ups \in [Users -> [here : BOOLEAN, age : Ages, files : SUBSET Ids]]
  /\ outs \in [Users -> [here : BOOLEAN, age : Ages, folder : BOOLEAN, files : SUBSET Reports]]
  /\ zips \subseteq Users
  /\ job \in [Users -> [pc : {"idle", "open", "write", "close"}, todo : SUBSET Paths,
                        cur : Paths \cup {NoInput}, outcome : {"none", "success", "failed"}]]
  /\ runs \in [Users -> 0..MaxCalls]
  /\ taken \in [Users -> SUBSET Paths]
  /\ reapers \subseteq [user : Users, run : Ids, targets : SUBSET Paths,
                        pc : {"wait", "remove"}, waited : 0..Deadline]
  /\ timers \subseteq [user : Users, what : Reports \cup {WholeDir}, left : 0..Delay]
  /\ gc \in {Nothing} \cup [root : {"up", "out"}, user : Users]
  /\ calls \in [Users -> 0..MaxCalls]

(* What a user has on the server is deleted on that user's behalf (a request, *)
(* a reaper or a timer of theirs), by the sweeper, or by the reaper of another *)
(* user whose accepted run was given that very file by name.  Another user's    *)
(* purges and downloads, and a run of theirs that was refused, never reach it. *)
LostFile(p) ==
  IF p.root = "up"
  THEN p.n \in ups[p.user].files \ ups'[p.user].files
  ELSE p.n \in outs[p.user].files \ outs'[p.user].files

LostFolder(u) == outs[u].folder /\ ~outs'[u].folder

Mine(threads, u) == {t \in threads : t.user = u}

ActedFor(u) ==
  \/ calls'[u] # calls[u]
  \/ Mine(reapers', u) # Mine(reapers, u)
  \/ Mine(timers', u) # Mine(timers, u)
  \/ gc # Nothing /\ gc.user = u

ReapedByName(p) ==
  \E v \in Users : p \in taken[v] /\ Mine(reapers', v) # Mine(reapers, v)

NamedOrOwn ==
  [][/\ \A p \in Paths : LostFile(p) => ActedFor(p.user) \/ ReapedByName(p)
     /\ \A u \in Users : LostFolder(u) => ActedFor(u)]_vars

(* An upload a run was given is never simply left behind: while it exists,    *)
(* every user who gave it to a run has a thread that will remove it.           *)
InputsDoNotOutlive ==
  \A u \in Users : \A p \in taken[u] :
    p.root = "up" /\ There(p) => \E r \in reapers : r.user = u /\ p \in r.targets

(* With the types, why no input outlives its run: a run is only given uploads *)
(* that were made, and every upload has a number of its own.                  *)
UploadsAreNumbered ==
  \A u \in Users :
    /\ ups[u].files \subseteq 1..calls[u]
    /\ \A p \in taken[u] : p.root = "up" => p.n \in 1..calls[p.user]

(* A reaper's targets were named to a run of its user that was accepted. *)
TargetsWereTaken == \A r \in reapers : r.targets \subseteq taken[r.user]

RunsAreCounted == \A u \in Users : runs[u] <= calls[u] /\ (Running(u) => runs[u] # 0)

OutcomeAtClose ==
  \A u \in Users :
    /\ job[u].pc \in {"open", "write"} => job[u].outcome = "none"
    /\ job[u].pc = "close" => job[u].outcome # "none"

WorkspaceInv ==
  /\ TypeOK /\ InputsDoNotOutlive /\ UploadsAreNumbered /\ TargetsWereTaken
  /\ RunsAreCounted /\ OutcomeAtClose

(* A user who stops calling leaves nothing on the server, even what no run     *)
(* used and nobody downloaded.                                                 *)
Empty(u) ==
  ups[u].files = {} /\ outs[u].files = {} /\ ~outs[u].folder /\ u \notin zips

ZeroTrace == \A u \in Users : <>[]Empty(u)

(* The job seen from the workspace is the job JobLifecycle describes. *)
Lifecycle == INSTANCE JobLifecycle WITH
  Sessions <- Users,
  inFlight <- [u \in Users |-> Running(u)],
  outcome <- [u \in Users |-> job[u].outcome],
  count <- runs

KeepsLifecycle == Lifecycle!Spec

-----------------------------------------------------------------------------
(* The sweeper's docstring, __main__.py:93-95: "a run in progress is left      *)
(* alone entirely".                                                            *)
RunLeftAlone ==
  [][\A u \in Users : Running(u) /\ gc # Nothing /\ gc' = Nothing =>
       /\ ~LostFolder(u)
       /\ \A p \in Paths : p.user = u => ~LostFile(p)]_vars

=============================================================================
