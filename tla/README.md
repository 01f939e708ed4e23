# Verification of the audit engine

The audit engine turns bank workbooks into audit reports. It runs as a desktop
program (a pywebview window over an in-process bridge) and as a browser app
for several signed-in users. This directory holds TLA+ models of its stateful
parts, the TLC runs that check them on small instances, and proofs checked by
TLAPS. `PROJECT.json` ties every definition to the lines it models.

## The system

Both programs share the handlers of `src/audit_engine/web`. The **browser
server** (`audit_engine_web/__main__.py`) is Bottle over wsgiref: one request
at a time, and beside it daemon threads: one worker a job, a reaper a job, a
timer a download, a sweeper every 30 s, a sweeper of report files every 5 min.
The **desktop** calls the same handlers from the threads of its bridge
(`web/bridge.py`, `"wsgi.multithread": True`), so two requests may overlap.

| Part | State it keeps | Operations | Hard because |
|---|---|---|---|
| Bank job sessions (`tasks/`, `web/handlers.py`) | a tracker and a cancel event per user, thread-local binding | run, cancel, poll; a worker for each bank | check, reset and thread start are apart; workers find "their" tracker through a proxy |
| Zero-trace workspace (`__main__.py`) | upload and output folders per user | upload, purge, reap, download timers, sweep | every deletion is decided at one time and done at another |
| Consolidation jobs (`handlers.py`, `consolidate.py`) | one tracker and one parse cache for everybody | upload, pre-parse, run, poll | no session, no refusal, results keyed by file name |
| Report validation jobs (`report_routes.py`, `TabReportAutomation.tsx`) | JOBS map, database rows, files, served copies | upload, poll, download, sweep, restart | rows and files outlive the process, the map does not |
| Run folders and packaging (`workers.py`, `preprocess.py`) | folders, archives, mapped copies | naming, zipping, cleaning | names that collide |
| Updater (`updater/client.py`) | update state, the binary on disk | check, download, install, restart | two threads, a rename before a copy |
| Accounts (`users.py`, `auth.py`) | accounts, signed cookies, failures | sign in, add, remove, promote | the last admin, a sliding window |
| Configuration and history (`repos.py`, `legacy.py`) | settings behind a cache, recent files | get, set, log | cache before database, one list for all |
| Desktop tools (`*_handlers.py`) | one tracker a tool | run, poll | no lock around check and reset |
| Row and document algorithms (`services/`, `consolidator/`) | none | grouping, normalising, naming, layout | many cases, pure |

The parts meet as follows. `web_run` purges the caller's workspace, calls
`handle_run`, and starts a reaper that watches the session's flag. The worker
writes under the user's output folder, the summary and then the flag. A poll
reads the tracker without a lock. A download arms a timer. `web_consolidate_run`
does the same around the shared consolidation tracker. The report routes have
files and rows of their own.

What makes each part correct: a session has one worker, one outcome and no
other user's events; files go when they should and never earlier, and nobody
else's; a merged workbook holds the rows of the workbooks it was given; what is
announced as done can be downloaded, also after a restart.

## Modules

A module covers one component: its state machine, or what a service computes.
The `MC` modules put several of them into one run; constants are given in the
`.cfg` files.

| Module | Models |
|---|---|
| `JobLifecycle` | what a caller of a job may rely on: start, announce, end |
| `JobSession` | sessions, handlers and workers of bank jobs; implements `JobLifecycle` |
| `Workspace` | the zero-trace workspace around a bank job; also implements `JobLifecycle` |
| `Consolidation` | consolidation jobs of the browser |
| `ReportJobs` | report validation jobs of the browser, with restarts |
| `RunFolders` | where the workers of a batch put reports and ZIPs |
| `Accounts` | accounts, sign-in, throttling and the admin page |
| `Settings` | settings behind their cache, recent files |
| `DesktopTool` | the four tool tabs of the desktop: tracker, worker, poll |
| `Updater` | self-update of the desktop program on Linux |
| `PdfTools` | the PDF merge of branch folders, the flattening |
| `Arvog`, `ArvogColumns` | wide master to ornaments and back; cells of a column |
| `Idfc` | reading an IDFC master, its branches, what is printed |
| `Equitas` | the master of loans and packets, branch workbooks, the second stage |
| `ReportValidator` | layout, packet passes and row passes of a validation |
| `ConsolidateRows` | choosing sheets and columns, the rows of the tracker |
| `Lists` | list comprehensions and sums, for `Accounts`, `Settings`, `PdfTools`, `Arvog`, `Idfc`, `Equitas`, `ReportValidator` and `ConsolidateRows` |
| `MCJobSession`, `MCReportJobs` | symmetry |
| `MCWorkspace` | two settings: two users, and one with more requests |
| `MCConsolidation` | two settings: users who overlap, and one who takes turns |
| `MCServer` | the five smaller state machines, one per behaviour |
| `Services` | a behaviour takes one service and one input, and computes the output |
| `MCServices` | the inputs of each service |
| `*_proofs` | theorems and lemmas about the module they are named for; `Program_proofs` about `Accounts`, `Settings`, `RunFolders`, `DesktopTool` and `Updater` |

**JobSession.** `tracker` and `cancel` are `session.py`'s pairs, `hnd` the
handler threads, `wrk` the worker threads with the session they are bound to.
`handle_run` is four steps (`RunRequest`, `RunClear`, `RunReset`, `RunSpawn`),
because the desktop serves two requests at once; validation errors change
nothing and are left out; a settings write that raises between the reset and
the thread start is `RunRaise`. A worker is bound, goes file by file and branch
by branch, packs, records, closes, and in its `finally` lowers the flag; the
workers of the banks differ in where they look at the cancel event and how they show
progress. Progress is counted in hundredths of a branch, so it stays whole.

**Workspace.** `ups` and `outs` are the upload and output folders, each with
the age of its directory and, of an output folder, whether the bank's folder is in
it; an input is a path, an upload or a report of any user, as `handle_run` asks no
more of it than that something is there (`There`); `taken` are the inputs handed
to a run; `reapers`, `timers` and `gc` are threads. A clock of coarse ticks ages directories and
threads. The job is reduced to open, write, announce, end, and shown to keep
`JobLifecycle`, which ties it to `JobSession`.

**Consolidation.** `file` and `disk` are the uploads, `cache` is
`PREPARSED_CACHE` (a path or a bare name to rows, rows being the set of uploads
they came from), `trk` the shared tracker, `out` the fixed-name result in each
user's folder. Any user may pre-parse anyone's upload and give it to a run. Which
uploads are workbooks that can be parsed (`readable`) is chosen at the start; any
other gives no rows, is cached so under its name, and does not fail the run. The poll
is two steps, as the code reads the summary first and
the flag later. Whether users wait for the run in progress (`patient`) and whether
the history takes a row (`logTakes`) is chosen at the start.

**ReportJobs.** `file` gives content (part, whole, junk while it is being
overwritten) and age of the four files of a job, `row` its database row, `jobs`
the JOBS map, `page` what the page shows. `Restart` empties what lives in the
process. The sweep takes a snapshot of what is older than its cutoff, looks
again at each file, overwrites and unlinks it, then prunes rows.

**RunFolders.** One user's runs follow one another into one base directory. A
folder is made under a name that is free at that moment, filled branch by
branch, zipped under a name of its own, and in "ZIP ONLY" removed. The second
in the names is a clock that moves between any two steps.

**Accounts.** A request is the gate and then its handler, in one action, as the
server answers one at a time. A cookie carries a name, its age and the key that
signed it, which is made anew at each start unless one is set; failed logins age
in ticks.

**Settings.** A read or write of a setting is two or three steps (cache, then
table), as bridge threads overlap. A recent file is added in one transaction. Both
this list and the failed logins are cut by `Kept`, which says a list comprehension
by the places of what is kept.

**DesktopTool.** `trk` is the tab's tracker, `worker` has a thread for each run,
`out` what is written under each name; a poll reads the flag, the bar, the
summary and the error in that order while the worker writes them.

**Updater.** `exe` and `bak` are the files under the program's name and its
backup, as inodes, since a renamed file is still written by whoever has it open;
`disk` is what each holds. The checker wakes, asks, downloads and swaps; so does
the thread of the install button.

**The services** have no state. Data is reduced to what the outcome depends on:
a name is a word and what is done to it, a weight whole thousandths, a cell its
kind and where it came from. Each module keeps the code's order of passes,
conditions and early returns. `Services` runs each over its set of inputs (the
constant `Inputs`, which `MCServices` gives) and compares the output with what its
reader relies on, not with the code.

## Runs

Passing:

| Run | Bounds | Shows |
|---|---|---|
| `web_jobs` | 2 users, 2 worker threads, 2 runs, 2 files of 2 branches | one worker a session, no stale cancel, trackers stay apart, the lifecycle, and the inductive invariant of the proofs |
| `bank_workers` | the desktop, one request at a time, every bank, 2 runs, 2 files of 3 branches | cancel is prompt, success is recorded, progress never goes back, every run that reaches a worker ends; the inductive invariant again, for every bank |
| `report_jobs` | 1 job, 1 work folder, 1 restart, a refusing database | what is announced is whole on disk; the pdf goes with its job; everything of a job goes; a polling page is answered |
| `two_users` | 2 requests of one user and 1 of another, or 3 of one alone; inputs of either | a user loses a file to another's only when an accepted run of the other was given it by name; inputs given to a run always have a reaper; the lifecycle; nothing remains when the users stop calling |
| `consolidators` | 2 users, 2 uploads of one name, 2 overlapping, failing runs on either's; or 1 who takes turns, 3 uploads under 2 names, one of which cannot be parsed | a user's folder holds a result of that user, runs end; when users take turns a merge holds what it was given and can be parsed, and the outcome is there when the flag is down; the inductive invariants of both |
| `server` | 2 browsers, 3 names; 2 people, 2 threads; 2 runs of a tool; 2 runs of 2 workbooks; 2 releases with 2 faults | an administrator remains and a removed user does not return by themselves; a lockout ends; what was saved is shown, and recent files are those run last; a tool reported as over has one outcome, and its flag comes down; no folder or ZIP mixes two workbooks, and folders stay; a whole program is on disk at every moment until a failed install is tried again, and a release arrives |
| `services` | workbooks of 2 to 4 rows or sheets, each cell from the kinds the code tells apart | the outputs lose, double or misplace nothing (see the comments in `Services`) |

Two of each kind are the smallest number at which a confusion of users, runs,
files or names can happen. A third file or user repeats the same interactions.
Three branches let a cancel come before, between and after builds. Three
requests allow an upload, a run and its reuse, refusal or download. A file needs
two ticks to age, so that one just written differs from an old one. One job is
enough for `ReportJobs`: jobs share no file, row or thread, only the sweep and
the turn to be served, and a restart may come at any of its steps. The state
machines of `server` share nothing, so composing them would only multiply
states. A window of two failures and two ticks lets one failure leave it while
another stays; two releases, one while the other is being installed. A service's
passes look at one row and its neighbours, or at pairs of rows: three rows give
a row between two others, and a pair that is not adjacent.

Violated, each a statement of a document, comment or test of the repository:

| Run | What the code does |
|---|---|
| `sweep_running` | the sweeper removes the files of a long run: it asks a tracker no browser run raises |
| `shared_progress` | a poll shows another user's consolidation |
| `shared_cache` | a workbook's rows are another user's, of the same file name |
| `swap_in_place` | the program's file is replaced while the program runs, not at the restart |
| `zip_lost` | two workbooks of one name in one second leave one archive |

The models also contain steps that go wrong without a run of their own; the
hazards with a note in `PROJECT.json` name them. Among them: a refused start
has already purged the running job's inputs; a second start on the desktop
overlaps the first; a settings write fails during a start; a reaper looked
before a run started on the same input; a download timer fires late; a restart
leaves the work folders of merge, flatten and rebuild; two clicks on a desktop
tool overlap; the checker and a button install at the same time (`Apart` in
`Updater`, `Overlap` in `DesktopTool`, `Serial` in `JobSession` exclude them
where a property needs it, and their comments say so).

### Fairness

Weak fairness for workers, reapers, timers and sweepers: they are threads the
operating system runs, and each of their steps stays possible until taken. Weak
fairness for the rest of a request that has begun. Time passes: weakly where a
tick is always possible (`Workspace`, `Accounts`), in `ReportJobs` strongly,
since a tick is only taken between requests there; its polls are strongly fair
too, since the page polls on a timer although other requests come first. In
`Updater` the checker's hourly wake-up is strongly fair, as with `Apart` it waits
for what the user has begun; what is under way goes on, and a closed program is
started again. Nobody is obliged to upload, run, cancel, sign in or download. A tick of
`ReportJobs` is long against a response, a workbook write or a thirty-second
timer: only a validation outlasts it.

## Proofs

`JobSession_proofs` proves, for any number of users, request threads, worker
threads, files, branches and runs:

- `TypeCorrect`: `Spec => []TypeOK`.
- `SessionInvariant`: with requests served one at a time (`Serial`, true of
  the browser server), `Spec => []SessionInv`.
- `OneWorker`, `EndedRunsSummarised`: its two visible consequences.
- `JobInvariant`: under `Serial`, `Spec => []JobInv`, and from it
  `CancelsAreFresh` (`NoStaleCancel`), `CancelStops` (`CancelStopsTheRun`) and
  `BarIsMonotone` (the action property `ProgressIsMonotone`).
- `SuccessRecorded` (`SuccessIsRecorded`) and `TrackersAreOwn` (the action
  property `OwnTrackerOnly`), without `Serial`: also when desktop requests overlap.
- `LifecycleImplemented`: under `Serial`, `JobSession` implements
  `JobLifecycle`, where a run is in flight while its flag is up, its outcome is
  that of the summary, and the count is that of accepted runs.

`OneWorkerPerSession` is not inductive. The flag is raised by a handler and
lowered by a worker, so one must know who owns it. `SessionInv` says so: a
living worker's session is flagged, its run is the last one, its summary is
empty until the worker is in its `finally`; a handler past the check has a
flag still down, and one past the reset has it up with no worker alive; and a
worker past its first step is bound to its own user. `Serial` is needed for the
second. On the desktop it does not hold: two requests may both pass the check
before either raises the flag, and the session then has two workers. The
assumption on the constants is `SessionAssumption`.

`JobInv` adds what a cancel, a row and the bar depend on. A cancel event is down
while a start is under way and up exactly when the living worker was asked to
stop (`EventsFollowRuns`); this needs `SessionInv`, for a second start would clear
the first run's event. A worker that looks at the event builds one more branch
at most; the Arvog worker, which only looks between workbooks, has built fewer
late branches than the number of the one it is at (`LateBuildsAreFew`). A worker
is somewhere in its batch (`WorkersKeepCount`), and the bar is never beyond the
share that place stands for (`BarFollowsBatch`, a bound for each bank and stage):
then every update moves it forward. `RowsComeFirst`, the row before the summary,
and `WorkersAreBound` are inductive alone, hence the theorems without `Serial`.

`Workspace_proofs` (assumption `WorkspaceAssumption`): `WorkspaceInvariant`,
`Spec => []WorkspaceInv`; `FilesAreNamedOrOwn`, the action property `NamedOrOwn`:
a run may be given anyone's file and its reaper then removes it wherever it lies,
and that is the only way a file goes by another's doing; `LifecycleKept`, the
refinement of `JobLifecycle`. `InputsDoNotOutlive` alone is
not inductive: an upload that is made later must not be one a run has already
taken, hence `UploadsAreNumbered`. The refinement needs the count of runs and
that an outcome is there exactly when the worker closes (`RunsAreCounted`,
`OutcomeAtClose`).

`ReportJobs_proofs` (`ReportAssumption`): `ReportInvariant` and
`DoneMeansWhole`. A workbook called done stays whole since nobody writes it
again: an upload is the only start of its job (`FreshUntilAccepted`), the sweep
lets go of a file only when it is gone (`SweepHoldsOne`), and from the end of
the saving on only the sweep touches the workbook (`FinishedStays`).

`Program_proofs` proves of `Accounts` and `Settings`:

- `TableIsManaged` and `AccountsKept`, `AccountsSpec => []AccountsInv`
  (`AccountsAssumption`: names are finite, since whether one is the last admin is
  a count). An account is only removed by an admin who stays, so an empty table is
  a new one (`EmptyTableIsNew`) and the environment's login is adopted once. The
  failures held against an address never outnumber the limit.
- `SettingsKept`, `SettingsSpec => []SettingsInv` (`SettingsAssumption`: there is a
  person), with any number of overlapping requests, failing writes and restarts.
  The table has what was saved last (`TableHasSaved`); for a person two of whose
  requests never met, the cache is what the table has or will have
  (`CacheFollowsTable`), so `SavedIsShown` is kept. The list of recent files is cut
  from what was run, never reordered, and begins with the last run
  (`ListFollowsRuns`), so `RecentIsRecent` is kept when two more files crowd one out.

`Lists_proofs` has what several proofs need to know of lists. A list is cut by a
list comprehension: the library's `SelectSeq` is recursive, so nothing could be
proved about it for all lists, and `Kept` names the places of what is kept, in
order. The lemmas show that there is such an order (the number of smaller places is
an injection into as many numbers, so each has its own), and what `Kept` keeps:
length, members, order. Sums (`Added`) and joined lists (`FlattenSeq`) are recursive
functions. That such a function exists for a list of any length, and what holds of
each of its values, is proved without the library's induction theorems: of the
numbers up to which a statement fails there would be a least one (`LeastNumber`,
from the well-foundedness of the numbers), and `CountingUp` says so of a set.

`Consolidation_proofs` (`ConsolidationAssumption`), for all users and no
assumption on how they behave; what only holds when they take turns says so
(`TakeTurns`: they wait for the run in progress, and the history takes a run's
row):

- `OutputsKept`, `Spec => []SeparateOutputs`: a run's rows are of workbooks of a name
  it was given, what lies in a user's folder is of a run of that user, a cached name
  has rows of workbooks of that name, uploads and runs have numbers
  of their own, and when users take turns also `TurnsInv`.
- `MergesKept` and `OutcomesKept`, its consequences `MergesWhatWasGiven` and
  `OutcomeWhenDown`.

In `TurnsInv` the flag belongs to the last run (`OneAtATime`); a workbook with a
name of its own has been read, or is still on disk or in the cache
(`ReadOrThere`); reapers come after their runs (`ReapersComeAfter`). A history row
that fails late lowers the flag of the next run, so both halves of `TakeTurns` are
needed.

`Program_proofs` also proves, of `RunFolders` (`RunFoldersAssumption`), `NothingIsMerged`,
`FoldersSpec => []FoldersInv`, and `ReportsStay`, the action property
`FoldersKeep`. Among "label", "label_2", and so on up to one more than there are
folders, one is free (the pigeonhole theorem), so there is a least one, and the
folder at hand is the workbook's own (`FolderIsItsOwn`).

And of `DesktopTool` (`DesktopToolAssumption`: there is something to pick):
`OutcomesAreTold`, `ToolSpec => []ToolInv` under `~Overlap`. A call, or the thread
it started, has the tracker to itself (`TrackerIsOwned`); its stage says what the
tracker and the output hold (`StagesOfRun`); what a poll has read once the flag
was down stays what the tracker says (`PollsAgree`). As every name that is taken
is of a run (`OutputsHaveRuns`), there is a free name for a merge.

And of `Updater` (`UpdaterAssumption`): `ProgramKept`, `Spec => []UpdaterInv`
under `Apart`. Each stage of the swap is tied to what the two names hold
(`SwapStages`), and what is announced as staged to what is installed
(`StagedStays`); both rest on there being one release under way
(`ReleaseIsOne`). What happens after an install is tried again on a failed copy
is left out of the promise: the backup is then the half copy.

`Services_proofs`, with the lemmas of `Arvog_proofs` about the Arvog workbooks
(`ServicesAssumption`: a row has the fields of a row, a column the
cells of its kind; folders, files and pages come as lists, no folder twice, each with
a name; a master or a book is a list of sheets, a sheet a list of rows, a filled one
has numbers where numbers belong; a wide master has its names in order and an
ornament's figures beside it; an audit sheet is as converted and filled in by an
auditor; a PDF lists numbers; a packet number has its parts; a sheet of a workbook to
consolidate has headings that differ and in each row a cell under each, and one sheet
of each workbook clearly lists payments) proves all eighteen services for every input:

- `RowsSettled`, `Spec => []RowsSettle`, of the passes over one row. Each pass keeps
  all cells but its own (`Keeps`), so what one has settled can be carried past the
  others. In a closed or top-up row the reset leaves nothing for the later passes
  to act on. In an open row each difference is looked at against the weights as
  they were last aligned (`WeighedIs`, `OpenRow`), and is replaced by a formula or
  within tolerance. Excel computes a saved formula the same again
  (`EvaluatedTwice`), so the second validation finds no reason to change anything.
  `RowsSettle` itself has a hypothesis, `OthersAreFresh`: a formula of some other
  kind that no pass replaces shows what Excel computed of it. Without it a stale
  figure would be believed, which no pass can tell.
- `ColumnsSettled`, `Spec => []ColumnsKept`. The scale of a column is told by its
  largest number, which exists in a column of any length by the well-foundedness of
  the numbers (`LargestNumber`); once divided, no purity is above one, so the
  second normalisation divides nothing.
- `PdfsSettled`, `Spec => []PdfsKept`, of the merge and the flattening. What holds
  after each branch (`MergedSoFar`) is carried from branch to branch: names taken,
  what is in the ZIP and what is noted. Of "name", "name (2)", and so on up to one more
  than there are names taken, one is free (`CandidateIsNew`), in lower case too. The
  pages of a merged PDF are the joined pages of its files (`MergedPagesAre`). For the
  summary of a flattening, each page has as many annotations as are left and were
  links, or more (`PageFlattened`, `AddedBelow`).
- `ReportsSettled`, `Spec => []ReportsComplete`, of the IDFC reports, the first Equitas
  stage and its packing. An IDFC row is kept in its branch's list after the rows of the
  branch before it (`KeptPlace`), and codes are told apart exactly as branches are
  (`BranchCodes`). The promise is for a pattern that names the branch and names that
  differ as files: otherwise a report is written over another, as the code does. An
  Equitas branch also has its files under its name as a file's, so of two that are one
  there only the later is left (`Written`), and a branch that raises is logged and
  skipped; the promise is for the others and says so. Each merged row comes from one
  loan (`MergedIs`, for sheets that list a loan
  once), so the rows of a loan are as many as its packets; a larger loan number has more
  numbers up to it, so serial numbers are apart (`SerialIs`); sorting by them is a
  permutation, each row's place being the number of rows up to it (`SerialOrder`), and
  the place divided by the rows per page is its page (`PagesHold`).

- `AuditsSettled`, `Spec => []AuditReported`, of the second Equitas stage. The packets
  of an account are places in the list of rows, and the groups of the accounts are
  disjoint, so sums over the groups add up to the sum over all of them
  (`AddedByGroup`, for lists of integers: a difference may be negative). A difference
  is a sum of differences (`NoDifference`), whatever the order it is added in.
- `SheetsSettled`, `Spec => []SheetKept`, of the layout and the packet passes. A moved
  row's relative references to itself move with it; an absolute one and one to another
  row are left as written, which may then be another loan's. The slots
  a PDF gives are the joined places of its accounts, each list of them increasing and no
  account listed twice (`ListedIs`), the rest are in order: so a row has one slot
  (`SlotsAre`), and where no account is on two rows the i-th slot is of the i-th account
  (`ListedOnes`). The search for missing packets is a loop in which a resolved row is a
  candidate for the next; its invariant is `Settled`: a row that had a packet is as it
  was, and a row is resolved by the one holder its name had from the beginning
  (`HolderStays`), since a name with a resolved row has two holders from then on.

- `OrnamentsSettled`, `Spec => []OrnamentsKept`, of the Arvog conversion and its PDFs.
  `IsWide` says what a wide master is: its headings, which may be any number and in
  any places as long as each name of an ornament comes once, in the order of the
  numbers, with its figures before the next name and the auditor's block. A block runs
  to the next name (`RunsTo`), so the first heading of a figure in it is the ornament's
  own and not the auditor's of the same name (`BlockIs`). The joined ornaments of the
  rows are in the order of rows and numbers, as are the figures, and two lists of one
  set in one order are one list (`SameOrder`). A PDF's rows are those between its
  branch and the next that is named (`PdfsHold`).

- `FoldsSettled`, `Spec => []FoldedBack`, of the fold of a filled audit sheet into a wide
  one. `IsAuditSheet` says what an auditor hands in: the headings of a
  conversion, a row for each ornament, at most three to a loan (the fold drops the others
  with a warning), the loan's cells in the row of its first ornament only, and formulas
  in the auditor's block that refer to figures of their row; a formula without a
  reference counts as its value. The
  loans are runs of one to three rows that together are all rows (`LoansOf`); a folded
  row is the loan's cells, a group for each ornament and blanks up to the widest loan
  (`RowFolded`, `RebuiltAs`). Reading it back finds each heading where it was put
  (`TallOrnament`, `WideOrnaments`: the auditor's columns share names with the branch's,
  so this is where it could go wrong), takes a group for an ornament exactly if the loan
  has that one (`LoanReads`), and gives the rows of the loans in the order they had
  (`LoanExplodes`, `RowsBack`). A formula's references move with the columns of its
  ornament and to the row of its loan, where the same values are (`SourceMoves`,
  `FormulaMeans`).

- `TrackerSettled`, `Spec => []TrackerAddsUp`, of the four services that read payment
  workbooks. A sheet may have any headings in any order, and most of the argument is
  about which of them `find_column` takes. It tries a strategy on all names before the
  next, so a heading that is a name is found before any that only resembles one
  (`FoundByName`). Where no heading is a name, the looser strategies must find none: a
  name of three words and more, which no one word resembles throughout, fits no
  heading with fewer than two words like its own (`NoFit`); `LacksAmount` and
  `VisitsArePaid` state no more than that. The columns taken, those added to them and
  those that say "cancelled" are then told apart, so their sums add up to the sum of the
  promise (`AddedApart`, `PayOfRow`): no column counts twice and none is missed. The rows
  are sorted by an order that tells any two apart, so each has a place of its own
  (`OrderIs`); a total and the number of times a row is there survive any rearranging
  (`AddedRearranged`, `CountRearranged`), and only a client with a payment that lacks its
  zone has zones replaced (`ZonedIs`).

Only model-checked: the liveness properties (`RunsEnd`, `NothingStays`,
`PageIsAnswered`, `ZeroTrace`, `LockoutEnds`, `FlagComesDown`, `UpdateArrives`), which
are beyond the prover. Every other property of a passing run is stated by a theorem.

## Not modelled

Drawing of reports and PDFs, spreadsheet styling, dialogs, notifications, the
pages' layout: output without state. Signing and hashing: libraries. The vendored
Bottle framework: its single-threaded server is assumed as the server starts it.
`detect.py` and the mapping pages only read the head of a workbook. The mapped
copies of `preprocess.py` are a function of one workbook; that they share a
directory is listed as a hazard. The mapper of `consolidator/` that works by
configuration is reached by no request. In `Consolidation` the desktop's run and
the fallback to an audit log on disk are left out; in `ReportJobs` the edits and
the upload's type check; in `Updater` the Windows and macOS swaps; in the
services the columns that are only copied.

Some steps are simpler than the code. In `ReportJobs` a file is overwritten and
unlinked without an error (`secure_delete` swallows one, report_routes.py:235, and the
file then waits for the next sweep). An Equitas file that fails is taken to fail
before it is written. In `ReportValidator` a row comes with which of its dates are
outliers (`outliers`), as pass 4 finds them from the months of all rows; the pass then
colours them, also in a closed row. In `ArvogColumns` a purity typed as text has no
thousands separator. A run that is lost before its worker starts (`RunRaise`) is left
out of `RunsEnd`. In `ConsolidateRows` a heading has the words of a name as whole words,
and two names are alike only if they are listed as such.

`PROJECT.json` lists under `hazards` what this code is exposed to, and a note
where no property covers it.

## Plan

1. The mapped copies of a batch of two users, with the directory they share.
2. The edits of a report download, with the copy they share.
3. The Windows swap of the updater, which a helper process finishes.
