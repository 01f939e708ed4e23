------------------------ MODULE Consolidation_proofs ------------------------
(***************************************************************************)
(* Proofs about Consolidation, for any users, files and runs.              *)
(***************************************************************************)
EXTENDS Consolidation, FiniteSetTheorems, TLAPS

USE ConsolidationAssumption

Stages == {"idle", "begin", "parse", "tell", "lower", "log", "ended", "error", "fail", "failed"}
FileShape == [user : Users \cup {Nobody}, name : Names \cup {Nobody}]
WorkerShape(ps) == [pc : Stages, user : Users \cup {Nobody}, want : SUBSET Paths,
                    todo : SUBSET Paths, rows : SUBSET ps]

LEMMA SameUploads ==
  ASSUME file' = file
  PROVE  Uploaded' = Uploaded
  BY DEF Uploaded

LEMMA Types ==
  ASSUME TypeOK
  PROVE  /\ file \in [Paths -> FileShape] /\ wrk \in [Runs -> WorkerShape(Uploaded)]
         /\ runs \in Nat /\ Uploaded \subseteq Paths
  BY DEF TypeOK, FileShape, WorkerShape, Stages, Uploaded

LEMMA InitGeneral == Init => ConsolidationInv
<1> SUFFICES ASSUME Init PROVE ConsolidationInv
  OBVIOUS
<1>1. Uploaded = {}
  BY DEF Init, Uploaded
<1>2. NoWorker \in WorkerShape({}) /\ NoWorker.pc = "idle" /\ NoWorker.user = Nobody
      /\ NoWorker.want = {} /\ NoWorker.todo = {} /\ NoWorker.rows = {}
  BY DEF NoWorker, WorkerShape, Stages
<1>3. TypeOK
  BY <1>1, <1>2 DEF Init, TypeOK, WorkerShape, Stages, NoRun, NoPoll, Miss
<1>4. UploadsAreNumbered
  BY <1>1 DEF UploadsAreNumbered
<1>5. RunsAreNumbered /\ WorkersReadTheirOwn
  BY <1>2 DEF Init, RunsAreNumbered, WorkersReadTheirOwn, Runs, NoRun
<1>6. CacheIsByName /\ OutputsAreSeparate
  BY DEF Init, CacheIsByName, OutputsAreSeparate
<1>7. QED
  BY <1>3, <1>4, <1>5, <1>6 DEF ConsolidationInv

(* An upload gets a path nobody has, and leaves the others' names alone.      *)
LEMMA UploadIsNew ==
  ASSUME ConsolidationInv, NEW u \in Users, NEW p \in Paths, NEW x \in Names, Upload(u, p, x)
  PROVE  /\ p \notin Uploaded /\ Uploaded' = Uploaded \cup {p} /\ UploadsAreNumbered'
         /\ file' \in [Paths -> FileShape] /\ file'[p].name = x
         /\ \A q \in Paths \ {p} : file'[q] = file[q]
         /\ file'[p].user = u
<1> DEFINE new == [user |-> u, name |-> x]
<1>1. file \in [Paths -> FileShape] /\ file' = [file EXCEPT ![p] = new]
  BY Types DEF ConsolidationInv, Upload
<1>2. new \in FileShape /\ new.user = u /\ new.name = x /\ u # Nobody
  BY DEF FileShape, Nobody
<1> HIDE DEF new
<1>3. Uploaded' = Uploaded \cup {p}
  BY <1>1, <1>2 DEF Uploaded
<1>4. PICK k \in 0..MaxUploads : Uploaded = 1..k
  BY DEF ConsolidationInv, UploadsAreNumbered
<1>5. Cardinality(Uploaded) = k
  BY <1>4, FS_Interval
<1>6. p = k + 1 /\ k + 1 \in 0..MaxUploads
  BY <1>5 DEF Upload, Paths
<1>7. p \notin Uploaded /\ Uploaded' = 1..(k + 1)
  BY <1>3, <1>4, <1>6
<1>8. UploadsAreNumbered'
  BY <1>1, <1>2, <1>3, <1>6, <1>7 DEF ConsolidationInv, UploadsAreNumbered, Uploaded
<1>9. QED
  BY <1>1, <1>2, <1>3, <1>7, <1>8

LEMMA UploadStep ==
  ASSUME ConsolidationInv, readable' = readable, NEW u \in Users, NEW p \in Paths, NEW x \in Names,
         Upload(u, p, x)
  PROVE  ConsolidationInv'
<1>1. /\ TypeOK /\ Uploaded \subseteq Paths
      /\ UNCHANGED <<cache, trk, wrk, runs, out, reapers, poll, seen>> /\ disk' = disk \cup {p}
  BY Types DEF ConsolidationInv, Upload
<1>2. TypeOK'
  BY <1>1, UploadIsNew DEF TypeOK, FileShape
<1>3. RunsAreNumbered' /\ OutputsAreSeparate'
  BY <1>1 DEF ConsolidationInv, RunsAreNumbered, OutputsAreSeparate
<1>4. \A q \in Uploaded : file'[q] = file[q]
  BY <1>1, UploadIsNew
<1>5. WorkersReadTheirOwn'
  <2>1. \A n \in Runs : wrk[n].rows \subseteq Uploaded
    BY <1>1, Types DEF WorkerShape
  <2>2. QED
    BY <1>1, <1>4, <2>1, UploadIsNew DEF ConsolidationInv, WorkersReadTheirOwn
<1>6. CacheIsByName'
  BY <1>1, <1>4, UploadIsNew DEF ConsolidationInv, CacheIsByName
<1>7. QED
  BY <1>2, <1>3, <1>5, <1>6, UploadIsNew DEF ConsolidationInv


-----------------------------------------------------------------------------
TrackerShape == [running : BOOLEAN, summary : Runs \cup {NoRun}, error : BOOLEAN]

(* What a worker's step does to its own record, and to nobody's else.         *)
LEMMA MovesOne ==
  ASSUME ConsolidationInv, NEW n \in Runs, NEW c \in Stages, wrk' = [wrk EXCEPT ![n].pc = c]
  PROVE  /\ wrk' \in [Runs -> WorkerShape(Uploaded)]
         /\ wrk'[n].pc = c /\ wrk'[n].user = wrk[n].user /\ wrk'[n].want = wrk[n].want
         /\ wrk'[n].todo = wrk[n].todo /\ wrk'[n].rows = wrk[n].rows
         /\ \A m \in Runs \ {n} : wrk'[m] = wrk[m]
<1> DEFINE new == [wrk[n] EXCEPT !.pc = c]
<1>1. wrk \in [Runs -> WorkerShape(Uploaded)] /\ wrk' = [wrk EXCEPT ![n] = new]
  BY Types DEF ConsolidationInv
<1>2. new \in WorkerShape(Uploaded) /\ new.pc = c /\ new.user = wrk[n].user /\ new.want = wrk[n].want
      /\ new.todo = wrk[n].todo /\ new.rows = wrk[n].rows
  BY <1>1 DEF WorkerShape
<1> HIDE DEF new
<1>3. QED
  BY <1>1, <1>2

LEMMA IdleIsNoWorker ==
  ASSUME ConsolidationInv, NEW n \in Runs, wrk[n].pc # "idle"
  PROVE  n <= runs /\ wrk[n].user \in Users /\ runs \in Nat /\ n \in Nat /\ n # NoRun
  BY Types DEF ConsolidationInv, RunsAreNumbered, NoWorker, Runs, NoRun

(* A step that moves a worker on, and may publish a workbook or an outcome.   *)
LEMMA MoveStep ==
  ASSUME ConsolidationInv, readable' = readable,
         NEW n \in Runs, NEW c \in Stages \ {"idle"}, wrk[n].pc # "idle",
         c \notin {"begin", "parse"} => wrk[n].todo = {},
         wrk' = [wrk EXCEPT ![n].pc = c], trk' \in TrackerShape,
         out' = out \/ out' = [out EXCEPT ![OutDir(wrk[n].user)] = n],
         UNCHANGED <<file, disk, cache, runs, reapers, poll, seen>>
  PROVE  ConsolidationInv'
<1>1. TypeOK /\ Uploaded' = Uploaded /\ c \in Stages
  BY SameUploads DEF ConsolidationInv
<1>2. out' \in [Users -> Runs \cup {NoRun}] /\ n <= runs /\ wrk[n].user \in Users
      /\ \A u \in Users : out'[u] = out[u] \/ (out'[u] = n /\ u = wrk[n].user)
  BY <1>1, IdleIsNoWorker DEF TypeOK, OutDir
<1>3. TypeOK'
  BY <1>1, <1>2, MovesOne DEF TypeOK, WorkerShape, Stages, TrackerShape
<1>4. UploadsAreNumbered' /\ CacheIsByName'
  BY <1>1 DEF ConsolidationInv, UploadsAreNumbered, CacheIsByName
<1>5. RunsAreNumbered'
  BY <1>1, <1>2, MovesOne, Types, IdleIsNoWorker DEF ConsolidationInv, RunsAreNumbered, Runs
<1>6. WorkersReadTheirOwn'
  BY <1>1, MovesOne DEF ConsolidationInv, WorkersReadTheirOwn
<1>7. OutputsAreSeparate'
  <2>1. \A m \in Runs : wrk'[m].user = wrk[m].user
    BY <1>1, MovesOne
  <2>2. QED
    BY <1>1, <1>2, <2>1 DEF ConsolidationInv, OutputsAreSeparate, TypeOK
<1>8. QED
  BY <1>3, <1>4, <1>5, <1>6, <1>7 DEF ConsolidationInv

(* Everything a worker does but reading a workbook.                           *)
Moves(n) == Begin(n) \/ WriteWorkbook(n) \/ TellSummary(n) \/ Lower(n) \/ Log(n)
            \/ Raise(n) \/ SetError(n) \/ Fail(n)

LEMMA MovesStep ==
  ASSUME ConsolidationInv, readable' = readable, NEW n \in Runs, Moves(n)
  PROVE  ConsolidationInv'
<1>1. trk \in TrackerShape /\ (wrk[n].pc \notin {"begin", "parse"} => wrk[n].todo = {})
  BY DEF ConsolidationInv, TypeOK, TrackerShape, WorkersReadTheirOwn
<1>2. CASE Begin(n)
  <2>1. trk' \in TrackerShape
    BY <1>1, <1>2 DEF Begin, TrackerShape
  <2>2. QED
    BY <1>2, <2>1, MoveStep, "parse" \in Stages \ {"idle"} DEF Begin, Stages
<1>3. CASE WriteWorkbook(n)
  BY <1>1, <1>3, MoveStep, "tell" \in Stages \ {"idle"} DEF WriteWorkbook, Stages
<1>4. CASE TellSummary(n)
  <2>1. trk' \in TrackerShape
    BY <1>1, <1>4 DEF TellSummary, TrackerShape
  <2>2. QED
    BY <1>1, <1>4, <2>1, MoveStep, "lower" \in Stages \ {"idle"} DEF TellSummary, Stages
<1>5. CASE Lower(n)
  <2>1. trk' \in TrackerShape
    BY <1>1, <1>5 DEF Lower, TrackerShape
  <2>2. QED
    BY <1>1, <1>5, <2>1, MoveStep, "log" \in Stages \ {"idle"} DEF Lower, Stages
<1>6. CASE Log(n)
  BY <1>1, <1>6, MoveStep, "ended" \in Stages \ {"idle"} DEF Log, Stages
<1>7. CASE Raise(n)
  BY <1>1, <1>7, MoveStep, "error" \in Stages \ {"idle"} DEF Raise, Stages
<1>8. CASE SetError(n)
  <2>1. trk' \in TrackerShape
    BY <1>1, <1>8 DEF SetError, TrackerShape
  <2>2. QED
    BY <1>1, <1>8, <2>1, MoveStep, "fail" \in Stages \ {"idle"} DEF SetError, Stages
<1>9. CASE Fail(n)
  <2>1. trk' \in TrackerShape
    BY <1>1, <1>9 DEF Fail, TrackerShape
  <2>2. QED
    BY <1>1, <1>9, <2>1, MoveStep, "failed" \in Stages \ {"idle"} DEF Fail, Stages
<1>10. QED
  BY <1>2, <1>3, <1>4, <1>5, <1>6, <1>7, <1>8, <1>9 DEF Moves


-----------------------------------------------------------------------------
(* What is read of a workbook, and where it is then cached.                   *)
Hit(p) == IF cache[p] # Miss THEN cache[p] ELSE cache[file[p].name]
Rows(p) == IF Hit(p) # Miss THEN Hit(p) ELSE Read(p)

LEMMA ReadsItsName ==
  ASSUME ConsolidationInv, NEW p \in Uploaded
  PROVE  /\ p \in Paths /\ file[p].name \in Names /\ {p} # Miss /\ {} # Miss
         /\ \A q \in Rows(p) : q \in Uploaded \cap readable /\ file[q].name = file[p].name
<1>1. p \in Paths /\ file[p].name \in Names /\ {p} # Miss /\ {} # Miss
  BY DEF ConsolidationInv, UploadsAreNumbered, Uploaded, Paths, Miss
<1>2. \A q \in Rows(p) : q \in Uploaded \cap readable /\ file[q].name = file[p].name
  <2>1. CASE cache[p] # Miss
    BY <1>1, <2>1 DEF ConsolidationInv, CacheIsByName, Rows, Hit
  <2>2. CASE cache[p] = Miss /\ cache[file[p].name] # Miss
    BY <1>1, <2>2 DEF ConsolidationInv, CacheIsByName, Rows, Hit
  <2>3. CASE cache[p] = Miss /\ cache[file[p].name] = Miss
    BY <1>1, <2>3 DEF Rows, Hit, Read
  <2>4. QED
    BY <2>1, <2>2, <2>3
<1>3. QED
  BY <1>1, <1>2

LEMMA ParseReads ==
  ASSUME ConsolidationInv, NEW n \in Runs, NEW p \in Paths, Parse(n, p)
  PROVE  /\ p \in Uploaded /\ p \in wrk[n].want
         /\ wrk' \in [Runs -> WorkerShape(Uploaded)]
         /\ wrk'[n].pc = "parse" /\ wrk'[n].user = wrk[n].user /\ wrk'[n].want = wrk[n].want
         /\ wrk'[n].todo = wrk[n].todo \ {p} /\ wrk'[n].rows = wrk[n].rows \cup Rows(p)
         /\ \A m \in Runs \ {n} : wrk'[m] = wrk[m]
         /\ \/ Hit(p) # Miss /\ cache' = cache
            \/ Hit(p) = Miss /\ Read(p) # {} /\ cache' = [cache EXCEPT ![p] = {p}, ![file[p].name] = {p}]
            \/ Hit(p) = Miss /\ Read(p) = {} /\ cache' = [cache EXCEPT ![file[p].name] = {}]
         /\ UNCHANGED <<file, disk, trk, runs, out, reapers, poll, seen>>
<1> DEFINE new == [wrk[n] EXCEPT !.todo = wrk[n].todo \ {p}, !.rows = wrk[n].rows \cup Rows(p)]
<1>1. wrk \in [Runs -> WorkerShape(Uploaded)] /\ p \in Uploaded /\ p \in wrk[n].want /\ wrk[n].pc = "parse"
  BY Types DEF ConsolidationInv, WorkersReadTheirOwn, Parse
<1>2. Rows(p) \subseteq Uploaded
  BY <1>1, ReadsItsName
<1>3. /\ new \in WorkerShape(Uploaded) /\ new.pc = "parse" /\ new.user = wrk[n].user
      /\ new.want = wrk[n].want
      /\ new.todo = wrk[n].todo \ {p} /\ new.rows = wrk[n].rows \cup Rows(p)
  BY <1>1, <1>2 DEF WorkerShape
<1>4. wrk' = [wrk EXCEPT ![n] = new]
  BY DEF Parse, Rows, Hit
<1> HIDE DEF new
<1>5. \/ Hit(p) # Miss /\ cache' = cache
      \/ Hit(p) = Miss /\ Read(p) # {} /\ cache' = [cache EXCEPT ![p] = {p}, ![file[p].name] = {p}]
      \/ Hit(p) = Miss /\ Read(p) = {} /\ cache' = [cache EXCEPT ![file[p].name] = {}]
  BY DEF Parse, Hit
<1>6. UNCHANGED <<file, disk, trk, runs, out, reapers, poll, seen>>
  BY DEF Parse
<1>7. QED
  BY <1>1, <1>3, <1>4, <1>5, <1>6

(* However a workbook comes to be cached, it is under its path and its name.  *)
LEMMA CacheStep ==
  ASSUME ConsolidationInv, readable' = readable, NEW p \in Uploaded, file' = file,
         \/ cache' = cache
         \/ cache' = [cache EXCEPT ![p] = {p} \cap readable]
         \/ p \in readable /\ cache' = [cache EXCEPT ![p] = {p}, ![file[p].name] = {p}]
         \/ cache' = [cache EXCEPT ![file[p].name] = {}]
  PROVE  cache' \in [Paths \cup Names -> (SUBSET Paths) \cup {Miss}] /\ CacheIsByName'
<1>1. /\ p \in Paths /\ file[p].name \in Names /\ Uploaded' = Uploaded
      /\ cache \in [Paths \cup Names -> (SUBSET Paths) \cup {Miss}]
      /\ Names \cap Paths = {}
  BY ReadsItsName, SameUploads DEF ConsolidationInv, TypeOK, Paths
<1>2. cache' \in [Paths \cup Names -> (SUBSET Paths) \cup {Miss}]
  BY <1>1
<1>3. /\ \A q \in Paths : cache'[q] = cache[q] \/ (q = p /\ cache'[q] = {p} \cap readable)
      /\ \A x \in Names : cache'[x] = cache[x] \/ (x = file[p].name /\ cache'[x] \in {{}, {p} \cap readable})
  BY <1>1
<1>4. CacheIsByName'
  BY <1>1, <1>3 DEF ConsolidationInv, CacheIsByName
<1>5. QED
  BY <1>2, <1>4

LEMMA ParseStep ==
  ASSUME ConsolidationInv, readable' = readable, NEW n \in Runs, NEW p \in Paths, Parse(n, p)
  PROVE  ConsolidationInv'
<1>1. TypeOK /\ Uploaded' = Uploaded /\ p \in Uploaded
  BY SameUploads, ParseReads DEF ConsolidationInv
<1>2. cache' \in [Paths \cup Names -> (SUBSET Paths) \cup {Miss}] /\ CacheIsByName'
  BY <1>1, CacheStep, ParseReads DEF Read
<1>3. TypeOK'
  BY <1>1, <1>2, ParseReads DEF TypeOK, WorkerShape, Stages
<1>4. UploadsAreNumbered'
  BY <1>1, ParseReads DEF ConsolidationInv, UploadsAreNumbered
<1>5. RunsAreNumbered'
  <2>1. wrk[n].pc = "parse"
    BY DEF Parse
  <2>2. n <= runs /\ runs' = runs /\ wrk'[n].user \in Users /\ n \in Nat /\ runs \in Nat
    BY <2>1, IdleIsNoWorker, ParseReads
  <2>3. out' = out /\ wrk[n].pc # "idle" /\ wrk'[n].pc # "idle" /\ \A m \in Runs \ {n} : wrk'[m] = wrk[m]
    BY <2>1, ParseReads
  <2>4. QED
    BY <2>2, <2>3 DEF ConsolidationInv, RunsAreNumbered
<1>6. WorkersReadTheirOwn'
  BY <1>1, ParseReads, ReadsItsName DEF ConsolidationInv, WorkersReadTheirOwn
<1>7. OutputsAreSeparate'
  <2>1. \A m \in Runs : wrk'[m].user = wrk[m].user
    BY ParseReads
  <2>2. QED
    BY <1>1, <2>1, ParseReads DEF ConsolidationInv, OutputsAreSeparate, TypeOK
<1>8. QED
  BY <1>2, <1>3, <1>4, <1>5, <1>6, <1>7 DEF ConsolidationInv

LEMMA PreparseStep ==
  ASSUME ConsolidationInv, readable' = readable, NEW p \in Paths, Preparse(p)
  PROVE  ConsolidationInv'
<1>1. /\ TypeOK /\ Uploaded' = Uploaded /\ p \in Uploaded
      /\ UNCHANGED <<file, disk, trk, wrk, runs, out, reapers, poll, seen>>
  BY SameUploads DEF ConsolidationInv, Preparse, TypeOK
<1>2. cache' \in [Paths \cup Names -> (SUBSET Paths) \cup {Miss}] /\ CacheIsByName'
  <2>1. Read(p) = {p} \cap readable
    BY DEF Preparse, Read
  <2>2. QED
    BY <1>1, <2>1, CacheStep DEF Preparse
<1>3. TypeOK'
  BY <1>1, <1>2 DEF TypeOK
<1>4. QED
  BY <1>1, <1>2, <1>3 DEF ConsolidationInv, UploadsAreNumbered, RunsAreNumbered, WorkersReadTheirOwn, OutputsAreSeparate

-----------------------------------------------------------------------------
LEMMA PurgeStep ==
  ASSUME ConsolidationInv, NEW u \in Users, NEW keep, Purge(u, keep)
  PROVE  /\ disk' \subseteq Uploaded /\ out' \in [Users -> Runs \cup {NoRun}]
         /\ \A v \in Users : out'[v] = NoRun \/ out'[v] = out[v]
  BY DEF ConsolidationInv, TypeOK, Purge

LEMMA RunAdds ==
  ASSUME ConsolidationInv, NEW u \in Users, NEW ins \in SUBSET Paths, NEW chosen \in SUBSET Paths,
         Run(u, ins, chosen)
  PROVE  /\ runs + 1 \in Runs /\ runs \in Nat /\ chosen \subseteq Uploaded /\ chosen \subseteq disk
         /\ wrk' \in [Runs -> WorkerShape(Uploaded)]
         /\ wrk'[runs + 1].pc = "begin" /\ wrk'[runs + 1].user = u
         /\ wrk'[runs + 1].want = chosen /\ wrk'[runs + 1].todo = chosen
         /\ wrk'[runs + 1].rows = {}
         /\ \A m \in Runs \ {runs + 1} : wrk'[m] = wrk[m]
<1> DEFINE new == [NoWorker EXCEPT !.pc = "begin", !.user = u, !.want = chosen, !.todo = chosen]
<1>1. wrk \in [Runs -> WorkerShape(Uploaded)] /\ runs \in Nat /\ disk \subseteq Uploaded
  BY Types DEF ConsolidationInv, TypeOK
<1>2. chosen \subseteq disk /\ chosen \subseteq Paths /\ runs + 1 \in Runs
      /\ wrk' = [wrk EXCEPT ![runs + 1] = new]
  BY <1>1 DEF Run, OnePerName, Runs
<1>3. new \in WorkerShape(Uploaded) /\ new.pc = "begin" /\ new.user = u
      /\ new.want = chosen /\ new.todo = chosen /\ new.rows = {}
  BY <1>2 DEF NoWorker, WorkerShape, Stages
<1> HIDE DEF new
<1>4. QED
  BY <1>1, <1>2, <1>3

LEMMA RunStep ==
  ASSUME ConsolidationInv, readable' = readable, NEW u \in Users,
         NEW ins \in SUBSET Paths, NEW chosen \in SUBSET Paths,
         ins \subseteq Uploaded, Run(u, ins, chosen)
  PROVE  ConsolidationInv'
<1>0. /\ runs + 1 \in Runs /\ runs \in Nat /\ chosen \subseteq Uploaded
      /\ wrk' \in [Runs -> WorkerShape(Uploaded)]
      /\ wrk'[runs + 1].pc = "begin" /\ wrk'[runs + 1].user = u
      /\ wrk'[runs + 1].want = chosen /\ wrk'[runs + 1].todo = chosen
      /\ wrk'[runs + 1].rows = {}
      /\ \A m \in Runs \ {runs + 1} : wrk'[m] = wrk[m]
  BY RunAdds, ZenonT(60)
<1>1. TypeOK /\ Uploaded' = Uploaded /\ UNCHANGED <<file, cache, poll, seen>>
      /\ runs' = runs + 1
      /\ trk' = [running |-> TRUE, summary |-> NoRun, error |-> FALSE]
      /\ reapers' = reapers \cup {[user |-> u, run |-> runs + 1, targets |-> ins, pc |-> "wait"]}
  BY SameUploads DEF ConsolidationInv, Run
<1>2. /\ disk' \subseteq Uploaded /\ out' \in [Users -> Runs \cup {NoRun}]
      /\ \A v \in Users : out'[v] = NoRun \/ out'[v] = out[v]
  BY PurgeStep DEF Run
<1>3. TypeOK'
  <2>1. wrk' \in [Runs -> [pc : Stages, user : Users \cup {Nobody}, want : SUBSET Paths,
                           todo : SUBSET Paths, rows : SUBSET Uploaded]]
    BY <1>0 DEF WorkerShape
  <2>2. runs' \in 0..MaxRuns
    BY <1>1, <1>0 DEF Runs
  <2>3. trk' \in [running : BOOLEAN, summary : Runs \cup {NoRun}, error : BOOLEAN]
    BY <1>1
  <2>4. reapers' \subseteq [user : Users, run : Runs, targets : SUBSET Uploaded, pc : {"wait", "remove"}]
    BY <1>1, <1>0 DEF TypeOK
  <2>5. QED
    BY <1>1, <1>2, <2>1, <2>2, <2>3, <2>4 DEF TypeOK, Stages
<1>4. UploadsAreNumbered' /\ CacheIsByName'
  BY <1>1 DEF ConsolidationInv, UploadsAreNumbered, CacheIsByName
<1>5. RunsAreNumbered'
  <2>1. \A m \in Runs : IF m > runs + 1 THEN wrk'[m] = NoWorker
                        ELSE wrk'[m].pc # "idle" /\ wrk'[m].user \in Users
    BY <1>0 DEF ConsolidationInv, RunsAreNumbered, Runs
  <2>2. \A v \in Users : out'[v] <= runs + 1
    <3>1. NoRun = 0 /\ runs \in Nat /\ out \in [Users -> Runs \cup {NoRun}]
      BY <1>1, <1>0 DEF TypeOK, NoRun
    <3>2. \A v \in Users : out[v] \in Nat /\ out[v] <= runs
      BY <3>1 DEF ConsolidationInv, RunsAreNumbered, Runs
    <3>3. QED
      BY <1>2, <3>1, <3>2
  <2>3. QED
    BY <1>1, <2>1, <2>2 DEF RunsAreNumbered
<1>6. WorkersReadTheirOwn'
  BY <1>1, <1>0 DEF ConsolidationInv, WorkersReadTheirOwn
<1>7. OutputsAreSeparate'
  <2>1. \A v \in Users : out'[v] # NoRun => out'[v] = out[v] /\ out'[v] \in Runs /\ out'[v] # runs + 1
    BY <1>1, <1>2, <1>0 DEF ConsolidationInv, RunsAreNumbered, TypeOK, Runs, NoRun
  <2>2. QED
    BY <2>1, <1>0 DEF ConsolidationInv, OutputsAreSeparate
<1>8. QED
  BY <1>3, <1>4, <1>5, <1>6, <1>7 DEF ConsolidationInv

(* A request or a thread that touches no worker: fewer files, fewer workbooks.*)
LEMMA FewerFiles ==
  ASSUME ConsolidationInv, readable' = readable, UNCHANGED <<file, cache, trk, wrk, runs>>,
         disk' \subseteq Uploaded, out' \in [Users -> Runs \cup {NoRun}],
         \A v \in Users : out'[v] = NoRun \/ out'[v] = out[v],
         reapers' \subseteq [user : Users, run : Runs, targets : SUBSET Uploaded, pc : {"wait", "remove"}],
         poll' \in [user : Users \cup {Nobody}, summary : Runs \cup {NoRun}],
         seen' \in [Users -> Runs \cup {NoRun}]
  PROVE  ConsolidationInv'
<1>1. TypeOK /\ Uploaded' = Uploaded
  BY SameUploads DEF ConsolidationInv
<1>2. TypeOK'
  BY <1>1 DEF TypeOK
<1>3. RunsAreNumbered' /\ OutputsAreSeparate'
  BY Types DEF ConsolidationInv, RunsAreNumbered, OutputsAreSeparate, NoRun
<1>4. UploadsAreNumbered'
  BY <1>1 DEF ConsolidationInv, UploadsAreNumbered
<1>5. WorkersReadTheirOwn'
  BY <1>1 DEF ConsolidationInv, WorkersReadTheirOwn
<1>6. CacheIsByName'
  BY <1>1 DEF ConsolidationInv, CacheIsByName
<1>7. QED
  BY <1>2, <1>3, <1>4, <1>5, <1>6 DEF ConsolidationInv

LEMMA RefuseStep ==
  ASSUME ConsolidationInv, readable' = readable, NEW u \in Users, NEW ins \in SUBSET Paths, Refuse(u, ins)
  PROVE  ConsolidationInv'
<1>1. TypeOK /\ UNCHANGED <<file, cache, trk, wrk, runs, reapers, poll, seen>>
  BY DEF ConsolidationInv, Refuse
<1>2. QED
  BY <1>1, PurgeStep, FewerFiles DEF Refuse, TypeOK

LEMMA PollStep ==
  ASSUME ConsolidationInv, readable' = readable, PollAnswer \/ \E u \in Users : PollSummary(u)
  PROVE  ConsolidationInv'
<1>1. TypeOK /\ UNCHANGED <<file, disk, cache, trk, wrk, runs, out, reapers>>
  BY DEF ConsolidationInv, PollSummary, PollAnswer
<1>2. poll' \in [user : Users \cup {Nobody}, summary : Runs \cup {NoRun}]
  BY <1>1 DEF TypeOK, PollSummary, PollAnswer, NoPoll
<1>3. seen' \in [Users -> Runs \cup {NoRun}]
  BY <1>1 DEF TypeOK, PollSummary, PollAnswer
<1>4. QED
  BY <1>1, <1>2, <1>3, FewerFiles DEF TypeOK

LEMMA ReaperStep ==
  ASSUME ConsolidationInv, readable' = readable, NEW r \in reapers, ReaperSees(r) \/ ReaperRemoves(r)
  PROVE  ConsolidationInv'
<1>1. TypeOK /\ UNCHANGED <<file, cache, trk, wrk, runs, out, poll, seen>>
  BY DEF ConsolidationInv, ReaperSees, ReaperRemoves
<1>2. disk' \subseteq Uploaded
  BY <1>1 DEF TypeOK, ReaperSees, ReaperRemoves
<1>3. reapers' \subseteq [user : Users, run : Runs, targets : SUBSET Uploaded, pc : {"wait", "remove"}]
  <2>1. r \in [user : Users, run : Runs, targets : SUBSET Uploaded, pc : {"wait", "remove"}]
    BY <1>1 DEF TypeOK
  <2>2. [r EXCEPT !.pc = "remove"]
          \in [user : Users, run : Runs, targets : SUBSET Uploaded, pc : {"wait", "remove"}]
    BY <2>1
  <2>3. QED
    BY <1>1, <2>2 DEF TypeOK, ReaperSees, ReaperRemoves
<1>4. QED
  BY <1>1, <1>2, <1>3, FewerFiles DEF TypeOK


LEMMA RequestStep ==
  ASSUME ConsolidationInv, readable' = readable, NEW u \in Users, Request(u)
  PROVE  ConsolidationInv'
<1>1. CASE \E p \in Paths, x \in Names : Upload(u, p, x)
  BY <1>1, UploadStep
<1>2. CASE \E p \in Paths : Preparse(p)
  BY <1>2, PreparseStep
<1>3. ASSUME NEW ins \in SUBSET Uploaded,
             Refuse(u, ins) \/ \E chosen \in SUBSET ins : Run(u, ins, chosen)
      PROVE  ConsolidationInv'
  <2>1. ins \in SUBSET Paths /\ ins \subseteq Uploaded
    BY DEF Uploaded
  <2>2. CASE Refuse(u, ins)
    BY <2>1, <2>2, RefuseStep
  <2>3. ASSUME NEW chosen \in SUBSET ins, Run(u, ins, chosen) PROVE ConsolidationInv'
    <3>1. chosen \in SUBSET Paths
      BY <2>1
    <3>2. QED
      BY <2>1, <2>3, <3>1, RunStep
  <2>4. QED
    BY <1>3, <2>2, <2>3
<1>4. CASE PollSummary(u)
  BY <1>4, PollStep
<1>5. QED
  BY <1>1, <1>2, <1>3, <1>4 DEF Request

LEMMA NextStep == ConsolidationInv /\ [Next]_allVars => ConsolidationInv'
<1> SUFFICES ASSUME ConsolidationInv, [Next]_allVars PROVE ConsolidationInv'
  OBVIOUS
<1>0. readable' = readable
  BY DEF Next, around, allVars
<1>1. CASE \E u \in Users : Request(u)
  BY <1>0, <1>1, RequestStep
<1>2. CASE PollAnswer
  BY <1>0, <1>2, PollStep
<1>3. ASSUME NEW n \in Runs, Worker(n) PROVE ConsolidationInv'
  <2>1. CASE \E p \in Paths : Parse(n, p)
    BY <1>0, <2>1, ParseStep
  <2>2. CASE Moves(n)
    BY <1>0, <2>2, MovesStep
  <2>3. QED
    BY <1>3, <2>1, <2>2 DEF Worker, Moves
<1>4. CASE Reaper
  BY <1>0, <1>4, ReaperStep DEF Reaper
<1>5. CASE UNCHANGED allVars
  <2>1. TypeOK /\ UNCHANGED <<file, cache, trk, wrk, runs>> /\ disk' = disk /\ out' = out
        /\ reapers' = reapers /\ poll' = poll /\ seen' = seen
    BY <1>5 DEF ConsolidationInv, allVars, vars
  <2>2. QED
    BY <1>0, <2>1, FewerFiles DEF TypeOK
<1>6. QED
  BY <1>1, <1>2, <1>3, <1>4, <1>5 DEF Next

-----------------------------------------------------------------------------
(* Users who take turns: no run begins while another is in progress, and no    *)
(* worker is left to lower the flag of the next.                              *)

LEMMA FlagDown ==
  ASSUME TurnsInv, ~trk.running
  PROVE  \A n \in Runs : ~Busy(n) /\ wrk[n].todo = {}
  BY DEF TurnsInv, ConsolidationInv, OneAtATime, WorkersReadTheirOwn, Busy

(* What is left of the invariant when neither a worker nor the tracker moves. *)
LEMMA SameTurns ==
  ASSUME TurnsInv, ConsolidationInv', UNCHANGED <<trk, wrk, runs>>, ReadOrThere', ReapersComeAfter'
  PROVE  TurnsInv'
  BY DEF TurnsInv, OneAtATime, OutcomeIsThere, Busy

LEMMA InitTurns == Init => TurnsInv
<1> SUFFICES ASSUME Init PROVE TurnsInv
  OBVIOUS
<1>1. Uploaded = {} /\ reapers = {} /\ runs = 0
      /\ \A n \in Runs : wrk[n].pc = "idle" /\ wrk[n].want = {}
  BY DEF Init, Uploaded, NoWorker
<1>2. OneAtATime /\ ReadOrThere /\ ReapersComeAfter /\ OutcomeIsThere
  BY <1>1 DEF OneAtATime, ReadOrThere, ReapersComeAfter, OutcomeIsThere, Busy
<1>3. QED
  BY <1>2, InitGeneral DEF TurnsInv

LEMMA UploadTurns ==
  ASSUME TurnsInv, readable' = readable, NEW u \in Users, NEW p \in Paths, NEW x \in Names, Upload(u, p, x)
  PROVE  TurnsInv'
<1>1. ConsolidationInv /\ ConsolidationInv' /\ Uploaded \subseteq Paths
      /\ UNCHANGED <<cache, trk, wrk, runs, reapers>> /\ disk' = disk \cup {p}
  BY UploadStep, Types DEF TurnsInv, Upload, ConsolidationInv
<1>2. /\ p \notin Uploaded /\ Uploaded' = Uploaded \cup {p} /\ file'[p].name = x
      /\ \A q \in Uploaded : file'[q] = file[q]
  BY <1>1, UploadIsNew
<1>3. \A q \in Uploaded : Only(q)' => Only(q)
  BY <1>2 DEF Only
<1>4. Only(p)' => cache[x] = Miss
  BY <1>1, <1>2 DEF Only, ConsolidationInv, CacheIsByName
<1>5. \A q \in Uploaded : Cached(q)' <=> Cached(q)
  BY <1>1, <1>2 DEF Cached
<1>6. \A n \in Runs : wrk[n].want \subseteq Uploaded
  BY <1>1 DEF ConsolidationInv, WorkersReadTheirOwn
<1>7. ReadOrThere'
  <2>1. \A q \in Uploaded' : Only(q)' => cache'[file'[q].name] \in {Miss, {q} \cap readable}
    BY <1>1, <1>2, <1>3, <1>4 DEF TurnsInv, ReadOrThere
  <2>2. \A n \in Runs : \A q \in wrk'[n].want : Only(q)' =>
          IF q \in wrk'[n].todo THEN q \in disk' \/ Cached(q)' ELSE {q} \cap readable \subseteq wrk'[n].rows /\ Cached(q)'
    BY <1>1, <1>3, <1>5, <1>6 DEF TurnsInv, ReadOrThere
  <2>3. QED
    BY <2>1, <2>2 DEF ReadOrThere
<1>8. ReapersComeAfter'
  <2>1. \A r \in reapers : r.targets \subseteq Uploaded
    BY <1>1 DEF ConsolidationInv, TypeOK
  <2>2. QED
    BY <1>1, <1>2, <1>3, <2>1 DEF TurnsInv, ReapersComeAfter, Busy
<1>9. QED
  BY <1>1, <1>7, <1>8, SameTurns

LEMMA PreparseTurns ==
  ASSUME TurnsInv, readable' = readable, NEW p \in Paths, Preparse(p)
  PROVE  TurnsInv'
<1>0. Read(p) # Miss
  BY DEF Miss, Paths, Read
<1>1. ConsolidationInv /\ ConsolidationInv' /\ Uploaded' = Uploaded /\ Read(p) # Miss
      /\ UNCHANGED <<file, disk, trk, wrk, runs, reapers>>
  BY <1>0, PreparseStep, SameUploads DEF TurnsInv, Preparse
<1>2. /\ \A x \in Names : cache'[x] = cache[x]
      /\ \A q \in Paths : cache[q] # Miss => cache'[q] # Miss
  <2>1. /\ cache \in [Paths \cup Names -> (SUBSET Paths) \cup {Miss}]
        /\ cache' = [cache EXCEPT ![p] = Read(p)]
    BY <1>1 DEF ConsolidationInv, TypeOK, Preparse
  <2>2. p \notin Names
    BY DEF Paths
  <2>3. QED
    BY <1>1, <2>1, <2>2
<1>3. \A q \in Uploaded : q \in Paths /\ file[q].name \in Names
  BY <1>1 DEF ConsolidationInv, UploadsAreNumbered, Uploaded
<1>4. \A q \in Uploaded : Cached(q) => Cached(q)'
  BY <1>1, <1>2, <1>3 DEF Cached
<1>5. \A n \in Runs : wrk[n].want \subseteq Uploaded
  BY <1>1 DEF ConsolidationInv, WorkersReadTheirOwn
<1>6. ReadOrThere'
  <2>1. \A q \in Uploaded : Only(q)' <=> Only(q)
    BY <1>1 DEF Only
  <2>2. \A q \in Uploaded' : Only(q)' => cache'[file'[q].name] \in {Miss, {q} \cap readable}
    BY <1>1, <1>2, <1>3, <2>1 DEF TurnsInv, ReadOrThere
  <2>3. \A n \in Runs : \A q \in wrk'[n].want : Only(q)' =>
          IF q \in wrk'[n].todo THEN q \in disk' \/ Cached(q)' ELSE {q} \cap readable \subseteq wrk'[n].rows /\ Cached(q)'
    BY <1>1, <1>4, <1>5, <2>1 DEF TurnsInv, ReadOrThere
  <2>4. QED
    BY <2>2, <2>3 DEF ReadOrThere
<1>7. ReapersComeAfter'
  BY <1>1 DEF TurnsInv, ReapersComeAfter, Busy, Only
<1>8. QED
  BY <1>1, <1>6, <1>7, SameTurns

(* A worker reads a workbook of a name of its own: itself, and it stays cached.*)
LEMMA ParseTurns ==
  ASSUME TurnsInv, readable' = readable, NEW n \in Runs, NEW p \in Paths, Parse(n, p)
  PROVE  TurnsInv'
<1>1. ConsolidationInv /\ ConsolidationInv' /\ Uploaded' = Uploaded /\ p \in Uploaded
      /\ UNCHANGED <<file, disk, trk, runs, reapers>>
      /\ wrk[n].pc = "parse" /\ p \in wrk[n].todo /\ p \in wrk[n].want
  BY ParseStep, ParseReads, SameUploads DEF TurnsInv, Parse
<1>2. /\ wrk'[n].pc = wrk[n].pc /\ wrk'[n].want = wrk[n].want
      /\ wrk'[n].todo = wrk[n].todo \ {p} /\ wrk'[n].rows = wrk[n].rows \cup Rows(p)
      /\ \A m \in Runs \ {n} : wrk'[m] = wrk[m]
  BY <1>1, ParseReads
<1>3. /\ p \in Paths /\ file[p].name \in Names /\ {p} # Miss /\ {} # Miss /\ Names \cap Paths = {}
      /\ \A q \in Uploaded : q \in Paths /\ file[q].name \in Names
      /\ cache \in [Paths \cup Names -> (SUBSET Paths) \cup {Miss}]
  BY <1>1, ReadsItsName DEF ConsolidationInv, TypeOK, Paths
<1>4. Only(p) => Hit(p) # Miss \/ p \in disk
  BY <1>1 DEF TurnsInv, ReadOrThere, Cached, Hit
<1>5. \A k \in Paths \cup Names : cache[k] # Miss => cache'[k] # Miss
  <2>1. \/ cache' = cache
        \/ cache' = [cache EXCEPT ![p] = {p}, ![file[p].name] = {p}]
        \/ cache' = [cache EXCEPT ![file[p].name] = {}]
    BY <1>1, ParseReads
  <2>2. QED
    BY <1>3, <2>1
<1>6. Cached(p)'
  BY <1>1, <1>3, ParseReads DEF Cached, Hit
<1>7. \A q \in Uploaded : Cached(q) => Cached(q)'
  BY <1>1, <1>3, <1>5 DEF Cached
<1>8. Only(p) => {p} \cap readable \subseteq Rows(p)
  BY <1>1, <1>3, <1>4 DEF TurnsInv, ConsolidationInv, CacheIsByName, ReadOrThere, Rows, Hit, Read
<1>9. \A q \in Uploaded : Only(q) => cache'[file[q].name] \in {Miss, {q} \cap readable}
  <2> SUFFICES ASSUME NEW q \in Uploaded, Only(q) PROVE cache'[file[q].name] \in {Miss, {q} \cap readable}
    OBVIOUS
  <2>1. CASE file[q].name # file[p].name
    BY <1>1, <1>3, <2>1, ParseReads DEF TurnsInv, ReadOrThere
  <2>2. CASE q = p
    <3>1. CASE Hit(p) # Miss
      BY <1>1, <2>2, <3>1, ParseReads DEF TurnsInv, ReadOrThere
    <3>2. CASE Hit(p) = Miss
      <4>1. Read(p) = {p} \cap readable
        BY <1>4, <2>2, <3>2 DEF Read
      <4>2. cache'[file[p].name] = Read(p)
        BY <1>1, <1>3, <3>2, ParseReads DEF Read
      <4>3. QED
        BY <2>2, <4>1, <4>2
    <3>3. QED
      BY <3>1, <3>2
  <2>3. QED
    BY <1>1, <2>1, <2>2 DEF Only
<1>10. \A q \in Uploaded : Only(q)' <=> Only(q)
  BY <1>1 DEF Only
<1>11. \A m \in Runs : wrk[m].want \subseteq Uploaded
  BY <1>1 DEF ConsolidationInv, WorkersReadTheirOwn
<1>12. \A m \in Runs : \A q \in wrk'[m].want : Only(q) =>
         IF q \in wrk'[m].todo THEN q \in disk \/ Cached(q)' ELSE {q} \cap readable \subseteq wrk'[m].rows /\ Cached(q)'
  BY <1>1, <1>2, <1>6, <1>7, <1>8, <1>11 DEF TurnsInv, ReadOrThere
<1>13. ReadOrThere'
  <2>1. \A m \in Runs : wrk'[m].want \subseteq Uploaded
    BY <1>2, <1>11
  <2>2. QED
    BY <1>1, <1>9, <1>10, <1>12, <2>1 DEF ReadOrThere
<1>14. \A m \in Runs : wrk'[m].pc = wrk[m].pc /\ wrk'[m].want = wrk[m].want
  BY <1>2
<1>15. ReapersComeAfter'
  <2>1. \A r \in reapers : r.run \in Runs /\ r.targets \subseteq Uploaded
    BY <1>1 DEF ConsolidationInv, TypeOK
  <2>2. QED
    BY <1>1, <1>10, <1>14, <2>1 DEF TurnsInv, ReapersComeAfter, Busy
<1>16. QED
  BY <1>1, <1>13, <1>14, <1>15 DEF TurnsInv, OneAtATime, OutcomeIsThere, Busy

(* Of a worker that moves on, only its place changes; it stays busy or ends.  *)
LEMMA SameWork ==
  ASSUME TurnsInv, readable' = readable, ConsolidationInv', NEW n \in Runs, NEW c \in Stages,
         wrk' = [wrk EXCEPT ![n].pc = c], Busy(n), UNCHANGED <<file, disk, cache, runs, reapers>>
  PROVE  /\ ReadOrThere' /\ ReapersComeAfter' /\ n = runs /\ trk.running
         /\ wrk'[n].pc = c /\ \A m \in Runs \ {n} : ~Busy(m) /\ wrk'[m] = wrk[m]
<1>1. ConsolidationInv /\ Uploaded' = Uploaded
  BY SameUploads DEF TurnsInv
<1>2. /\ wrk'[n].pc = c
      /\ \A m \in Runs : wrk'[m].want = wrk[m].want /\ wrk'[m].todo = wrk[m].todo
                         /\ wrk'[m].rows = wrk[m].rows
      /\ \A m \in Runs \ {n} : wrk'[m] = wrk[m]
  BY <1>1, MovesOne
<1>3. n = runs /\ trk.running /\ \A m \in Runs \ {n} : ~Busy(m)
  BY DEF TurnsInv, OneAtATime
<1>4. ReadOrThere'
  BY <1>1, <1>2 DEF TurnsInv, ReadOrThere, Only, Cached
<1>5. ReapersComeAfter'
  <2>1. \A r \in reapers : r.run \in Runs
    BY <1>1 DEF ConsolidationInv, TypeOK
  <2>2. \A m \in Runs : Busy(m)' => Busy(m)
    BY <1>2 DEF Busy
  <2>3. QED
    BY <1>1, <1>2, <2>1, <2>2 DEF TurnsInv, ReapersComeAfter, Only
<1>6. QED
  BY <1>2, <1>3, <1>4, <1>5

LEMMA MovesTurns ==
  ASSUME logTakes, readable' = readable, TurnsInv, NEW n \in Runs, Moves(n)
  PROVE  TurnsInv'
<1>1. ConsolidationInv /\ ConsolidationInv' /\ trk \in TrackerShape
      /\ UNCHANGED <<file, disk, cache, runs, reapers>>
  BY MovesStep DEF TurnsInv, ConsolidationInv, TypeOK, TrackerShape, Moves, Begin, WriteWorkbook,
     TellSummary, Lower, Log, Raise, SetError, Fail
<1>2. n # NoRun /\ n \in Nat
  BY DEF Runs, NoRun
<1>3. CASE Log(n)
  <2>1. \A m \in Runs : Busy(m)' <=> Busy(m)
    BY <1>1, <1>3, MovesOne, "ended" \in Stages DEF Log, Busy, Stages
  <2>2. \A m \in Runs : wrk'[m].want = wrk[m].want /\ wrk'[m].todo = wrk[m].todo
                         /\ wrk'[m].rows = wrk[m].rows
                         /\ (wrk'[m].pc = wrk[m].pc \/ wrk'[m].pc = "ended")
    BY <1>1, <1>3, MovesOne, "ended" \in Stages DEF Log, Stages
  <2>3. Uploaded' = Uploaded
    BY <1>1, SameUploads
  <2>4. ReadOrThere'
    <3>1. \A q : (Only(q)' <=> Only(q)) /\ (Cached(q)' <=> Cached(q))
      BY <1>1, <2>3 DEF Only, Cached
    <3>2. QED
      BY <1>1, <2>2, <2>3, <3>1 DEF TurnsInv, ReadOrThere
  <2>5. ReapersComeAfter'
    <3>1. \A r \in reapers : r.run \in Runs
      BY <1>1 DEF ConsolidationInv, TypeOK
    <3>2. QED
      BY <1>1, <2>1, <2>2, <2>3, <3>1 DEF TurnsInv, ReapersComeAfter, Only
  <2>6. OneAtATime' /\ OutcomeIsThere'
    BY <1>3, <2>1, <2>2 DEF TurnsInv, OneAtATime, OutcomeIsThere, Log
  <2>7. QED
    BY <1>1, <2>4, <2>5, <2>6 DEF TurnsInv
<1>4. ASSUME NEW c \in Stages \ {"begin"}, wrk' = [wrk EXCEPT ![n].pc = c], Busy(n),
             c \in {"parse", "tell", "lower", "error", "fail"} => trk'.running,
             c = "lower" => trk'.summary = n, c = "fail" => trk'.error,
             ~trk'.running => trk'.summary = n \/ trk'.error
      PROVE  TurnsInv'
  <2>1. /\ ReadOrThere' /\ ReapersComeAfter' /\ n = runs
        /\ wrk'[n].pc = c /\ \A m \in Runs \ {n} : ~Busy(m) /\ wrk'[m] = wrk[m]
    BY <1>1, <1>4, SameWork
  <2>3. OneAtATime'
    BY <1>1, <1>4, <2>1 DEF OneAtATime, Busy
  <2>4. OutcomeIsThere'
    BY <1>1, <1>4, <2>1 DEF OutcomeIsThere
  <2>5. QED
    BY <1>1, <2>1, <2>3, <2>4 DEF TurnsInv
<1>5. Busy(n) => trk.running /\ (wrk[n].pc = "lower" => trk.summary = n) /\ (wrk[n].pc = "fail" => trk.error)
  BY DEF TurnsInv, OneAtATime
<1>6. CASE Begin(n)
  BY <1>1, <1>4, <1>6, "parse" \in Stages \ {"begin"} DEF Begin, Busy, Stages, TrackerShape
<1>7. CASE WriteWorkbook(n)
  BY <1>1, <1>4, <1>5, <1>7, "tell" \in Stages \ {"begin"} DEF WriteWorkbook, Busy, Stages
<1>8. CASE TellSummary(n)
  BY <1>1, <1>4, <1>5, <1>8, "lower" \in Stages \ {"begin"} DEF TellSummary, Busy, Stages, TrackerShape
<1>9. CASE Lower(n)
  BY <1>1, <1>4, <1>5, <1>9, "log" \in Stages \ {"begin"} DEF Lower, Busy, Stages, TrackerShape
<1>10. CASE Raise(n)
  BY <1>1, <1>4, <1>5, <1>10, "error" \in Stages \ {"begin"} DEF Raise, Busy, Stages
<1>11. CASE SetError(n)
  BY <1>1, <1>4, <1>5, <1>11, "fail" \in Stages \ {"begin"} DEF SetError, Busy, Stages, TrackerShape
<1>12. CASE Fail(n)
  BY <1>1, <1>4, <1>5, <1>12, "failed" \in Stages \ {"begin"} DEF Fail, Busy, Stages, TrackerShape
<1>13. QED
  BY <1>3, <1>6, <1>7, <1>8, <1>9, <1>10, <1>11, <1>12 DEF Moves


(* The purge of an accepted run spares what it was given; what an earlier run *)
(* was given and not taken has the name of another, or is gone.               *)
LEMMA RunTurns ==
  ASSUME patient, readable' = readable, TurnsInv, NEW u \in Users, NEW ins \in SUBSET Paths, NEW chosen \in SUBSET Paths,
         ins \subseteq Uploaded, Run(u, ins, chosen)
  PROVE  TurnsInv'
<1>1. ConsolidationInv /\ ConsolidationInv' /\ Uploaded' = Uploaded /\ ~trk.running
      /\ UNCHANGED <<file, cache>> /\ runs' = runs + 1 /\ disk' \subseteq disk
      /\ trk' = [running |-> TRUE, summary |-> NoRun, error |-> FALSE]
      /\ reapers' = reapers \cup {[user |-> u, run |-> runs + 1, targets |-> ins, pc |-> "wait"]}
  BY RunStep, SameUploads DEF TurnsInv, Run, Purge
<1>2. /\ runs + 1 \in Runs /\ runs \in Nat /\ chosen \subseteq Uploaded /\ chosen \subseteq disk
      /\ wrk'[runs + 1].pc = "begin"
      /\ wrk'[runs + 1].want = chosen /\ wrk'[runs + 1].todo = chosen
      /\ \A m \in Runs \ {runs + 1} : wrk'[m] = wrk[m]
  BY <1>1, RunAdds, Zenon
<1>3. chosen \subseteq disk'
  BY <1>2 DEF Run, Purge, OnePerName
<1>4. \A q \in Uploaded : (Only(q)' <=> Only(q)) /\ (Cached(q)' <=> Cached(q))
  BY <1>1 DEF Only, Cached
<1>5. \A m \in Runs : ~Busy(m) /\ wrk[m].todo = {} /\ wrk[m].want \subseteq Uploaded
  BY <1>1, FlagDown DEF ConsolidationInv, WorkersReadTheirOwn
<1>6. ReadOrThere'
  <2>1. \A q \in Uploaded' : Only(q)' => cache'[file'[q].name] \in {Miss, {q} \cap readable}
    BY <1>1, <1>4 DEF TurnsInv, ReadOrThere
  <2>2. ASSUME NEW n \in Runs, NEW q \in wrk'[n].want, Only(q)'
        PROVE  IF q \in wrk'[n].todo THEN q \in disk' \/ Cached(q)'
                                     ELSE {q} \cap readable \subseteq wrk'[n].rows /\ Cached(q)'
    <3>1. CASE n = runs + 1
      BY <1>2, <1>3, <2>2, <3>1
    <3>2. CASE n # runs + 1
      BY <1>2, <1>4, <1>5, <2>2, <3>2 DEF TurnsInv, ReadOrThere
    <3>3. QED
      BY <3>1, <3>2
  <2>3. QED
    BY <2>1, <2>2 DEF ReadOrThere
<1>7. \A m \in Runs \ {runs + 1} : Busy(m)' <=> Busy(m)
  BY <1>2 DEF Busy
<1>8. ReapersComeAfter'
  <2>1. ASSUME NEW r \in reapers
        PROVE  /\ r.run <= runs + 1 /\ (r.pc = "remove" => ~Busy(r.run)')
               /\ \A q \in r.targets \cap disk' : Only(q)' => q \in wrk'[r.run].want
    <3>1. r.run \in Runs /\ r.run <= runs /\ r.run # runs + 1 /\ r.targets \subseteq Uploaded
      BY <1>1, <1>2 DEF TurnsInv, ReapersComeAfter, ConsolidationInv, TypeOK, Runs
    <3>2. wrk'[r.run] = wrk[r.run] /\ (Busy(r.run)' <=> Busy(r.run)) /\ r.run <= runs + 1
      BY <1>2, <1>7, <3>1 DEF Runs
    <3>3. QED
      BY <1>1, <1>4, <3>1, <3>2 DEF TurnsInv, ReapersComeAfter
  <2>2. ASSUME NEW q \in ins \cap disk', Only(q)' PROVE q \in chosen
    <3>1. q \in ins \cap disk /\ q \in Uploaded /\ Only(q)
      BY <1>1, <1>4, <2>2
    <3>2. PICK k \in chosen : file[k].name = file[q].name
      BY <3>1 DEF Run, OnePerName
    <3>3. k = q
      BY <1>2, <3>1, <3>2 DEF Only
    <3>4. QED
      BY <3>3
  <2>3. QED
    BY <1>1, <1>2, <2>1, <2>2 DEF ReapersComeAfter
<1>9. OneAtATime' /\ OutcomeIsThere'
  BY <1>1, <1>2, <1>5, <1>7 DEF OneAtATime, OutcomeIsThere, Busy
<1>10. QED
  BY <1>1, <1>6, <1>8, <1>9 DEF TurnsInv

(* Files go while no worker reads, or only those that are read already.       *)
LEMMA FilesGo ==
  ASSUME TurnsInv, readable' = readable, ConsolidationInv', UNCHANGED <<file, cache, trk, wrk, runs>>,
         disk' \subseteq disk, NEW gone, disk \ disk' \subseteq gone,
         \A n \in Runs : \A p \in wrk[n].todo \cap gone \cap disk : Only(p) => Cached(p),
         \A r \in reapers' : \E s \in reapers :
            r.run = s.run /\ r.targets = s.targets /\ (r.pc = "remove" => ~Busy(r.run))
  PROVE  TurnsInv'
<1>1. Uploaded' = Uploaded /\ ConsolidationInv
  BY SameUploads DEF TurnsInv
<1>2. /\ \A q : (Only(q)' <=> Only(q)) /\ (Cached(q)' <=> Cached(q))
      /\ \A n : Busy(n)' <=> Busy(n)
  BY <1>1 DEF Only, Cached, Busy
<1>3. ReadOrThere'
  BY <1>1, <1>2 DEF TurnsInv, ReadOrThere
<1>4. ReapersComeAfter'
  BY <1>1, <1>2 DEF TurnsInv, ReapersComeAfter
<1>5. QED
  BY <1>3, <1>4, SameTurns

LEMMA RefuseTurns ==
  ASSUME patient, readable' = readable, TurnsInv, NEW u \in Users, NEW ins \in SUBSET Paths, Refuse(u, ins)
  PROVE  TurnsInv'
<1>1. ConsolidationInv' /\ UNCHANGED <<file, cache, trk, wrk, runs, reapers>> /\ ~trk.running
      /\ disk' \subseteq disk
  BY RefuseStep DEF TurnsInv, Refuse, Purge
<1>2. \A n \in Runs : wrk[n].todo = {}
  BY <1>1, FlagDown
<1>3. \A r \in reapers : r.pc = "remove" => ~Busy(r.run)
  BY DEF TurnsInv, ReapersComeAfter
<1>4. QED
  BY <1>1, <1>2, <1>3, FilesGo

LEMMA ReaperTurns ==
  ASSUME TurnsInv, readable' = readable, NEW r \in reapers, ReaperSees(r) \/ ReaperRemoves(r)
  PROVE  TurnsInv'
<1>1. ConsolidationInv /\ ConsolidationInv' /\ UNCHANGED <<file, cache, trk, wrk, runs>>
      /\ r \in [user : Users, run : Runs, targets : SUBSET Uploaded, pc : {"wait", "remove"}]
  BY ReaperStep DEF TurnsInv, ConsolidationInv, TypeOK, ReaperSees, ReaperRemoves
<1>2. \A s \in reapers : s.pc = "remove" => ~Busy(s.run)
  BY DEF TurnsInv, ReapersComeAfter
<1>3. CASE ReaperSees(r)
  <2>1. /\ ~Busy(r.run) /\ disk' = disk
        /\ reapers' = (reapers \ {r}) \cup {[r EXCEPT !.pc = "remove"]}
    BY <1>1, <1>3, FlagDown DEF ReaperSees, StillRunning
  <2>2. [r EXCEPT !.pc = "remove"].run = r.run /\ [r EXCEPT !.pc = "remove"].targets = r.targets
    BY <1>1
  <2>3. \A t \in reapers' : \E s \in reapers :
          t.run = s.run /\ t.targets = s.targets /\ (t.pc = "remove" => ~Busy(t.run))
    BY <1>2, <2>1, <2>2
  <2>4. QED
    BY <1>1, <2>1, <2>3, FilesGo
<1>4. CASE ReaperRemoves(r)
  <2>1. r.run \in Runs /\ ~Busy(r.run) /\ wrk[r.run].todo = {} /\ disk' = disk \ r.targets
        /\ reapers' \subseteq reapers
    BY <1>1, <1>2, <1>4 DEF ReaperRemoves, ConsolidationInv, WorkersReadTheirOwn, Busy
  <2>2. \A p \in r.targets \cap disk : Only(p) => Cached(p)
    BY <1>1, <2>1 DEF TurnsInv, ReapersComeAfter, ReadOrThere
  <2>3. QED
    BY <1>1, <1>2, <2>1, <2>2, FilesGo
<1>5. QED
  BY <1>3, <1>4

LEMMA NextTurns == TakeTurns /\ TurnsInv /\ [Next]_allVars => TurnsInv'
<1> SUFFICES ASSUME TakeTurns, TurnsInv, [Next]_allVars PROVE TurnsInv'
  OBVIOUS
<1>0. readable' = readable
  BY DEF Next, around, allVars
<1>1. ConsolidationInv /\ ConsolidationInv'
  BY NextStep DEF TurnsInv
<1>2. ASSUME UNCHANGED <<file, disk, cache, trk, wrk, runs, reapers>> PROVE TurnsInv'
  <2>1. Uploaded' = Uploaded
    BY <1>2, SameUploads
  <2>2. ReadOrThere' /\ ReapersComeAfter'
    BY <1>0, <1>2, <2>1 DEF TurnsInv, ReadOrThere, ReapersComeAfter, Only, Cached, Busy
  <2>3. QED
    BY <1>1, <1>2, <2>2, SameTurns
<1>3. ASSUME NEW u \in Users, Request(u) PROVE TurnsInv'
  <2>1. CASE \E p \in Paths, x \in Names : Upload(u, p, x)
    BY <1>0, <2>1, UploadTurns
  <2>2. CASE \E p \in Paths : Preparse(p)
    BY <1>0, <2>2, PreparseTurns
  <2>3. ASSUME NEW ins \in SUBSET Uploaded,
               Refuse(u, ins) \/ \E chosen \in SUBSET ins : Run(u, ins, chosen)
        PROVE  TurnsInv'
    <3>1. ins \in SUBSET Paths /\ ins \subseteq Uploaded
      BY DEF Uploaded
    <3>2. CASE Refuse(u, ins)
        BY <1>0, <3>1, <3>2, RefuseTurns DEF TakeTurns
    <3>3. ASSUME NEW chosen \in SUBSET ins, Run(u, ins, chosen) PROVE TurnsInv'
      <4>1. chosen \in SUBSET Paths
        BY <3>1
      <4>2. QED
        BY <1>0, <3>1, <3>3, <4>1, RunTurns DEF TakeTurns
    <3>4. QED
      BY <2>3, <3>2, <3>3
  <2>4. CASE PollSummary(u)
    BY <1>2, <2>4 DEF PollSummary
  <2>5. QED
    BY <1>3, <2>1, <2>2, <2>3, <2>4 DEF Request
<1>4. CASE PollAnswer
  BY <1>2, <1>4 DEF PollAnswer
<1>5. ASSUME NEW n \in Runs, Worker(n) PROVE TurnsInv'
  <2>1. CASE \E p \in Paths : Parse(n, p)
    BY <1>0, <2>1, ParseTurns
  <2>2. CASE Moves(n)
    BY <1>0, <2>2, MovesTurns DEF TakeTurns
  <2>3. QED
    BY <1>5, <2>1, <2>2 DEF Worker, Moves
<1>6. CASE Reaper
  BY <1>0, <1>6, ReaperTurns DEF Reaper
<1>7. CASE UNCHANGED allVars
  BY <1>2, <1>7 DEF allVars, vars
<1>8. QED
  BY <1>3, <1>4, <1>5, <1>6, <1>7 DEF Next

LEMMA ReadInFull == TurnsInv => MergesWhatWasGiven
<1> SUFFICES ASSUME TurnsInv, NEW n \in Runs, NamedOnce(n),
                    wrk[n].pc \in {"tell", "lower", "log", "ended"}
             PROVE  wrk[n].rows = wrk[n].want \cap readable
  BY DEF MergesWhatWasGiven
<1>1. /\ wrk[n].todo = {} /\ wrk[n].want \subseteq Uploaded /\ wrk[n].rows \subseteq Uploaded
      /\ \A q \in wrk[n].rows : q \in readable /\ \E p \in wrk[n].want : file[q].name = file[p].name
  BY Types DEF TurnsInv, ConsolidationInv, WorkersReadTheirOwn, WorkerShape
<1>2. \A p \in wrk[n].want : Only(p)
  BY DEF NamedOnce, Only
<1>3. wrk[n].want \cap readable \subseteq wrk[n].rows
  BY <1>1, <1>2 DEF TurnsInv, ReadOrThere
<1>4. wrk[n].rows \subseteq wrk[n].want \cap readable
  BY <1>1 DEF NamedOnce
<1>5. QED
  BY <1>3, <1>4

-----------------------------------------------------------------------------
LEMMA InitOutputs == Init => SeparateOutputs
  BY InitGeneral, InitTurns DEF SeparateOutputs

LEMMA NextOutputs == SeparateOutputs /\ [Next]_allVars => SeparateOutputs'
<1> SUFFICES ASSUME SeparateOutputs, [Next]_allVars PROVE SeparateOutputs'
  OBVIOUS
<1>1. ConsolidationInv'
  BY NextStep DEF SeparateOutputs
<1>2. TakeTurns' = TakeTurns
  BY DEF Next, around, allVars, TakeTurns
<1>3. TakeTurns => TurnsInv'
  BY NextTurns DEF SeparateOutputs
<1>4. QED
  BY <1>1, <1>2, <1>3 DEF SeparateOutputs

(* However the runs of any number of users overlap, fail and are cleaned up   *)
(* after, the workbook in a user's output directory is one that user asked    *)
(* for (worker_consolidation_thread, web_consolidate_run), and when users     *)
(* take turns a reaper takes nothing a worker has yet to read.                *)
THEOREM OutputsKept == Spec => []SeparateOutputs
  BY InitOutputs, NextOutputs, PTL DEF Spec

(* When users take turns, as the page makes a single user do: a run merges    *)
(* exactly the workbooks it was given, if their names are nobody else's,      *)
(* although the purge, reapers and the cache work beside it.                  *)
THEOREM MergesKept == Spec => []MergesWhatWasGiven
<1>1. SeparateOutputs => MergesWhatWasGiven
  BY ReadInFull DEF SeparateOutputs, MergesWhatWasGiven
<1>2. QED
  BY <1>1, OutputsKept, PTL

(* And the flag is down only when the last run's outcome is there to be read. *)
THEOREM OutcomesKept == Spec => []OutcomeWhenDown
<1>1. SeparateOutputs => OutcomeWhenDown
  BY DEF SeparateOutputs, TurnsInv, OutcomeWhenDown
<1>2. QED
  BY <1>1, OutputsKept, PTL

=============================================================================
