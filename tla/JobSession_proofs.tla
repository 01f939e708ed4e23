-------------------------- MODULE JobSession_proofs --------------------------
(***************************************************************************)
(* Proofs about JobSession: its types, one worker per session, and the     *)
(* lifecycle it implements, for any users, workers, banks and batches.     *)
(***************************************************************************)
EXTENDS JobSession, TLAPS

-----------------------------------------------------------------------------
(* Percentages are natural numbers for every worker record.                *)
LEMMA FilePctNat == ASSUME NEW f \in Nat \ {0} PROVE FilePct(f) \in Nat
<1>1. f - 1 \in Nat /\ 100 * Branches \in Nat
  BY SessionAssumption
<1> DEFINE a == 100 * Branches  b == f - 1
<1>2. a \in Nat /\ b \in Nat
  BY <1>1
<1> HIDE DEF a, b
<1>3. a * b \in Nat
  BY <1>2
<1>4. QED
  BY <1>3 DEF a, b, FilePct

LEMMA FullPctNat == FullPct \in Nat
<1>1. 100 * Branches \in Nat
  BY SessionAssumption
<1> DEFINE a == 100 * Branches
<1>2. a \in Nat
  BY <1>1
<1> HIDE DEF a
<1>3. a * Files \in Nat
  BY <1>2, SessionAssumption
<1>4. QED
  BY <1>3 DEF a, FullPct

LEMMA BuildPctNat ==
  ASSUME TypeOK, NEW w \in WorkerType
  PROVE  PctBeforeBuild(w) \in Nat /\ PctAfterBuild(w) \in Nat
<1>1. FilePct(w.file) \in Nat
  BY FilePctNat DEF WorkerType
<1>2. BuildShare(w) \in {90, 100} /\ w.branch \in Nat /\ w.made \in Nat
  BY DEF BuildShare, WorkerType
<1>3. tracker[w.local].pct \in Nat
  BY DEF TypeOK, WorkerType, InfoType
<1>4. w.branch * BuildShare(w) \in Nat /\ (w.made + 1) * BuildShare(w) \in Nat
  BY <1>2
<1>5. 20 * Branches \in Nat /\ 70 * Branches \in Nat /\ 100 * Branches \in Nat
  BY SessionAssumption
<1>6. PctBeforeBuild(w) \in Nat
  BY <1>1, <1>3, <1>4, <1>5 DEF PctBeforeBuild
<1>7. PctAfterBuild(w) \in Nat
  BY <1>1, <1>3, <1>4, <1>5 DEF PctAfterBuild
<1>8. QED
  BY <1>6, <1>7

-----------------------------------------------------------------------------
(* A well-typed record put in the place of a thread, a tracker or a handler  *)
(* keeps the type of the whole.                                              *)
LEMMA BecomeType ==
  ASSUME TypeOK, NEW t \in Threads, NEW w \in WorkerType, Become(t, w)
  PROVE  wrk' \in [Threads -> WorkerType]
BY DEF TypeOK, Become

LEMMA InfoUpdates ==
  /\ \A i \in InfoType, p \in Nat : [i EXCEPT !.pct = p] \in InfoType
  /\ \A i \in InfoType, m \in [run : Nat, outcome : {"none", "success", "failed"}] :
       [i EXCEPT !.summary = m] \in InfoType
  /\ \A i \in InfoType : [i EXCEPT !.running = FALSE] \in InfoType
  /\ \A i \in InfoType : [i EXCEPT !.cancelRequested = TRUE] \in InfoType
<1> DEFINE M == [run : Nat, outcome : {"none", "success", "failed"}]
<1>1. InfoType = [running : BOOLEAN, pct : Nat, cancelRequested : BOOLEAN, summary : M]
  BY DEF InfoType
<1> HIDE DEF M
<1>2. ASSUME NEW i \in InfoType, NEW p \in Nat PROVE [i EXCEPT !.pct = p] \in InfoType
  BY <1>1
<1>3. ASSUME NEW i \in InfoType, NEW m \in M PROVE [i EXCEPT !.summary = m] \in InfoType
  BY <1>1
<1>4. ASSUME NEW i \in InfoType PROVE [i EXCEPT !.running = FALSE] \in InfoType
  BY <1>1
<1>5. ASSUME NEW i \in InfoType PROVE [i EXCEPT !.cancelRequested = TRUE] \in InfoType
  BY <1>1
<1>6. QED
  BY <1>2, <1>3, <1>4, <1>5, Zenon DEF M

LEMMA HereInSessions ==
  ASSUME TypeOK, NEW t \in Threads
  PROVE  /\ wrk[t] \in WorkerType
         /\ Here(t) \in Sessions /\ tracker[Here(t)] \in InfoType
         /\ wrk[t].user \in Sessions /\ wrk[t].run \in Nat
BY DEF TypeOK, Here, WorkerType

LEMMA ShowPctType ==
  ASSUME TypeOK, NEW t \in Threads, NEW p \in Nat, ShowPct(t, p)
  PROVE  tracker' \in [Sessions -> InfoType]
<1>1. [tracker[Here(t)] EXCEPT !.pct = p] \in InfoType
  BY HereInSessions, InfoUpdates, Zenon
<1>2. QED
  BY <1>1 DEF TypeOK, ShowPct

LEMMA SayOutcomeType ==
  ASSUME TypeOK, NEW t \in Threads, NEW o \in {"success", "failed"}, SayOutcome(t, o)
  PROVE  tracker' \in [Sessions -> InfoType]
<1> DEFINE m == [run |-> wrk[t].run, outcome |-> o]
<1>1. m \in [run : Nat, outcome : {"none", "success", "failed"}]
  BY HereInSessions
<1>2. [tracker[Here(t)] EXCEPT !.summary = m] \in InfoType
  BY <1>1, HereInSessions, InfoUpdates, Zenon
<1>3. QED
  BY <1>2 DEF TypeOK, SayOutcome

LEMMA LowerFlagType ==
  ASSUME TypeOK, NEW t \in Threads, LowerFlag(t)
  PROVE  tracker' \in [Sessions -> InfoType]
<1>1. [tracker[Here(t)] EXCEPT !.running = FALSE] \in InfoType
  BY HereInSessions, InfoUpdates, Zenon
<1>2. QED
  BY <1>1 DEF TypeOK, LowerFlag

LEMMA ConstantRecords ==
  /\ Fresh \in InfoType
  /\ Idle \in InfoType
  /\ NoHandler \in HandlerType
  /\ NoWorker \in WorkerType
<1>1. NoSummary \in [run : Nat, outcome : {"none", "success", "failed"}]
  BY DEF NoSummary
<1>2. Fresh \in InfoType /\ Idle \in InfoType
  BY <1>1 DEF Fresh, Idle, InfoType
<1>3. NoHandler \in HandlerType
  BY DEF NoHandler, HandlerType, Sessions
<1>4. NoWorker \in WorkerType
  BY DEF NoWorker, WorkerType, WorkerPcs, BankKinds, Sessions
<1>5. QED
  BY <1>2, <1>3, <1>4

LEMMA TypeInit == Init => TypeOK
BY ConstantRecords DEF Init, TypeOK

-----------------------------------------------------------------------------
LEMMA TypeHandler ==
  ASSUME TypeOK, NEW h \in Handlers, Handler(h)
  PROVE  TypeOK'
<1>1. Desktop \in Sessions /\ Requesters \subseteq Sessions
  BY DEF Sessions, Requesters
<1>2. hnd[h] \in HandlerType /\ hnd[h].user \in Sessions
  BY DEF TypeOK, HandlerType
<1>3. \A q \in {"clear", "mark"}, s \in Sessions : [pc |-> q, user |-> s] \in HandlerType
  BY DEF HandlerType
<1>4. \A q \in {"reset", "spawn"} : [hnd[h] EXCEPT !.pc = q] \in HandlerType
  BY <1>2 DEF HandlerType
<1>5. ASSUME NEW s \in Requesters, RunRequest(h, s) PROVE TypeOK'
  BY <1>1, <1>3, <1>5 DEF RunRequest, TypeOK
<1>6. ASSUME NEW s \in Requesters, CancelSet(h, s) PROVE TypeOK'
  <2>1. \A t \in Threads : [wrk[t] EXCEPT !.asked = TRUE] \in WorkerType
    BY DEF TypeOK, WorkerType
  <2>2. QED
    BY <1>1, <1>3, <1>6, <2>1 DEF CancelSet, TypeOK
<1>7. CASE RunClear(h)
  BY <1>2, <1>4, <1>7 DEF RunClear, TypeOK
<1>8. CASE RunReset(h)
  BY <1>2, <1>4, <1>8, ConstantRecords DEF RunReset, TypeOK
<1>9. ASSUME NEW t \in Threads, RunSpawn(h, t) PROVE TypeOK'
  <2>1. PICK b \in Banks, z \in BOOLEAN :
          Become(t, [NoWorker EXCEPT !.pc = "bind", !.user = hnd[h].user, !.bank = b,
                                     !.zip = z, !.run = runs[hnd[h].user]])
    BY <1>9 DEF RunSpawn
  <2>2. b \in BankKinds /\ runs[hnd[h].user] \in Nat
    BY <1>2, SessionAssumption DEF TypeOK
  <2>3. [NoWorker EXCEPT !.pc = "bind", !.user = hnd[h].user, !.bank = b,
                         !.zip = z, !.run = runs[hnd[h].user]] \in WorkerType
    BY <1>2, <2>2, ConstantRecords DEF WorkerType, WorkerPcs
  <2>4. wrk' \in [Threads -> WorkerType]
    BY <2>1, <2>3, BecomeType
  <2>5. QED
    BY <1>9, <2>4, ConstantRecords DEF RunSpawn, TypeOK
<1>10. CASE RunRaise(h)
  BY <1>2, <1>10, ConstantRecords DEF RunRaise, TypeOK
<1>11. CASE CancelMark(h)
  <2>1. [tracker[hnd[h].user] EXCEPT !.cancelRequested = TRUE] \in InfoType
    <3>1. tracker[hnd[h].user] \in InfoType
      BY <1>2 DEF TypeOK
    <3>2. QED
      BY <3>1, InfoUpdates, Zenon
  <2>2. QED
    BY <1>2, <1>11, <2>1, ConstantRecords DEF CancelMark, TypeOK
<1>12. QED
  BY <1>5, <1>6, <1>7, <1>8, <1>9, <1>10, <1>11 DEF Handler

(* The record a worker step leaves in its thread's place. *)
LEMMA WorkerRecord ==
  ASSUME TypeOK, NEW t \in Threads, NEW q \in WorkerPcs, NEW b \in BOOLEAN, NEW n \in Nat
  PROVE  /\ [wrk[t] EXCEPT !.pc = q] \in WorkerType
         /\ [wrk[t] EXCEPT !.pc = q, !.local = wrk[t].user] \in WorkerType
         /\ [wrk[t] EXCEPT !.pc = q, !.branch = 1, !.made = 0] \in WorkerType
         /\ [wrk[t] EXCEPT !.pc = q, !.stopped = b] \in WorkerType
         /\ [wrk[t] EXCEPT !.pc = q, !.branch = wrk[t].branch + 1] \in WorkerType
         /\ [wrk[t] EXCEPT !.pc = q, !.branch = wrk[t].branch + 1, !.made = @ + 1, !.late = n] \in WorkerType
         /\ [wrk[t] EXCEPT !.pc = q, !.file = wrk[t].file + 1] \in WorkerType
<1> DEFINE w == wrk[t]
<1>1. w \in WorkerType
  BY DEF TypeOK
<1>2. w.file + 1 \in Nat \ {0} /\ w.branch + 1 \in Nat /\ w.made + 1 \in Nat /\ w.user \in Sessions
  BY <1>1 DEF WorkerType
<1> HIDE DEF w
<1> USE DEF WorkerType
<1>3. [w EXCEPT !.pc = q] \in WorkerType
  BY <1>1
<1>4. [w EXCEPT !.pc = q, !.local = w.user] \in WorkerType
  BY <1>1, <1>2
<1>5. [w EXCEPT !.pc = q, !.branch = 1, !.made = 0] \in WorkerType
  BY <1>1
<1>6. [w EXCEPT !.pc = q, !.stopped = b] \in WorkerType
  BY <1>1
<1>7. [w EXCEPT !.pc = q, !.branch = w.branch + 1] \in WorkerType
  BY <1>1, <1>2
<1>8. [w EXCEPT !.pc = q, !.branch = w.branch + 1, !.made = @ + 1, !.late = n] \in WorkerType
  BY <1>1, <1>2
<1>9. [w EXCEPT !.pc = q, !.file = w.file + 1] \in WorkerType
  BY <1>1, <1>2
<1>10. QED
  BY <1>3, <1>4, <1>5, <1>6, <1>7, <1>8, <1>9 DEF w

LEMMA TypeWorker ==
  ASSUME TypeOK, NEW t \in Threads, Worker(t)
  PROVE  TypeOK'
<1> DEFINE w == wrk[t]
<1>1. w \in WorkerType /\ Here(t) \in Sessions /\ w.user \in Sessions /\ w.run \in Nat
  BY HereInSessions
<1>2. FilePct(w.file) \in Nat /\ PctBeforeBuild(w) \in Nat /\ PctAfterBuild(w) \in Nat
  <2>1. w.file \in Nat \ {0}
    BY <1>1 DEF WorkerType
  <2>2. QED
    BY <1>1, <2>1, FilePctNat, BuildPctNat
<1>3. WorkerPcs = {"idle", "bind", "file", "branch", "build", "pack", "record",
                   "complete", "summary", "except", "finally"}
  BY DEF WorkerPcs
<1>4. ASSUME wrk' \in [Threads -> WorkerType], tracker' \in [Sessions -> InfoType],
             UNCHANGED <<cancel, hnd, runs, history, lost>>
      PROVE  TypeOK'
  BY <1>4 DEF TypeOK
<1>5. ASSUME wrk' \in [Threads -> WorkerType], UNCHANGED <<tracker, cancel, hnd, runs, history, lost>>
      PROVE  TypeOK'
  BY <1>5 DEF TypeOK
<1>6. CASE Bind(t)
  BY <1>3, <1>5, <1>6, WorkerRecord, BecomeType DEF Bind
<1>7. CASE FileStart(t)
  <2>1. wrk' \in [Threads -> WorkerType]
    BY <1>3, <1>7, WorkerRecord, BecomeType DEF FileStart
  <2>2. QED
    BY <1>2, <1>4, <1>7, <2>1, ShowPctType DEF FileStart
<1>8. CASE FileStop(t)
  <2>1. (w.stopped \/ w.file <= Files) \in BOOLEAN
    OBVIOUS
  <2>2. wrk' \in [Threads -> WorkerType]
    BY <1>3, <1>8, <2>1, WorkerRecord, BecomeType DEF FileStop
  <2>3. QED
    BY <1>5, <1>8, <2>2 DEF FileStop
<1>9. CASE BranchStart(t)
  <2>1. wrk' \in [Threads -> WorkerType]
    BY <1>3, <1>9, WorkerRecord, BecomeType DEF BranchStart
  <2>2. QED
    BY <1>2, <1>4, <1>9, <2>1, ShowPctType DEF BranchStart
<1>10. CASE BranchStop(t)
  <2>1. (w.stopped \/ w.branch <= Steps(w.bank)) \in BOOLEAN
    OBVIOUS
  <2>2. wrk' \in [Threads -> WorkerType]
    BY <1>3, <1>10, <2>1, WorkerRecord, BecomeType DEF BranchStop
  <2>3. QED
    BY <1>5, <1>10, <2>2 DEF BranchStop
<1>11. CASE Build(t)
  <2>1. (IF w.asked THEN w.late + 1 ELSE w.late) \in Nat
    BY <1>1 DEF WorkerType
  <2>2. wrk' \in [Threads -> WorkerType]
    BY <1>3, <1>11, <2>1, WorkerRecord, BecomeType DEF Build
  <2>3. QED
    BY <1>2, <1>4, <1>11, <2>2, ShowPctType DEF Build
<1>12. CASE Skip(t)
  BY <1>3, <1>5, <1>12, WorkerRecord, BecomeType DEF Skip
<1>13. CASE Pack(t)
  <2>1. \A p \in {92, 96} : FilePct(w.file) + p * Branches \in Nat
    BY <1>2, SessionAssumption
  <2>2. tracker' \in [Sessions -> InfoType]
    BY <1>13, <2>1, ShowPctType DEF Pack, TypeOK
  <2>3. wrk' \in [Threads -> WorkerType]
    BY <1>3, <1>13, WorkerRecord, BecomeType DEF Pack
  <2>4. QED
    BY <1>4, <1>13, <2>2, <2>3 DEF Pack
<1>14. CASE Record(t)
  <2>1. wrk' \in [Threads -> WorkerType]
    BY <1>3, <1>14, WorkerRecord, BecomeType DEF Record
  <2>2. QED
    BY <1>1, <1>14, <2>1 DEF Record, TypeOK
<1>15. CASE Complete(t)
  <2>1. wrk' \in [Threads -> WorkerType]
    BY <1>3, <1>15, WorkerRecord, BecomeType DEF Complete
  <2>2. QED
    BY <1>4, <1>15, <2>1, FullPctNat, ShowPctType DEF Complete
<1>16. CASE Summarise(t)
  <2>1. wrk' \in [Threads -> WorkerType]
    BY <1>3, <1>16, WorkerRecord, BecomeType DEF Summarise
  <2>2. QED
    BY <1>4, <1>16, <2>1, SayOutcomeType DEF Summarise
<1>17. CASE Raise(t)
  BY <1>3, <1>5, <1>17, WorkerRecord, BecomeType DEF Raise
<1>18. CASE Except(t)
  <2>1. wrk' \in [Threads -> WorkerType]
    BY <1>3, <1>18, WorkerRecord, BecomeType DEF Except
  <2>2. QED
    BY <1>4, <1>18, <2>1, SayOutcomeType DEF Except
<1>19. CASE Finally(t)
  <2>1. wrk' \in [Threads -> WorkerType]
    BY <1>19, ConstantRecords, BecomeType DEF Finally
  <2>2. QED
    BY <1>4, <1>19, <2>1, LowerFlagType DEF Finally
<1>20. QED
  BY <1>6, <1>7, <1>8, <1>9, <1>10, <1>11, <1>12, <1>13, <1>14, <1>15, <1>16, <1>17,
     <1>18, <1>19 DEF Worker

(* Every variable of the bank-job model keeps its type, in web and desktop   *)
(* mode and for any number of handler threads.                               *)
THEOREM TypeCorrect == Spec => []TypeOK
<1>1. Init => TypeOK
  BY TypeInit
<1>2. TypeOK /\ [Next]_vars => TypeOK'
  <2> SUFFICES ASSUME TypeOK, [Next]_vars PROVE TypeOK'
    OBVIOUS
  <2>1. ASSUME NEW h \in Handlers, Handler(h) PROVE TypeOK'
    BY <2>1, TypeHandler
  <2>2. ASSUME NEW t \in Threads, Worker(t) PROVE TypeOK'
    BY <2>2, TypeWorker
  <2>3. CASE UNCHANGED vars
    BY <2>3 DEF TypeOK, vars
  <2>4. QED
    BY <2>1, <2>2, <2>3 DEF Next
<1>3. QED
  BY <1>1, <1>2, PTL DEF Spec

-----------------------------------------------------------------------------
(***************************************************************************)
(* What one worker step does to the parts of the state SessionInv is       *)
(* about: the flag and the summary of its session, and its own place.      *)
(***************************************************************************)
Middle(t) ==
  \/ Bind(t) \/ FileStart(t) \/ FileStop(t) \/ BranchStart(t) \/ BranchStop(t)
  \/ Build(t) \/ Skip(t) \/ Pack(t) \/ Record(t) \/ Complete(t) \/ Raise(t)

LEMMA ShowPctKeeps ==
  ASSUME TypeOK, NEW t \in Threads, NEW p \in Nat, ShowPct(t, p)
  PROVE  \A s \in Sessions : /\ tracker'[s].running = tracker[s].running
                             /\ tracker'[s].summary = tracker[s].summary
<1> SUFFICES ASSUME NEW s \in Sessions
             PROVE  /\ tracker'[s].running = tracker[s].running
                    /\ tracker'[s].summary = tracker[s].summary
  OBVIOUS
<1>1. tracker[s] \in InfoType /\ DOMAIN tracker = Sessions
  BY DEF TypeOK
<1>2. tracker'[s] = IF s = Here(t) THEN [tracker[s] EXCEPT !.pct = p] ELSE tracker[s]
  BY <1>1 DEF ShowPct
<1>3. QED
  BY <1>1, <1>2 DEF InfoType

LEMMA BecomeOnly ==
  ASSUME TypeOK, NEW t \in Threads, NEW w, Become(t, w)
  PROVE  wrk'[t] = w /\ \A u \in Threads \ {t} : wrk'[u] = wrk[u]
BY DEF TypeOK, Become

(* A worker's new record keeps the run it works for. *)
SameRun(v, w, q) == v.pc = q /\ v.user = w.user /\ v.run = w.run /\ v.local = w.local

LEMMA RecordFields ==
  \A w \in WorkerType : \A q, b, n :
    /\ SameRun([w EXCEPT !.pc = q], w, q)
    /\ SameRun([w EXCEPT !.pc = q, !.branch = 1, !.made = 0], w, q)
    /\ SameRun([w EXCEPT !.pc = q, !.stopped = b], w, q)
    /\ SameRun([w EXCEPT !.pc = q, !.branch = w.branch + 1], w, q)
    /\ SameRun([w EXCEPT !.pc = q, !.branch = w.branch + 1, !.made = @ + 1, !.late = n], w, q)
    /\ SameRun([w EXCEPT !.pc = q, !.file = w.file + 1], w, q)
    /\ LET v == [w EXCEPT !.pc = q, !.local = w.user] IN
         v.pc = q /\ v.user = w.user /\ v.run = w.run /\ v.local = w.user
BY DEF WorkerType, SameRun

LEMMA StepPlaces ==
  ASSUME TypeOK, NEW t \in Threads, NEW v, NEW q \in WorkerPcs \ {"idle", "bind", "finally"},
         Become(t, v), SameRun(v, wrk[t], q), wrk[t].pc \notin {"idle", "bind", "finally"},
         hnd' = hnd, runs' = runs
  PROVE  /\ hnd' = hnd /\ runs' = runs
         /\ \A u \in Threads \ {t} : wrk'[u] = wrk[u]
         /\ wrk[t].pc \notin {"idle", "finally"} /\ wrk'[t].pc \notin {"idle", "bind", "finally"}
         /\ wrk'[t].user = wrk[t].user /\ wrk'[t].run = wrk[t].run
         /\ wrk'[t].local = IF wrk[t].pc = "bind" THEN wrk[t].user ELSE wrk[t].local
BY BecomeOnly DEF SameRun

LEMMA MiddleStep ==
  ASSUME TypeOK, NEW t \in Threads, Middle(t)
  PROVE  /\ hnd' = hnd /\ runs' = runs
         /\ \A u \in Threads \ {t} : wrk'[u] = wrk[u]
         /\ wrk[t].pc \notin {"idle", "finally"} /\ wrk'[t].pc \notin {"idle", "bind", "finally"}
         /\ wrk'[t].user = wrk[t].user /\ wrk'[t].run = wrk[t].run
         /\ wrk'[t].local = IF wrk[t].pc = "bind" THEN wrk[t].user ELSE wrk[t].local
         /\ \A s \in Sessions : /\ tracker'[s].running = tracker[s].running
                                /\ tracker'[s].summary = tracker[s].summary
<1> DEFINE w == wrk[t]
           Placed == /\ hnd' = hnd /\ runs' = runs
                     /\ \A u \in Threads \ {t} : wrk'[u] = wrk[u]
                     /\ wrk[t].pc \notin {"idle", "finally"} /\ wrk'[t].pc \notin {"idle", "bind", "finally"}
                     /\ wrk'[t].user = wrk[t].user /\ wrk'[t].run = wrk[t].run
                     /\ wrk'[t].local = IF wrk[t].pc = "bind" THEN wrk[t].user ELSE wrk[t].local
           Shown == \A s \in Sessions : /\ tracker'[s].running = tracker[s].running
                                        /\ tracker'[s].summary = tracker[s].summary
<1>1. w \in WorkerType
  BY HereInSessions
<1>2. FilePct(w.file) \in Nat /\ PctBeforeBuild(w) \in Nat /\ PctAfterBuild(w) \in Nat
  <2>1. w.file \in Nat \ {0}
    BY <1>1 DEF WorkerType
  <2>2. QED
    BY <1>1, <2>1, FilePctNat, BuildPctNat
<1>3. UNCHANGED tracker => Shown
  OBVIOUS
<1>4. \A p \in Nat : ShowPct(t, p) => Shown
  BY ShowPctKeeps
<1>5. CASE Bind(t)
  <2>1. Placed
    <3> DEFINE v == [w EXCEPT !.pc = "file", !.local = w.user]
    <3>1. v.pc = "file" /\ v.user = w.user /\ v.run = w.run /\ v.local = w.user
      BY <1>1 DEF WorkerType
    <3>2. Become(t, v) /\ w.pc = "bind" /\ hnd' = hnd /\ runs' = runs
      BY <1>5 DEF Bind
    <3> HIDE DEF v
    <3>3. wrk'[t] = v /\ \A u \in Threads \ {t} : wrk'[u] = wrk[u]
      BY <3>2, BecomeOnly
    <3>4. QED
      BY <3>1, <3>2, <3>3
  <2>2. QED
    BY <1>3, <1>5, <2>1 DEF Bind
<1>6. CASE FileStart(t)
  <2>1. Placed
    BY <1>1, <1>6, RecordFields, StepPlaces, ZenonT(60) DEF FileStart, WorkerPcs
  <2>2. QED
    BY <1>2, <1>4, <1>6, <2>1 DEF FileStart
<1>7. CASE FileStop(t)
  <2>1. Placed
    BY <1>1, <1>7, RecordFields, StepPlaces, ZenonT(60) DEF FileStop, WorkerPcs
  <2>2. QED
    BY <1>3, <1>7, <2>1 DEF FileStop
<1>8. CASE BranchStart(t)
  <2>1. Placed
    BY <1>1, <1>8, RecordFields, StepPlaces, ZenonT(60) DEF BranchStart, WorkerPcs
  <2>2. QED
    BY <1>2, <1>4, <1>8, <2>1 DEF BranchStart
<1>9. CASE BranchStop(t)
  <2>1. Placed
    BY <1>1, <1>9, RecordFields, StepPlaces, ZenonT(60) DEF BranchStop, WorkerPcs
  <2>2. QED
    BY <1>3, <1>9, <2>1 DEF BranchStop
<1>10. CASE Build(t)
  <2>1. Placed
    BY <1>1, <1>10, RecordFields, StepPlaces, ZenonT(60) DEF Build, WorkerPcs
  <2>2. QED
    BY <1>2, <1>4, <1>10, <2>1 DEF Build
<1>11. CASE Skip(t)
  <2>1. Placed
    BY <1>1, <1>11, RecordFields, StepPlaces DEF Skip, WorkerPcs
  <2>2. QED
    BY <1>3, <1>11, <2>1 DEF Skip
<1>12. CASE Pack(t)
  <2>1. Placed
    BY <1>1, <1>12, RecordFields, StepPlaces DEF Pack, WorkerPcs
  <2>2. \A p \in {92, 96} : FilePct(w.file) + p * Branches \in Nat
    BY <1>2, SessionAssumption
  <2>3. Shown
    BY <1>3, <1>4, <1>12, <2>2 DEF Pack
  <2>4. QED
    BY <2>1, <2>3
<1>13. CASE Record(t)
  <2>1. Placed
    BY <1>1, <1>13, RecordFields, StepPlaces DEF Record, WorkerPcs
  <2>2. QED
    BY <1>3, <1>13, <2>1 DEF Record
<1>14. CASE Complete(t)
  <2>1. Placed
    BY <1>1, <1>14, RecordFields, StepPlaces DEF Complete, WorkerPcs
  <2>2. QED
    BY <1>4, <1>14, <2>1, FullPctNat DEF Complete
<1>15. CASE Raise(t)
  <2>1. Placed
    BY <1>1, <1>15, RecordFields, StepPlaces DEF Raise, WorkerPcs
  <2>2. QED
    BY <1>3, <1>15, <2>1 DEF Raise
<1>16. QED
  BY <1>5, <1>6, <1>7, <1>8, <1>9, <1>10, <1>11, <1>12, <1>13, <1>14, <1>15 DEF Middle

(* Summarise and Except: the outcome goes to the session the thread is bound to. *)
LEMMA OutcomeStep ==
  ASSUME TypeOK, NEW t \in Threads, Summarise(t) \/ Except(t)
  PROVE  /\ hnd' = hnd /\ runs' = runs
         /\ \A u \in Threads \ {t} : wrk'[u] = wrk[u]
         /\ wrk[t].pc \notin {"idle", "bind", "finally"} /\ wrk'[t].pc = "finally"
         /\ wrk'[t].user = wrk[t].user /\ wrk'[t].run = wrk[t].run /\ wrk'[t].local = wrk[t].local
         /\ \A s \in Sessions : tracker'[s].running = tracker[s].running
         /\ \A s \in Sessions \ {Here(t)} : tracker'[s] = tracker[s]
         /\ tracker'[Here(t)].summary.run = wrk[t].run
         /\ tracker'[Here(t)].summary.outcome \in {"success", "failed"}
<1>1. wrk[t] \in WorkerType /\ Here(t) \in Sessions /\ DOMAIN tracker = Sessions
  BY HereInSessions DEF TypeOK
<1>2. Become(t, [wrk[t] EXCEPT !.pc = "finally"]) /\ hnd' = hnd /\ runs' = runs
      /\ wrk[t].pc \in {"summary", "except"}
  BY DEF Summarise, Except
<1>3. PICK o \in {"success", "failed"} : SayOutcome(t, o)
  BY DEF Summarise, Except
<1> DEFINE m == [run |-> wrk[t].run, outcome |-> o]
<1>4. tracker' = [tracker EXCEPT ![Here(t)] = [tracker[Here(t)] EXCEPT !.summary = m]]
  BY <1>3 DEF SayOutcome
<1>5. m.run = wrk[t].run /\ m.outcome = o
  OBVIOUS
<1> HIDE DEF m
<1>6. tracker'[Here(t)] = [tracker[Here(t)] EXCEPT !.summary = m]
      /\ \A s \in Sessions \ {Here(t)} : tracker'[s] = tracker[s]
  BY <1>1, <1>4
<1>7. tracker'[Here(t)].summary = m /\ tracker'[Here(t)].running = tracker[Here(t)].running
  BY <1>6, HereInSessions DEF InfoType
<1>8. wrk'[t] = [wrk[t] EXCEPT !.pc = "finally"] /\ \A u \in Threads \ {t} : wrk'[u] = wrk[u]
  BY <1>2, BecomeOnly
<1>9. wrk'[t].pc = "finally" /\ wrk'[t].user = wrk[t].user /\ wrk'[t].run = wrk[t].run
      /\ wrk'[t].local = wrk[t].local
  BY <1>1, <1>8 DEF WorkerType
<1>10. QED
  BY <1>2, <1>5, <1>6, <1>7, <1>8, <1>9

LEMMA FinallyStep ==
  ASSUME TypeOK, NEW t \in Threads, Finally(t)
  PROVE  /\ hnd' = hnd /\ runs' = runs
         /\ \A u \in Threads \ {t} : wrk'[u] = wrk[u]
         /\ wrk[t].pc = "finally" /\ wrk'[t] = NoWorker
         /\ \A s \in Sessions \ {Here(t)} : tracker'[s] = tracker[s]
         /\ tracker'[Here(t)].running = FALSE
         /\ tracker'[Here(t)].summary = tracker[Here(t)].summary
<1>1. tracker'[Here(t)] = [tracker[Here(t)] EXCEPT !.running = FALSE]
      /\ \A s \in Sessions \ {Here(t)} : tracker'[s] = tracker[s]
  BY HereInSessions DEF Finally, LowerFlag, TypeOK
<1>2. tracker'[Here(t)].running = FALSE /\ tracker'[Here(t)].summary = tracker[Here(t)].summary
  BY <1>1, HereInSessions DEF InfoType
<1>3. QED
  BY <1>1, <1>2, BecomeOnly DEF Finally

LEMMA CancelMarkKeeps ==
  ASSUME TypeOK, NEW h \in Handlers, CancelMark(h)
  PROVE  \A s \in Sessions : /\ tracker'[s].running = tracker[s].running
                             /\ tracker'[s].summary = tracker[s].summary
<1> SUFFICES ASSUME NEW s \in Sessions
             PROVE  /\ tracker'[s].running = tracker[s].running
                    /\ tracker'[s].summary = tracker[s].summary
  OBVIOUS
<1>1. tracker[s] \in InfoType /\ DOMAIN tracker = Sessions
  BY DEF TypeOK
<1>2. tracker'[s] = IF s = hnd[h].user THEN [tracker[s] EXCEPT !.cancelRequested = TRUE]
                                       ELSE tracker[s]
  BY <1>1 DEF CancelMark
<1>3. QED
  BY <1>1, <1>2 DEF InfoType

-----------------------------------------------------------------------------
(***************************************************************************)
(* The invariant, action by action.                                        *)
(***************************************************************************)
LEMMA InvInit == Init => SessionInv
<1> SUFFICES ASSUME Init PROVE SessionInv
  OBVIOUS
<1>1. \A t \in Threads : ~Alive(t) /\ wrk[t].local = wrk[t].user
  BY DEF Init, Alive, NoWorker
<1>2. \A h \in Handlers : hnd[h].pc = "idle"
  BY DEF Init, NoHandler
<1>3. \A s \in Sessions : tracker[s].summary.run = 0 /\ runs[s] = 0
  BY DEF Init, Idle, Fresh, NoSummary
<1>4. QED
  BY <1>1, <1>2, <1>3, TypeInit DEF SessionInv, OneWorkerPerSession, EndedRunsAreSummarised,
     WorkersAreBound, WorkersOwnTheirSession, HandlersOwnTheirSession

LEMMA InvMiddle ==
  ASSUME SessionInv, NEW t \in Threads, Middle(t), TypeOK'
  PROVE  SessionInv'
<1> USE DEF SessionInv, Alive
<1>1. TypeOK /\ wrk[t].user \in Sessions /\ \A u \in Threads : wrk[u].user \in Sessions
  BY HereInSessions
<1>2. \A h \in Handlers : hnd[h].user \in Sessions
  BY DEF TypeOK, HandlerType
<1>3. OneWorkerPerSession'
  BY <1>1, MiddleStep DEF OneWorkerPerSession
<1>4. EndedRunsAreSummarised'
  BY <1>1, MiddleStep DEF EndedRunsAreSummarised
<1>5. WorkersAreBound'
  BY <1>1, MiddleStep DEF WorkersAreBound
<1>6. WorkersOwnTheirSession'
  BY <1>1, MiddleStep DEF WorkersOwnTheirSession
<1>7. HandlersOwnTheirSession'
  BY <1>1, <1>2, MiddleStep DEF HandlersOwnTheirSession, InFlight
<1>8. QED
  BY <1>3, <1>4, <1>5, <1>6, <1>7

LEMMA InvOutcome ==
  ASSUME SessionInv, NEW t \in Threads, Summarise(t) \/ Except(t), TypeOK'
  PROVE  SessionInv'
<1> USE DEF SessionInv, Alive
<1>1. TypeOK /\ \A u \in Threads : wrk[u].user \in Sessions
  BY HereInSessions
<1>2. \A h \in Handlers : hnd[h].user \in Sessions
  BY DEF TypeOK, HandlerType
<1>3. Here(t) = wrk[t].user /\ tracker[Here(t)].running /\ runs[Here(t)] = wrk[t].run
  BY OutcomeStep, <1>1 DEF WorkersAreBound, WorkersOwnTheirSession, Here
<1>4. \A u \in Threads \ {t} : wrk[u].pc # "idle" => wrk[u].user # Here(t)
  BY <1>1, <1>3, OutcomeStep DEF OneWorkerPerSession
<1>5. OneWorkerPerSession'
  BY <1>1, OutcomeStep DEF OneWorkerPerSession
<1>6. EndedRunsAreSummarised'
  BY <1>1, <1>3, OutcomeStep DEF EndedRunsAreSummarised
<1>7. WorkersAreBound'
  BY <1>1, OutcomeStep DEF WorkersAreBound
<1>8. WorkersOwnTheirSession'
  BY <1>1, <1>3, <1>4, OutcomeStep DEF WorkersOwnTheirSession
<1>9. HandlersOwnTheirSession'
  BY <1>1, <1>2, <1>3, OutcomeStep DEF HandlersOwnTheirSession, InFlight
<1>10. QED
  BY <1>5, <1>6, <1>7, <1>8, <1>9

LEMMA InvFinally ==
  ASSUME SessionInv, NEW t \in Threads, Finally(t), TypeOK'
  PROVE  SessionInv'
<1> USE DEF SessionInv, Alive
<1>1. TypeOK /\ \A u \in Threads : wrk[u].user \in Sessions
  BY HereInSessions
<1>2. \A h \in Handlers : hnd[h].user \in Sessions
  BY DEF TypeOK, HandlerType
<1>3. /\ hnd' = hnd /\ runs' = runs
      /\ \A u \in Threads \ {t} : wrk'[u] = wrk[u]
      /\ wrk[t].pc = "finally" /\ wrk'[t] = NoWorker
      /\ \A s \in Sessions \ {Here(t)} : tracker'[s] = tracker[s]
      /\ tracker'[Here(t)].running = FALSE
      /\ tracker'[Here(t)].summary = tracker[Here(t)].summary
  BY <1>1, FinallyStep
<1>4. /\ Here(t) = wrk[t].user /\ Here(t) \in Sessions /\ tracker[Here(t)].running
      /\ tracker[Here(t)].summary.run = runs[Here(t)]
  BY <1>1, <1>3 DEF WorkersAreBound, WorkersOwnTheirSession, Here
<1>5. \A u \in Threads \ {t} : wrk[u].pc # "idle" => wrk[u].user # Here(t)
  BY <1>3, <1>4 DEF OneWorkerPerSession
<1>6. NoWorker.pc = "idle" /\ NoWorker.local = NoWorker.user
  BY DEF NoWorker
<1>7. wrk'[t].pc = "idle" /\ wrk'[t].local = wrk'[t].user
  BY <1>3, <1>6
<1>8. OneWorkerPerSession'
  BY <1>3, <1>7 DEF OneWorkerPerSession
<1>9. EndedRunsAreSummarised'
  BY <1>3, <1>4 DEF EndedRunsAreSummarised
<1>10. WorkersAreBound'
  BY <1>3, <1>7 DEF WorkersAreBound
<1>11. WorkersOwnTheirSession'
  BY <1>1, <1>3, <1>5, <1>7 DEF WorkersOwnTheirSession
<1>12. HandlersOwnTheirSession'
  <2>1. InFlight(Here(t))
    BY <1>3, <1>4 DEF InFlight
  <2>2. \A h \in Handlers : hnd[h].pc = "spawn" => hnd[h].user # Here(t)
    BY <2>1 DEF HandlersOwnTheirSession
  <2>3. \A s \in Sessions : ~InFlight(s) => ~InFlight(s)'
    BY <1>3, <1>7 DEF InFlight
  <2>4. QED
    BY <1>2, <1>3, <1>4, <2>2, <2>3 DEF HandlersOwnTheirSession
<1>13. QED
  BY <1>8, <1>9, <1>10, <1>11, <1>12

(* When one thread serves the requests, no other handler is inside a start. *)
LEMMA InvHandler ==
  ASSUME SessionInv, Serial, NEW h \in Handlers, Handler(h), TypeOK'
  PROVE  SessionInv'
<1> USE DEF SessionInv, Alive
<1>1. TypeOK /\ \A u \in Threads : wrk[u] \in WorkerType /\ wrk[u].user \in Sessions
  BY HereInSessions
<1>2. hnd[h].user \in Sessions /\ \A k \in Handlers : k = h
  BY DEF TypeOK, HandlerType, Serial
<1>3. Requesters \subseteq Sessions /\ DOMAIN hnd = Handlers /\ DOMAIN tracker = Sessions
      /\ DOMAIN runs = Sessions
  BY DEF Requesters, Sessions, TypeOK
<1>4. \A s \in Sessions : tracker[s] \in InfoType
  BY DEF TypeOK
<1>5. ASSUME NEW s \in Requesters, RunRequest(h, s) PROVE SessionInv'
  <2>1. hnd'[h].pc = "clear" /\ hnd'[h].user = s /\ ~tracker[s].running /\ UNCHANGED <<tracker, wrk, runs>>
    BY <1>3, <1>5 DEF RunRequest
  <2>2. HandlersOwnTheirSession'
    BY <1>2, <2>1 DEF HandlersOwnTheirSession, InFlight
  <2>3. OneWorkerPerSession' /\ EndedRunsAreSummarised' /\ WorkersAreBound' /\ WorkersOwnTheirSession'
    BY <2>1 DEF OneWorkerPerSession, EndedRunsAreSummarised, WorkersAreBound, WorkersOwnTheirSession
  <2>4. QED
    BY <2>2, <2>3
<1>6. ASSUME NEW s \in Requesters, CancelSet(h, s) PROVE SessionInv'
  <2>1. hnd'[h].pc = "mark" /\ UNCHANGED <<tracker, runs>>
    BY <1>3, <1>6 DEF CancelSet
  <2>2. \A t \in Threads : /\ wrk'[t].pc = wrk[t].pc /\ wrk'[t].user = wrk[t].user
                           /\ wrk'[t].local = wrk[t].local /\ wrk'[t].run = wrk[t].run
    BY <1>1, <1>6 DEF CancelSet, WorkerType
  <2>3. HandlersOwnTheirSession'
    BY <1>2, <2>1 DEF HandlersOwnTheirSession
  <2>4. OneWorkerPerSession' /\ EndedRunsAreSummarised' /\ WorkersAreBound' /\ WorkersOwnTheirSession'
    BY <2>1, <2>2 DEF OneWorkerPerSession, EndedRunsAreSummarised, WorkersAreBound, WorkersOwnTheirSession
  <2>5. QED
    BY <2>3, <2>4
<1>7. CASE RunClear(h)
  <2>1. /\ hnd[h].pc = "clear" /\ hnd'[h].pc = "reset" /\ hnd'[h].user = hnd[h].user
        /\ UNCHANGED <<tracker, wrk, runs>>
    BY <1>3, <1>7 DEF RunClear, TypeOK, HandlerType
  <2>2. HandlersOwnTheirSession'
    BY <1>2, <2>1 DEF HandlersOwnTheirSession, InFlight
  <2>3. OneWorkerPerSession' /\ EndedRunsAreSummarised' /\ WorkersAreBound' /\ WorkersOwnTheirSession'
    BY <2>1 DEF OneWorkerPerSession, EndedRunsAreSummarised, WorkersAreBound, WorkersOwnTheirSession
  <2>4. QED
    BY <2>2, <2>3
<1>8. CASE RunReset(h)
  <2> DEFINE s == hnd[h].user
  <2>1. /\ hnd[h].pc = "reset" /\ hnd'[h].pc = "spawn" /\ hnd'[h].user = s
        /\ tracker'[s] = Fresh /\ runs'[s] = runs[s] + 1 /\ wrk' = wrk
        /\ \A q \in Sessions \ {s} : tracker'[q] = tracker[q] /\ runs'[q] = runs[q]
    BY <1>2, <1>3, <1>8 DEF RunReset, TypeOK, HandlerType
  <2>2. Fresh.running /\ Fresh.summary = NoSummary
    BY DEF Fresh
  <2>3. ~tracker[s].running /\ \A t \in Threads : wrk[t].pc # "idle" => wrk[t].user # s
    BY <1>1, <1>2, <2>1 DEF HandlersOwnTheirSession, WorkersOwnTheirSession
  <2>4. HandlersOwnTheirSession'
    BY <1>2, <2>1, <2>2, <2>3 DEF HandlersOwnTheirSession, InFlight
  <2>5. OneWorkerPerSession' /\ WorkersAreBound'
    BY <2>1 DEF OneWorkerPerSession, WorkersAreBound
  <2>6. EndedRunsAreSummarised'
    BY <2>1, <2>2 DEF EndedRunsAreSummarised
  <2>7. WorkersOwnTheirSession'
    BY <1>1, <2>1, <2>3 DEF WorkersOwnTheirSession
  <2>8. QED
    BY <2>4, <2>5, <2>6, <2>7
<1>9. ASSUME NEW t \in Threads, RunSpawn(h, t) PROVE SessionInv'
  <2> DEFINE s == hnd[h].user
  <2>1. PICK b \in Banks, z \in BOOLEAN :
          Become(t, [NoWorker EXCEPT !.pc = "bind", !.user = s, !.bank = b, !.zip = z, !.run = runs[s]])
    BY <1>9 DEF RunSpawn
  <2> DEFINE v == [NoWorker EXCEPT !.pc = "bind", !.user = s, !.bank = b, !.zip = z, !.run = runs[s]]
  <2>2. v.pc = "bind" /\ v.user = s /\ v.run = runs[s]
    BY DEF NoWorker
  <2> HIDE DEF v
  <2>3. wrk'[t] = v /\ \A u \in Threads \ {t} : wrk'[u] = wrk[u]
    BY <2>1, BecomeOnly DEF v
  <2>4. hnd[h].pc = "spawn" /\ hnd'[h].pc = "idle" /\ UNCHANGED <<tracker, runs>>
    BY <1>3, <1>9 DEF RunSpawn, NoHandler
  <2>5. tracker[s].running /\ tracker[s].summary = NoSummary
        /\ \A u \in Threads : wrk[u].pc # "idle" => wrk[u].user # s
    BY <2>4 DEF HandlersOwnTheirSession, InFlight
  <2>6. HandlersOwnTheirSession'
    BY <1>2, <2>4 DEF HandlersOwnTheirSession
  <2>7. OneWorkerPerSession'
    BY <2>2, <2>3, <2>5 DEF OneWorkerPerSession
  <2>8. EndedRunsAreSummarised'
    BY <2>4 DEF EndedRunsAreSummarised
  <2>9. WorkersAreBound'
    BY <2>2, <2>3 DEF WorkersAreBound
  <2>10. WorkersOwnTheirSession'
    BY <2>2, <2>3, <2>4, <2>5 DEF WorkersOwnTheirSession
  <2>11. QED
    BY <2>6, <2>7, <2>8, <2>9, <2>10
<1>10. CASE RunRaise(h)
  <2>1. hnd'[h].pc = "idle" /\ UNCHANGED <<tracker, wrk, runs>>
    BY <1>3, <1>10 DEF RunRaise, NoHandler
  <2>2. HandlersOwnTheirSession'
    BY <1>2, <2>1 DEF HandlersOwnTheirSession
  <2>3. OneWorkerPerSession' /\ EndedRunsAreSummarised' /\ WorkersAreBound' /\ WorkersOwnTheirSession'
    BY <2>1 DEF OneWorkerPerSession, EndedRunsAreSummarised, WorkersAreBound, WorkersOwnTheirSession
  <2>4. QED
    BY <2>2, <2>3
<1>11. CASE CancelMark(h)
  <2>1. hnd'[h].pc = "idle" /\ UNCHANGED <<wrk, runs>>
    BY <1>3, <1>11 DEF CancelMark, NoHandler
  <2>2. \A s \in Sessions : /\ tracker'[s].running = tracker[s].running
                            /\ tracker'[s].summary = tracker[s].summary
    BY <1>1, <1>11, CancelMarkKeeps
  <2>3. HandlersOwnTheirSession'
    BY <1>2, <2>1 DEF HandlersOwnTheirSession
  <2>4. OneWorkerPerSession' /\ WorkersAreBound'
    BY <2>1 DEF OneWorkerPerSession, WorkersAreBound
  <2>5. EndedRunsAreSummarised'
    BY <2>1, <2>2 DEF EndedRunsAreSummarised
  <2>6. WorkersOwnTheirSession'
    BY <1>1, <2>1, <2>2 DEF WorkersOwnTheirSession
  <2>7. QED
    BY <2>3, <2>4, <2>5, <2>6
<1>12. QED
  BY <1>5, <1>6, <1>7, <1>8, <1>9, <1>10, <1>11 DEF Handler

LEMMA InvStep ==
  ASSUME SessionInv, Serial, [Next]_vars
  PROVE  SessionInv'
<1>1. TypeOK
  BY DEF SessionInv
<1>2. ASSUME NEW h \in Handlers, Handler(h) PROVE SessionInv'
  BY <1>1, <1>2, TypeHandler, InvHandler
<1>3. ASSUME NEW t \in Threads, Worker(t) PROVE SessionInv'
  <2>1. TypeOK'
    BY <1>1, <1>3, TypeWorker
  <2>2. Middle(t) \/ (Summarise(t) \/ Except(t)) \/ Finally(t)
    BY <1>3 DEF Worker, Middle
  <2>3. QED
    BY <2>1, <2>2, InvMiddle, InvOutcome, InvFinally
<1>4. CASE UNCHANGED vars
  BY <1>4 DEF vars, SessionInv, TypeOK, OneWorkerPerSession, EndedRunsAreSummarised, Alive,
     WorkersAreBound, WorkersOwnTheirSession, HandlersOwnTheirSession, InFlight
<1>5. QED
  BY <1>2, <1>3, <1>4 DEF Next

(* With one request served at a time, the owner of every session's flag is    *)
(* one place, however many users, workers and workbooks there are.            *)
THEOREM SessionInvariant == ASSUME Serial PROVE Spec => []SessionInv
<1>1. Init => SessionInv
  BY InvInit
<1>2. SessionInv /\ [Next]_vars => SessionInv'
  BY InvStep
<1>3. QED
  BY <1>1, <1>2, PTL DEF Spec

(* handle_run's unlocked check never lets a session have two workers as long   *)
(* as requests are served one at a time.                                       *)
THEOREM OneWorker == ASSUME Serial PROVE Spec => []OneWorkerPerSession
<1>1. SessionInv => OneWorkerPerSession
  BY DEF SessionInv
<1>2. QED
  BY <1>1, SessionInvariant, PTL

(* A poll that finds the flag down finds the summary of the run that ended.    *)
THEOREM EndedRunsSummarised == ASSUME Serial PROVE Spec => []EndedRunsAreSummarised
<1>1. SessionInv => EndedRunsAreSummarised
  BY DEF SessionInv
<1>2. QED
  BY <1>1, SessionInvariant, PTL

-----------------------------------------------------------------------------
(***************************************************************************)
(* The refinement: the reset is Start, the summary is Announce, the flag    *)
(* going down is End, and every other step shows a caller nothing.          *)
(***************************************************************************)
LEMMA RefInit == Init => Lifecycle!Init
<1> SUFFICES ASSUME Init PROVE Lifecycle!Init
  OBVIOUS
<1>1. \A s \in Sessions : /\ tracker[s].running = FALSE /\ tracker[s].summary.outcome = "none"
                          /\ runs[s] = 0
  BY DEF Init, Idle, Fresh, NoSummary
<1>2. runs = [s \in Sessions |-> 0]
  BY DEF Init
<1>3. QED
  BY <1>1, <1>2 DEF Lifecycle!Init, Lifecycle!None

LEMMA RefStutter ==
  ASSUME runs' = runs,
         \A s \in Sessions : /\ tracker'[s].running = tracker[s].running
                             /\ tracker'[s].summary = tracker[s].summary
  PROVE  UNCHANGED Lifecycle!lifecycleVars
<1>1. [s \in Sessions |-> tracker[s].running]' = [s \in Sessions |-> tracker[s].running]
  OBVIOUS
<1>2. [s \in Sessions |-> tracker[s].summary.outcome]' = [s \in Sessions |-> tracker[s].summary.outcome]
  OBVIOUS
<1>3. QED
  BY <1>1, <1>2 DEF Lifecycle!lifecycleVars

(* What a start shows.  The handler finds the flag down: nobody else raised it since the check. *)
LEMMA RefStart ==
  ASSUME SessionInv, NEW h \in Handlers, RunReset(h)
  PROVE  Lifecycle!Next
<1> PICK s : s = hnd[h].user
  OBVIOUS
<1>1. s \in Sessions /\ DOMAIN tracker = Sessions /\ DOMAIN runs = Sessions
      /\ runs \in [Sessions -> Nat]
  BY DEF SessionInv, TypeOK, HandlerType
<1>2. ~tracker[s].running
  BY DEF SessionInv, HandlersOwnTheirSession, RunReset
<1>3. tracker'[s] = Fresh /\ \A q \in Sessions \ {s} : tracker'[q] = tracker[q]
  BY <1>1 DEF RunReset
<1>4. Fresh.running = TRUE /\ Fresh.summary.outcome = "none"
  BY DEF Fresh, NoSummary
<1>5. runs' = [runs EXCEPT ![s] = @ + 1]
  BY DEF RunReset
<1>6. [q \in Sessions |-> tracker[q].running]'
        = [[q \in Sessions |-> tracker[q].running] EXCEPT ![s] = TRUE]
  BY <1>1, <1>3, <1>4
<1>7. [q \in Sessions |-> tracker[q].summary.outcome]'
        = [[q \in Sessions |-> tracker[q].summary.outcome] EXCEPT ![s] = "none"]
  BY <1>1, <1>3, <1>4
<1>8. Lifecycle!Start(s)
  BY <1>1, <1>2, <1>5, <1>6, <1>7 DEF Lifecycle!Start, Lifecycle!None
<1>9. QED
  BY <1>1, <1>8 DEF Lifecycle!Next

LEMMA RefAnnounce ==
  ASSUME SessionInv, NEW t \in Threads, Summarise(t) \/ Except(t)
  PROVE  Lifecycle!Next
<1> PICK s : s = Here(t)
  OBVIOUS
<1>1. TypeOK /\ s \in Sessions
  BY HereInSessions DEF SessionInv
<1>2. /\ runs' = runs
      /\ wrk[t].pc \notin {"idle", "bind", "finally"}
      /\ \A q \in Sessions : tracker'[q].running = tracker[q].running
      /\ \A q \in Sessions \ {s} : tracker'[q] = tracker[q]
      /\ tracker'[s].summary.outcome \in {"success", "failed"}
  BY <1>1, OutcomeStep
<1>3. s = wrk[t].user
  BY <1>2 DEF SessionInv, WorkersAreBound, Here
<1>4. tracker[s].running /\ tracker[s].summary = NoSummary
  BY <1>2, <1>3 DEF SessionInv, WorkersOwnTheirSession, Alive
<1>5. NoSummary.outcome = "none"
  BY DEF NoSummary
<1>6. PICK o \in {"success", "failed"} : tracker'[s].summary.outcome = o
  BY <1>2
<1>7. [q \in Sessions |-> tracker[q].running]' = [q \in Sessions |-> tracker[q].running]
  BY <1>2
<1>8. [q \in Sessions |-> tracker[q].summary.outcome]'
        = [[q \in Sessions |-> tracker[q].summary.outcome] EXCEPT ![s] = o]
  BY <1>1, <1>2, <1>6
<1>9. Lifecycle!Announce(s)
  BY <1>1, <1>2, <1>4, <1>5, <1>7, <1>8 DEF Lifecycle!Announce, Lifecycle!None, Lifecycle!Outcomes
<1>10. QED
  BY <1>1, <1>9 DEF Lifecycle!Next

LEMMA RefEnd ==
  ASSUME SessionInv, NEW t \in Threads, Finally(t)
  PROVE  Lifecycle!Next
<1> PICK s : s = Here(t)
  OBVIOUS
<1>1. TypeOK /\ s \in Sessions
  BY HereInSessions DEF SessionInv
<1>2. /\ runs' = runs
      /\ wrk[t].pc = "finally"
      /\ \A q \in Sessions \ {s} : tracker'[q] = tracker[q]
      /\ tracker'[s].running = FALSE
      /\ tracker'[s].summary = tracker[s].summary
  BY <1>1, FinallyStep
<1>3. s = wrk[t].user
  BY <1>2 DEF SessionInv, WorkersAreBound, Here
<1>4. tracker[s].running /\ tracker[s].summary.outcome \in {"success", "failed"}
  BY <1>2, <1>3 DEF SessionInv, WorkersOwnTheirSession, Alive
<1>5. [q \in Sessions |-> tracker[q].running]'
        = [[q \in Sessions |-> tracker[q].running] EXCEPT ![s] = FALSE]
  BY <1>1, <1>2
<1>6. [q \in Sessions |-> tracker[q].summary.outcome]'
        = [q \in Sessions |-> tracker[q].summary.outcome]
  BY <1>2
<1>7. Lifecycle!End(s)
  BY <1>1, <1>2, <1>4, <1>5, <1>6 DEF Lifecycle!End, Lifecycle!None
<1>8. QED
  BY <1>1, <1>7 DEF Lifecycle!Next

LEMMA RefHandler ==
  ASSUME SessionInv, NEW h \in Handlers, Handler(h)
  PROVE  Lifecycle!Next \/ UNCHANGED Lifecycle!lifecycleVars
<1>1. ASSUME UNCHANGED <<tracker, runs>> PROVE UNCHANGED Lifecycle!lifecycleVars
  BY <1>1, RefStutter
<1>2. ASSUME NEW s \in Requesters, RunRequest(h, s) \/ CancelSet(h, s)
      PROVE  UNCHANGED Lifecycle!lifecycleVars
  BY <1>1, <1>2 DEF RunRequest, CancelSet
<1>3. CASE RunClear(h)
  BY <1>1, <1>3 DEF RunClear
<1>4. CASE RunReset(h)
  BY <1>4, RefStart
<1>5. ASSUME NEW t \in Threads, RunSpawn(h, t) PROVE UNCHANGED Lifecycle!lifecycleVars
  BY <1>1, <1>5 DEF RunSpawn
<1>6. CASE RunRaise(h)
  BY <1>1, <1>6 DEF RunRaise
<1>7. CASE CancelMark(h)
  BY <1>7, CancelMarkKeeps, RefStutter DEF SessionInv, CancelMark
<1>8. QED
  BY <1>2, <1>3, <1>4, <1>5, <1>6, <1>7 DEF Handler

LEMMA RefStep ==
  ASSUME SessionInv, [Next]_vars
  PROVE  [Lifecycle!Next]_(Lifecycle!lifecycleVars)
<1>1. TypeOK
  BY DEF SessionInv
<1>2. ASSUME NEW h \in Handlers, Handler(h)
      PROVE  Lifecycle!Next \/ UNCHANGED Lifecycle!lifecycleVars
  BY <1>2, RefHandler
<1>3. ASSUME NEW t \in Threads, Worker(t)
      PROVE  Lifecycle!Next \/ UNCHANGED Lifecycle!lifecycleVars
  <2>1. CASE Middle(t)
    BY <1>1, <2>1, MiddleStep, RefStutter
  <2>2. CASE Summarise(t) \/ Except(t)
    BY <2>2, RefAnnounce
  <2>3. CASE Finally(t)
    BY <2>3, RefEnd
  <2>4. QED
    BY <1>3, <2>1, <2>2, <2>3 DEF Worker, Middle
<1>4. CASE UNCHANGED vars
  BY <1>4, RefStutter DEF vars
<1>5. QED
  BY <1>2, <1>3, <1>4 DEF Next

(* Served one request at a time, the bank-job code implements the lifecycle   *)
(* JobLifecycle promises, for any number of users, threads and workbooks.     *)
THEOREM LifecycleImplemented == ASSUME Serial PROVE Spec => ImplementsLifecycle
<1>1. Init => Lifecycle!Init
  BY RefInit
<1>2. SessionInv /\ [Next]_vars => [Lifecycle!Next]_(Lifecycle!lifecycleVars)
  BY RefStep
<1>3. QED
  BY <1>1, <1>2, SessionInvariant, PTL DEF Spec, ImplementsLifecycle, Lifecycle!Spec

-----------------------------------------------------------------------------
(***************************************************************************)
(* The rest of JobInv: what a step leaves in a worker's record, then each  *)
(* part of the invariant in turn.                                          *)
(***************************************************************************)
Left(v, w, q, f, n, m, b, l) ==
  /\ v.pc = q /\ v.file = f /\ v.branch = n /\ v.made = m /\ v.stopped = b /\ v.late = l
  /\ v.user = w.user /\ v.bank = w.bank /\ v.zip = w.zip /\ v.run = w.run /\ v.asked = w.asked

LEMMA BecomeLeft ==
  ASSUME TypeOK, NEW t \in Threads, NEW v, Become(t, v)
  PROVE  wrk'[t] = v
BY BecomeOnly

LEMMA WorkerLeaves ==
  ASSUME TypeOK, NEW t \in Threads
  PROVE  LET w == wrk[t]
             After(q, f, n, m, b, l) == Left(wrk'[t], w, q, f, n, m, b, l)
         IN /\ Bind(t) => After("file", w.file, w.branch, w.made, w.stopped, w.late)
            /\ FileStart(t) => After("branch", w.file, 1, 0, w.stopped, w.late)
            /\ FileStop(t) =>
                 After("record", w.file, w.branch, w.made, w.stopped \/ w.file <= Files, w.late)
            /\ BranchStart(t) => After("build", w.file, w.branch, w.made, w.stopped, w.late)
            /\ BranchStop(t) =>
                 After("pack", w.file, w.branch, w.made, w.stopped \/ w.branch <= Steps(w.bank), w.late)
            /\ Build(t) => After("branch", w.file, w.branch + 1, w.made + 1, w.stopped,
                                 IF w.asked THEN w.late + 1 ELSE w.late)
            /\ Skip(t) => After("branch", w.file, w.branch + 1, w.made, w.stopped, w.late)
            /\ Pack(t) => After("file", w.file + 1, w.branch, w.made, w.stopped, w.late)
            /\ Record(t) => After("complete", w.file, w.branch, w.made, w.stopped, w.late)
            /\ Complete(t) => After("summary", w.file, w.branch, w.made, w.stopped, w.late)
            /\ Summarise(t) \/ Except(t) =>
                 After("finally", w.file, w.branch, w.made, w.stopped, w.late)
            /\ Raise(t) => After("except", w.file, w.branch, w.made, w.stopped, w.late)
            /\ Finally(t) => wrk'[t] = NoWorker
<1> DEFINE w == wrk[t]
           After(q, f, n, m, b, l) == Left(wrk'[t], w, q, f, n, m, b, l)
<1>0. w \in WorkerType
  BY HereInSessions
<1>1. ASSUME Bind(t) PROVE After("file", w.file, w.branch, w.made, w.stopped, w.late)
  <2>1. wrk'[t] = [w EXCEPT !.pc = "file", !.local = w.user]
    BY <1>1, BecomeLeft DEF Bind
  <2>2. QED
    BY <1>0, <2>1 DEF Left, WorkerType
<1>2. ASSUME FileStart(t) PROVE After("branch", w.file, 1, 0, w.stopped, w.late)
  <2>1. wrk'[t] = [w EXCEPT !.pc = "branch", !.branch = 1, !.made = 0]
    BY <1>2, BecomeLeft DEF FileStart
  <2>2. QED
    BY <1>0, <2>1 DEF Left, WorkerType
<1>3. ASSUME FileStop(t)
      PROVE  After("record", w.file, w.branch, w.made, w.stopped \/ w.file <= Files, w.late)
  <2>1. wrk'[t] = [w EXCEPT !.pc = "record", !.stopped = w.stopped \/ w.file <= Files]
    BY <1>3, BecomeLeft DEF FileStop
  <2>2. QED
    BY <1>0, <2>1 DEF Left, WorkerType
<1>4. ASSUME BranchStart(t) PROVE After("build", w.file, w.branch, w.made, w.stopped, w.late)
  <2>1. wrk'[t] = [w EXCEPT !.pc = "build"]
    BY <1>4, BecomeLeft DEF BranchStart
  <2>2. QED
    BY <1>0, <2>1 DEF Left, WorkerType
<1>5. ASSUME BranchStop(t)
      PROVE  After("pack", w.file, w.branch, w.made, w.stopped \/ w.branch <= Steps(w.bank), w.late)
  <2>1. wrk'[t] = [w EXCEPT !.pc = "pack", !.stopped = w.stopped \/ w.branch <= Steps(w.bank)]
    BY <1>5, BecomeLeft DEF BranchStop
  <2>2. QED
    BY <1>0, <2>1 DEF Left, WorkerType
<1>6. ASSUME Build(t)
      PROVE  After("branch", w.file, w.branch + 1, w.made + 1, w.stopped,
                   IF w.asked THEN w.late + 1 ELSE w.late)
  <2>1. wrk'[t] = [w EXCEPT !.pc = "branch", !.branch = w.branch + 1, !.made = w.made + 1,
                       !.late = IF w.asked THEN w.late + 1 ELSE w.late]
    BY <1>6, BecomeLeft DEF Build
  <2>2. QED
    BY <1>0, <2>1 DEF Left, WorkerType
<1>7. ASSUME Skip(t) PROVE After("branch", w.file, w.branch + 1, w.made, w.stopped, w.late)
  <2>1. wrk'[t] = [w EXCEPT !.pc = "branch", !.branch = w.branch + 1]
    BY <1>7, BecomeLeft DEF Skip
  <2>2. QED
    BY <1>0, <2>1 DEF Left, WorkerType
<1>8. ASSUME Pack(t) PROVE After("file", w.file + 1, w.branch, w.made, w.stopped, w.late)
  <2>1. wrk'[t] = [w EXCEPT !.pc = "file", !.file = w.file + 1]
    BY <1>8, BecomeLeft DEF Pack
  <2>2. QED
    BY <1>0, <2>1 DEF Left, WorkerType
<1>9. ASSUME Record(t) PROVE After("complete", w.file, w.branch, w.made, w.stopped, w.late)
  <2>1. wrk'[t] = [w EXCEPT !.pc = "complete"]
    BY <1>9, BecomeLeft DEF Record
  <2>2. QED
    BY <1>0, <2>1 DEF Left, WorkerType
<1>10. ASSUME Complete(t) PROVE After("summary", w.file, w.branch, w.made, w.stopped, w.late)
  <2>1. wrk'[t] = [w EXCEPT !.pc = "summary"]
    BY <1>10, BecomeLeft DEF Complete
  <2>2. QED
    BY <1>0, <2>1 DEF Left, WorkerType
<1>11. ASSUME Summarise(t) \/ Except(t)
       PROVE  After("finally", w.file, w.branch, w.made, w.stopped, w.late)
  <2>1. wrk'[t] = [w EXCEPT !.pc = "finally"]
    BY <1>11, BecomeLeft DEF Summarise, Except
  <2>2. QED
    BY <1>0, <2>1 DEF Left, WorkerType
<1>12. ASSUME Raise(t) PROVE After("except", w.file, w.branch, w.made, w.stopped, w.late)
  <2>1. wrk'[t] = [w EXCEPT !.pc = "except"]
    BY <1>12, BecomeLeft DEF Raise
  <2>2. QED
    BY <1>0, <2>1 DEF Left, WorkerType
<1>13. ASSUME Finally(t) PROVE wrk'[t] = NoWorker
  BY <1>13, BecomeLeft DEF Finally
<1>14. QED
  BY <1>1, <1>2, <1>3, <1>4, <1>5, <1>6, <1>7, <1>8, <1>9, <1>10, <1>11, <1>12, <1>13

(* What a request can do to the record of a worker: nothing, a request to    *)
(* stop, or a new run.                                                       *)
NewRun(v, s, b, z, n) ==
  /\ v.pc = "bind" /\ v.user = s /\ v.bank = b /\ v.zip = z /\ v.run = n
  /\ v.file = 1 /\ v.branch = 1 /\ v.made = 0 /\ v.late = 0
  /\ ~v.asked /\ ~v.stopped

Asked(v, w) ==
  /\ Left(v, [w EXCEPT !.asked = TRUE], w.pc, w.file, w.branch, w.made, w.stopped, w.late)
  /\ v.local = w.local
  /\ v.asked = TRUE
  /\ w.pc # "idle"

LEMMA AskedBy ==
  \A w \in WorkerType : w.pc # "idle" => Asked([w EXCEPT !.asked = TRUE], w)
BY DEF Asked, Left, WorkerType

LEMMA SpawnLeaves ==
  ASSUME TypeOK, NEW h \in Handlers, NEW t \in Threads, RunSpawn(h, t)
  PROVE  \E b \in Banks, z \in BOOLEAN : NewRun(wrk'[t], hnd[h].user, b, z, runs[hnd[h].user])
<1> DEFINE s == hnd[h].user
<1>1. PICK b \in Banks, z \in BOOLEAN :
        Become(t, [NoWorker EXCEPT !.pc = "bind", !.user = s, !.bank = b, !.zip = z, !.run = runs[s]])
  BY DEF RunSpawn
<1> DEFINE v == [NoWorker EXCEPT !.pc = "bind", !.user = s, !.bank = b, !.zip = z, !.run = runs[s]]
<1>2. NewRun(v, s, b, z, runs[s])
  BY DEF NewRun, NoWorker
<1>3. wrk'[t] = v
  BY <1>1, BecomeLeft
<1>4. QED
  BY <1>2, <1>3

LEMMA HandlerLeaves ==
  ASSUME TypeOK, NEW h \in Handlers, Handler(h), NEW t \in Threads
  PROVE  \/ wrk'[t] = wrk[t]
         \/ \E s \in Requesters : CancelSet(h, s) /\ wrk[t].user = s /\ Asked(wrk'[t], wrk[t])
         \/ /\ hnd[h].pc = "spawn"
            /\ \E b \in Banks, z \in BOOLEAN :
                 NewRun(wrk'[t], hnd[h].user, b, z, runs[hnd[h].user])
<1>1. wrk[t] \in WorkerType
  BY HereInSessions
<1>2. ASSUME NEW s \in Requesters, RunRequest(h, s) PROVE wrk'[t] = wrk[t]
  BY <1>2 DEF RunRequest
<1>3. ASSUME NEW s \in Requesters, CancelSet(h, s)
      PROVE  wrk'[t] = wrk[t] \/ (wrk[t].user = s /\ Asked(wrk'[t], wrk[t]))
  <2>1. wrk'[t] = IF Alive(t) /\ wrk[t].user = s THEN [wrk[t] EXCEPT !.asked = TRUE] ELSE wrk[t]
    BY <1>3 DEF CancelSet
  <2>2. QED
    BY <1>1, <2>1, AskedBy DEF Alive
<1>4. CASE RunClear(h) \/ RunReset(h) \/ RunRaise(h) \/ CancelMark(h)
  BY <1>4 DEF RunClear, RunReset, RunRaise, CancelMark
<1>5. ASSUME NEW u \in Threads, RunSpawn(h, u)
      PROVE  \/ wrk'[t] = wrk[t]
             \/ /\ hnd[h].pc = "spawn"
                /\ \E b \in Banks, z \in BOOLEAN :
                     NewRun(wrk'[t], hnd[h].user, b, z, runs[hnd[h].user])
  <2>1. CASE u = t
    BY <1>5, <2>1, SpawnLeaves DEF RunSpawn
  <2>2. CASE u # t
    BY <1>5, <2>2, BecomeOnly DEF RunSpawn
  <2>3. QED
    BY <2>1, <2>2
<1>6. QED
  BY <1>2, <1>3, <1>4, <1>5 DEF Handler

LEMMA OthersLeft ==
  ASSUME TypeOK, NEW t \in Threads, Worker(t)
  PROVE  \A u \in Threads \ {t} : wrk'[u] = wrk[u]
<1>1. Middle(t) \/ (Summarise(t) \/ Except(t)) \/ Finally(t)
  BY DEF Worker, Middle
<1>2. QED
  BY <1>1, MiddleStep, OutcomeStep, FinallyStep

-----------------------------------------------------------------------------
(* Within its batch: a worker's counters.                                    *)
LEMMA CountInit == Init => WorkersKeepCount
BY SessionAssumption DEF Init, WorkersKeepCount, KeepsCount, NoWorker

LEMMA CountStep ==
  ASSUME TypeOK, WorkersKeepCount, [Next]_vars
  PROVE  WorkersKeepCount'
<1>1. ASSUME NEW t \in Threads, wrk'[t] = wrk[t] PROVE KeepsCount(wrk'[t])
  BY <1>1 DEF WorkersKeepCount
<1>2. ASSUME NEW h \in Handlers, Handler(h), NEW t \in Threads PROVE KeepsCount(wrk'[t])
  <2>1. ASSUME Asked(wrk'[t], wrk[t]) PROVE KeepsCount(wrk'[t])
    BY <2>1, HereInSessions DEF Asked, Left, KeepsCount, WorkersKeepCount, WorkerType
  <2>2. ASSUME NEW s, NEW b, NEW z, NEW n, NewRun(wrk'[t], s, b, z, n) PROVE KeepsCount(wrk'[t])
    BY <2>2, SessionAssumption DEF NewRun, KeepsCount
  <2>3. QED
    BY <1>1, <1>2, <2>1, <2>2, HandlerLeaves
<1>3. ASSUME NEW t \in Threads, Worker(t), NEW u \in Threads PROVE KeepsCount(wrk'[u])
  <2> DEFINE w == wrk[t]
  <2>1. w \in WorkerType /\ KeepsCount(w)
    BY HereInSessions DEF WorkersKeepCount
  <2>2. w.file \in Nat \ {0} /\ w.branch \in Nat /\ w.made \in Nat /\ Steps(w.bank) \in Nat \ {0}
    BY <2>1, SessionAssumption DEF WorkerType, Steps
  <2>3. KeepsCount(wrk'[t])
    <3> USE SessionAssumption DEF KeepsCount, Left
    <3>0. CASE Bind(t)
      BY <2>1, <2>2, <3>0, WorkerLeaves DEF Bind
    <3>1. CASE FileStart(t)
      <4>1. w.file <= Files
        BY <3>1 DEF FileStart
      <4>2. Left(wrk'[t], w, "branch", w.file, 1, 0, w.stopped, w.late)
        BY <3>1, WorkerLeaves
      <4>3. QED
        BY <2>1, <2>2, <4>1, <4>2
    <3>2. CASE FileStop(t) \/ Record(t) \/ Complete(t)
      BY <2>1, <2>2, <3>2, WorkerLeaves
    <3>3. CASE BranchStart(t)
      BY <2>1, <2>2, <3>3, WorkerLeaves DEF BranchStart
    <3>4. CASE BranchStop(t)
      BY <2>1, <2>2, <3>4, WorkerLeaves DEF BranchStop
    <3>5. CASE Build(t) \/ Skip(t)
      <4>1. w.pc = "build"
        BY <3>5 DEF Build, Skip
      <4>2. /\ wrk'[t].pc = "branch" /\ wrk'[t].file = w.file /\ wrk'[t].bank = w.bank
            /\ wrk'[t].branch = w.branch + 1 /\ wrk'[t].made \in {w.made, w.made + 1}
        BY <3>5, WorkerLeaves
      <4>3. QED
        BY <2>1, <2>2, <4>1, <4>2
    <3>7. CASE Pack(t)
      <4>1. w.pc = "pack"
        BY <3>7 DEF Pack
      <4>2. wrk'[t].pc = "file" /\ wrk'[t].file = w.file + 1
        BY <3>7, WorkerLeaves
      <4>3. QED
        BY <2>1, <2>2, <4>1, <4>2
    <3>8. CASE Summarise(t) \/ Except(t) \/ Raise(t)
      BY <2>1, <2>2, <3>8, WorkerLeaves
    <3>9. CASE Finally(t)
      BY <3>9, WorkerLeaves DEF NoWorker
    <3>10. QED
      BY <1>3, <3>0, <3>1, <3>2, <3>3, <3>4, <3>5, <3>7, <3>8, <3>9 DEF Worker
  <2>4. QED
    BY <1>1, <1>3, <2>3, OthersLeft
<1>4. QED
  BY <1>1, <1>2, <1>3 DEF Next, WorkersKeepCount, vars

-----------------------------------------------------------------------------
(* The cancel event belongs to the run that is under way.                    *)
LEMMA EventsInit == Init => EventsFollowRuns /\ LateBuildsAreFew
BY SessionAssumption DEF Init, EventsFollowRuns, LateBuildsAreFew, LateIsBounded, Alive,
   NoWorker, NoHandler

LEMMA EventsStep ==
  ASSUME SessionInv, EventsFollowRuns, Serial, [Next]_vars
  PROVE  EventsFollowRuns'
<1> USE DEF Alive
<1>1. TypeOK /\ \A u \in Threads : wrk[u] \in WorkerType /\ wrk[u].user \in Sessions
  BY HereInSessions DEF SessionInv
<1>2. DOMAIN hnd = Handlers /\ DOMAIN cancel = Sessions
      /\ \A k \in Handlers : hnd[k] \in HandlerType /\ hnd[k].user \in Sessions
  BY <1>1 DEF TypeOK, HandlerType
<1>3. ASSUME NEW h \in Handlers, Handler(h) PROVE EventsFollowRuns'
  <2>0. \A k \in Handlers : k = h
    BY DEF Serial
  <2>1. ASSUME NEW s \in Requesters, RunRequest(h, s) PROVE EventsFollowRuns'
    <3>1. hnd'[h].pc = "clear" /\ wrk' = wrk /\ cancel' = cancel
      BY <1>2, <2>1 DEF RunRequest
    <3>2. QED
      BY <2>0, <3>1 DEF EventsFollowRuns
  <2>2. ASSUME NEW s \in Requesters, CancelSet(h, s) PROVE EventsFollowRuns'
    <3>1. hnd'[h].pc = "mark" /\ s \in Sessions
      BY <1>2, <2>2 DEF CancelSet, Requesters, Sessions
    <3>2. cancel'[s] = TRUE /\ \A q \in Sessions \ {s} : cancel'[q] = cancel[q]
      BY <1>2, <2>2, <3>1 DEF CancelSet
    <3>3. ASSUME NEW t \in Threads, wrk'[t].pc # "idle"
          PROVE  wrk'[t].asked <=> cancel'[wrk'[t].user]
      <4>1. wrk'[t] = IF wrk[t].pc # "idle" /\ wrk[t].user = s
                      THEN [wrk[t] EXCEPT !.asked = TRUE] ELSE wrk[t]
        BY <2>2 DEF CancelSet
      <4>2. CASE wrk[t].pc # "idle" /\ wrk[t].user = s
        <5>1. wrk'[t].asked = TRUE /\ wrk'[t].user = s
          BY <1>1, <4>1, <4>2 DEF WorkerType
        <5>2. QED
          BY <3>2, <5>1
      <4>3. CASE wrk[t].pc # "idle" /\ wrk[t].user # s
        BY <1>1, <3>2, <4>1, <4>3 DEF EventsFollowRuns
      <4>4. QED
        BY <3>3, <4>1, <4>2, <4>3
    <3>4. QED
      BY <2>0, <3>1, <3>3 DEF EventsFollowRuns
  <2>3. CASE RunClear(h)
    <3> DEFINE s == hnd[h].user
    <3>1. cancel'[s] = FALSE /\ wrk' = wrk /\ \A q \in Sessions \ {s} : cancel'[q] = cancel[q]
      BY <1>2, <2>3 DEF RunClear
    <3>2. hnd'[h].user = s
      BY <1>2, <2>3 DEF RunClear, HandlerType
    <3>3. ~tracker[s].running
      BY <2>3 DEF RunClear, SessionInv, HandlersOwnTheirSession
    <3>4. \A t \in Threads : wrk[t].pc # "idle" => wrk[t].user # s
      BY <3>3 DEF SessionInv, WorkersOwnTheirSession
    <3>5. QED
      BY <1>1, <2>0, <3>1, <3>2, <3>4 DEF EventsFollowRuns
  <2>4. CASE RunReset(h)
    <3>1. hnd[h].pc = "reset" /\ hnd'[h].user = hnd[h].user /\ wrk' = wrk /\ cancel' = cancel
      BY <1>2, <2>4 DEF RunReset, HandlerType
    <3>2. QED
      BY <2>0, <3>1 DEF EventsFollowRuns
  <2>5. ASSUME NEW t \in Threads, RunSpawn(h, t) PROVE EventsFollowRuns'
    <3>1. hnd[h].pc = "spawn" /\ hnd'[h].pc = "idle" /\ cancel' = cancel
      BY <1>2, <2>5 DEF RunSpawn, NoHandler
    <3>2. wrk'[t].user = hnd[h].user /\ ~wrk'[t].asked
      BY <1>1, <2>5, SpawnLeaves DEF NewRun
    <3>3. \A u \in Threads \ {t} : wrk'[u] = wrk[u]
      BY <1>1, <2>5, BecomeOnly DEF RunSpawn
    <3>4. QED
      BY <1>2, <2>0, <3>1, <3>2, <3>3 DEF EventsFollowRuns
  <2>6. CASE RunRaise(h) \/ CancelMark(h)
    <3>1. hnd'[h].pc = "idle" /\ wrk' = wrk /\ cancel' = cancel
      BY <1>2, <2>6 DEF RunRaise, CancelMark, NoHandler
    <3>2. QED
      BY <2>0, <3>1 DEF EventsFollowRuns
  <2>7. QED
    BY <1>3, <2>1, <2>2, <2>3, <2>4, <2>5, <2>6 DEF Handler
<1>4. ASSUME NEW t \in Threads, Worker(t) PROVE EventsFollowRuns'
  <2>1. hnd' = hnd /\ cancel' = cancel
    BY <1>4 DEF Worker, Bind, FileStart, FileStop, BranchStart, BranchStop, Build, Skip, Pack,
       Record, Complete, Summarise, Raise, Except, Finally
  <2>2. wrk'[t].pc = "idle" \/ (/\ wrk[t].pc # "idle"
                                /\ wrk'[t].user = wrk[t].user /\ wrk'[t].asked = wrk[t].asked)
    <3>1. CASE Finally(t)
      BY <1>1, <3>1, WorkerLeaves DEF NoWorker
    <3>2. CASE ~Finally(t)
      <4>1. wrk'[t].user = wrk[t].user /\ wrk'[t].asked = wrk[t].asked
        BY <1>1, <1>4, <3>2, WorkerLeaves DEF Worker, Left
      <4>2. wrk[t].pc # "idle"
        BY <1>4 DEF Worker, Bind, FileStart, FileStop, BranchStart, BranchStop, Build, Skip, Pack,
           Record, Complete, Summarise, Raise, Except, Finally
      <4>3. QED
        BY <4>1, <4>2
    <3>3. QED
      BY <3>1, <3>2
  <2>3. \A u \in Threads \ {t} : wrk'[u] = wrk[u]
    BY <1>1, <1>4, OthersLeft
  <2>4. QED
    BY <2>1, <2>2, <2>3 DEF EventsFollowRuns
<1>5. CASE UNCHANGED vars
  BY <1>5 DEF vars, EventsFollowRuns
<1>6. QED
  BY <1>3, <1>4, <1>5 DEF Next

(* Few branches are built late.                                              *)
LEMMA LateStep ==
  ASSUME SessionInv, EventsFollowRuns, WorkersKeepCount, LateBuildsAreFew, [Next]_vars
  PROVE  LateBuildsAreFew'
<1>0. TypeOK
  BY DEF SessionInv
<1>1. ASSUME NEW t \in Threads, wrk'[t] = wrk[t] PROVE LateIsBounded(wrk'[t])
  BY <1>1 DEF LateBuildsAreFew
<1>2. ASSUME NEW h \in Handlers, Handler(h), NEW t \in Threads PROVE LateIsBounded(wrk'[t])
  <2>1. ASSUME Asked(wrk'[t], wrk[t]) PROVE LateIsBounded(wrk'[t])
    BY <1>0, <2>1, HereInSessions DEF Asked, Left, LateIsBounded, LateBuildsAreFew, WorkerType
  <2>2. ASSUME NEW s, NEW b, NEW z, NEW n, NewRun(wrk'[t], s, b, z, n) PROVE LateIsBounded(wrk'[t])
    BY <2>2, SessionAssumption DEF NewRun, LateIsBounded
  <2>3. QED
    BY <1>0, <1>1, <1>2, <2>1, <2>2, HandlerLeaves
<1>3. ASSUME NEW t \in Threads, Worker(t), NEW u \in Threads PROVE LateIsBounded(wrk'[u])
  <2> DEFINE w == wrk[t]
  <2>1. w \in WorkerType /\ KeepsCount(w) /\ LateIsBounded(w)
    BY <1>0, HereInSessions DEF WorkersKeepCount, LateBuildsAreFew
  <2>2. /\ w.file \in Nat \ {0} /\ w.branch \in Nat /\ w.late \in Nat
        /\ w.asked \in BOOLEAN /\ w.stopped \in BOOLEAN
    BY <2>1 DEF WorkerType
  <2>3. w.pc \notin {"idle", "bind"} => w.asked = cancel[Here(t)]
    BY <1>0 DEF EventsFollowRuns, SessionInv, WorkersAreBound, Alive, Here, TypeOK, WorkerType
  <2>4. LateIsBounded(wrk'[t])
    <3> USE SessionAssumption DEF LateIsBounded, Left, Looks
    <3>1. CASE Bind(t) \/ Record(t) \/ Complete(t)
      BY <1>0, <2>1, <2>2, <3>1, WorkerLeaves
    <3>2. CASE FileStart(t)
      <4>1. w.late = 0
        BY <2>1, <2>3, <3>2 DEF FileStart
      <4>2. Left(wrk'[t], w, "branch", w.file, 1, 0, w.stopped, w.late)
        BY <1>0, <3>2, WorkerLeaves
      <4>3. QED
        BY <2>1, <2>2, <4>1, <4>2
    <3>3. CASE FileStop(t)
      <4>1. w.file <= Files => w.asked
        BY <2>2, <2>3, <3>3, SessionAssumption DEF FileStop
      <4>2. Left(wrk'[t], w, "record", w.file, w.branch, w.made, w.stopped \/ w.file <= Files, w.late)
        BY <1>0, <3>3, WorkerLeaves
      <4>3. QED
        BY <2>1, <2>2, <4>1, <4>2
    <3>4. CASE BranchStart(t)
      BY <1>0, <2>1, <2>2, <2>3, <3>4, WorkerLeaves DEF BranchStart
    <3>5. CASE BranchStop(t)
      <4>1. w.branch <= Steps(w.bank) => Looks(w.bank) /\ cancel[Here(t)]
        BY <2>2, <3>5, SessionAssumption DEF BranchStop, Steps
      <4>2. QED
        BY <1>0, <2>1, <2>2, <2>3, <3>5, <4>1, WorkerLeaves DEF BranchStop
    <3>6. CASE Build(t)
      <4>1. w.pc = "build" /\ (~Looks(w.bank) => w.branch <= Branches)
        BY <2>1, <3>6 DEF Build, KeepsCount, Steps
      <4>2. Left(wrk'[t], w, "branch", w.file, w.branch + 1, w.made + 1, w.stopped,
                 IF w.asked THEN w.late + 1 ELSE w.late)
        BY <1>0, <3>6, WorkerLeaves
      <4>3. QED
        BY <2>1, <2>2, <4>1, <4>2
    <3>7. CASE Skip(t)
      BY <1>0, <2>1, <2>2, <3>7, WorkerLeaves DEF Skip
    <3>8. CASE Pack(t)
      BY <1>0, <2>1, <2>2, <3>8, WorkerLeaves DEF Pack
    <3>9. CASE Summarise(t) \/ Except(t) \/ Raise(t)
      BY <1>0, <2>1, <2>2, <3>9, WorkerLeaves
    <3>10. CASE Finally(t)
      BY <1>0, <3>10, WorkerLeaves DEF NoWorker
    <3>11. QED
      BY <1>3, <3>1, <3>2, <3>3, <3>4, <3>5, <3>6, <3>7, <3>8, <3>9, <3>10 DEF Worker
  <2>5. QED
    BY <1>0, <1>1, <1>3, <2>4, OthersLeft
<1>4. QED
  BY <1>1, <1>2, <1>3 DEF Next, LateBuildsAreFew, vars

-----------------------------------------------------------------------------
(* A worker that is past its binding resolves to its own session, however     *)
(* many requests are served at once.                                         *)
LEMMA BoundStep ==
  ASSUME TypeOK, WorkersAreBound, [Next]_vars
  PROVE  WorkersAreBound'
<1> DEFINE Bound(w) == w.pc # "bind" => w.local = w.user
<1>1. ASSUME NEW h \in Handlers, Handler(h), NEW t \in Threads PROVE Bound(wrk'[t])
  <2>1. CASE wrk'[t] = wrk[t]
    BY <2>1 DEF WorkersAreBound
  <2>2. CASE Asked(wrk'[t], wrk[t])
    BY <2>2, HereInSessions DEF Asked, Left, WorkersAreBound, WorkerType
  <2>3. ASSUME NEW s, NEW b, NEW z, NEW n, NewRun(wrk'[t], s, b, z, n) PROVE Bound(wrk'[t])
    BY <2>3 DEF NewRun
  <2>4. QED
    BY <1>1, <2>1, <2>2, <2>3, HandlerLeaves
<1>2. ASSUME NEW t \in Threads, Worker(t), NEW u \in Threads PROVE Bound(wrk'[u])
  <2>1. CASE u # t
    BY <1>2, <2>1, OthersLeft DEF WorkersAreBound
  <2>2. CASE u = t /\ Finally(t)
    BY <2>2, WorkerLeaves DEF NoWorker
  <2>3. CASE u = t /\ Middle(t)
    BY <2>3, MiddleStep DEF WorkersAreBound
  <2>4. CASE u = t /\ (Summarise(t) \/ Except(t))
    BY <2>4, OutcomeStep DEF WorkersAreBound
  <2>5. QED
    BY <1>2, <2>1, <2>2, <2>3, <2>4 DEF Worker, Middle
<1>3. QED
  BY <1>1, <1>2 DEF Next, WorkersAreBound, vars

LEMMA BoundInit == Init => WorkersAreBound
BY DEF Init, WorkersAreBound, NoWorker

(* What each way of writing through a proxy changes.                         *)
LEMMA ShowPctWrites ==
  ASSUME TypeOK, NEW t \in Threads, NEW p \in Nat, ShowPct(t, p), NEW s \in Sessions
  PROVE  tracker'[s].pct = IF s = Here(t) THEN p ELSE tracker[s].pct
<1>1. tracker[s] \in InfoType /\ DOMAIN tracker = Sessions
  BY DEF TypeOK
<1>2. tracker'[s] = IF s = Here(t) THEN [tracker[s] EXCEPT !.pct = p] ELSE tracker[s]
  BY <1>1 DEF ShowPct
<1>3. QED
  BY <1>1, <1>2 DEF InfoType

LEMMA SayOutcomeWrites ==
  ASSUME TypeOK, NEW t \in Threads, NEW o, SayOutcome(t, o), NEW s \in Sessions
  PROVE  /\ tracker'[s].pct = tracker[s].pct
         /\ s # Here(t) => tracker'[s].summary = tracker[s].summary
         /\ s = Here(t) => /\ tracker'[s].summary.outcome = o
                           /\ tracker'[s].summary.run = wrk[t].run
<1> DEFINE m == [run |-> wrk[t].run, outcome |-> o]
<1>1. tracker[s] \in InfoType /\ DOMAIN tracker = Sessions
  BY DEF TypeOK
<1>2. m.run = wrk[t].run /\ m.outcome = o
  OBVIOUS
<1>3. tracker'[s] = IF s = Here(t) THEN [tracker[s] EXCEPT !.summary = m] ELSE tracker[s]
  BY <1>1 DEF SayOutcome
<1> HIDE DEF m
<1>4. QED
  BY <1>1, <1>2, <1>3 DEF InfoType

LEMMA LowerFlagWrites ==
  ASSUME TypeOK, NEW t \in Threads, LowerFlag(t), NEW s \in Sessions
  PROVE  tracker'[s].pct = tracker[s].pct /\ tracker'[s].summary = tracker[s].summary
<1>1. tracker[s] \in InfoType /\ DOMAIN tracker = Sessions
  BY DEF TypeOK
<1>2. tracker'[s] = IF s = Here(t) THEN [tracker[s] EXCEPT !.running = FALSE] ELSE tracker[s]
  BY <1>1 DEF LowerFlag
<1>3. QED
  BY <1>1, <1>2 DEF InfoType

LEMMA CancelMarkWrites ==
  ASSUME TypeOK, NEW h \in Handlers, CancelMark(h), NEW s \in Sessions
  PROVE  tracker'[s].pct = tracker[s].pct
<1>1. tracker[s] \in InfoType /\ DOMAIN tracker = Sessions
  BY DEF TypeOK
<1>2. tracker'[s] = IF s = hnd[h].user THEN [tracker[s] EXCEPT !.cancelRequested = TRUE]
                                       ELSE tracker[s]
  BY <1>1 DEF CancelMark
<1>3. QED
  BY <1>1, <1>2 DEF InfoType

-----------------------------------------------------------------------------
(* The row of a run comes before its summary.                                *)
RowsInv == TypeOK /\ WorkersAreBound /\ RowsComeFirst /\ SuccessIsRecorded

LEMMA RowsInit == Init => RowsComeFirst /\ SuccessIsRecorded
BY DEF Init, RowsComeFirst, SuccessIsRecorded, NoWorker, Idle, Fresh, NoSummary

LEMMA RowsGrow ==
  ASSUME TypeOK, [Next]_vars, NEW s \in Sessions
  PROVE  history[s] \subseteq history'[s]
<1>1. ASSUME NEW h \in Handlers, Handler(h) PROVE history' = history
  BY <1>1 DEF Handler, RunRequest, CancelSet, RunClear, RunReset, RunSpawn, RunRaise, CancelMark
<1>2. ASSUME NEW t \in Threads, Worker(t) PROVE history[s] \subseteq history'[s]
  <2>1. CASE Record(t)
    BY <2>1, HereInSessions DEF Record, TypeOK
  <2>2. CASE ~Record(t)
    BY <1>2, <2>2 DEF Worker, Bind, FileStart, FileStop, BranchStart, BranchStop, Build, Skip, Pack,
       Complete, Summarise, Raise, Except, Finally
  <2>3. QED
    BY <2>1, <2>2
<1>3. QED
  BY <1>1, <1>2 DEF Next, vars

LEMMA RowsStep ==
  ASSUME RowsInv, [Next]_vars
  PROVE  RowsComeFirst' /\ SuccessIsRecorded'
<1> DEFINE Row(w) == w.pc \in {"complete", "summary"} /\ ~WebMode => w.run \in history'[w.user]
           Told(s) == tracker'[s].summary.outcome = "success" /\ ~WebMode =>
                        tracker'[s].summary.run \in history'[s]
<1>1. TypeOK
  BY DEF RowsInv
<1>2. \A s \in Sessions : history[s] \subseteq history'[s]
  BY <1>1, RowsGrow
<1>3. ASSUME NEW s \in Sessions, tracker'[s].summary = tracker[s].summary PROVE Told(s)
  BY <1>2, <1>3 DEF RowsInv, SuccessIsRecorded
<1>4. ASSUME NEW t \in Threads, wrk'[t] = wrk[t] PROVE Row(wrk'[t])
  <2>1. wrk[t].user \in Sessions
    BY <1>1, HereInSessions
  <2>2. QED
    BY <1>2, <1>4, <2>1 DEF RowsInv, RowsComeFirst
<1>5. ASSUME NEW h \in Handlers, Handler(h), NEW t \in Threads PROVE Row(wrk'[t])
  <2>1. CASE Asked(wrk'[t], wrk[t])
    <3>1. wrk[t] \in WorkerType /\ wrk[t].user \in Sessions
      BY <1>1, HereInSessions
    <3>2. wrk'[t].pc = wrk[t].pc /\ wrk'[t].user = wrk[t].user /\ wrk'[t].run = wrk[t].run
      BY <2>1, <3>1 DEF Asked, Left, WorkerType
    <3>3. QED
      BY <1>2, <3>1, <3>2 DEF RowsInv, RowsComeFirst
  <2>2. ASSUME NEW s, NEW b, NEW z, NEW n, NewRun(wrk'[t], s, b, z, n) PROVE Row(wrk'[t])
    BY <2>2 DEF NewRun
  <2>3. QED
    BY <1>1, <1>4, <1>5, <2>1, <2>2, HandlerLeaves
<1>6. ASSUME NEW h \in Handlers, Handler(h), NEW s \in Sessions PROVE Told(s)
  <2>1. CASE RunReset(h)
    <3>1. tracker'[s] = Fresh \/ tracker'[s] = tracker[s]
      BY <1>1, <2>1 DEF RunReset, TypeOK
    <3>2. Fresh.summary.outcome # "success"
      BY DEF Fresh, NoSummary
    <3>3. QED
      BY <1>3, <3>1, <3>2
  <2>2. CASE CancelMark(h)
    BY <1>1, <1>3, <2>2, CancelMarkKeeps
  <2>3. CASE ~RunReset(h) /\ ~CancelMark(h)
    BY <1>3, <1>6, <2>3 DEF Handler, RunRequest, CancelSet, RunClear, RunSpawn, RunRaise
  <2>4. QED
    BY <2>1, <2>2, <2>3
<1>7. ASSUME NEW t \in Threads, Worker(t), NEW u \in Threads PROVE Row(wrk'[u])
  <2>1. CASE u # t
    BY <1>1, <1>4, <1>7, <2>1, OthersLeft
  <2>2. wrk[t] \in WorkerType /\ wrk[t].user \in Sessions /\ history \in [Sessions -> SUBSET Nat]
    BY <1>1, HereInSessions DEF TypeOK
  <2>3. CASE u = t /\ Record(t)
    <3>1. wrk'[t].run = wrk[t].run /\ wrk'[t].user = wrk[t].user
      BY <1>1, <2>3, WorkerLeaves DEF Left
    <3>2. ~WebMode => wrk[t].run \in history'[wrk[t].user]
      BY <2>2, <2>3 DEF Record
    <3>3. QED
      BY <2>3, <3>1, <3>2
  <2>4. CASE u = t /\ Complete(t)
    <3>1. wrk'[t].run = wrk[t].run /\ wrk'[t].user = wrk[t].user
      BY <1>1, <2>4, WorkerLeaves DEF Left
    <3>2. ~WebMode => wrk[t].run \in history[wrk[t].user]
      BY <2>4 DEF Complete, RowsInv, RowsComeFirst
    <3>3. QED
      BY <1>2, <2>2, <2>4, <3>1, <3>2
  <2>5. CASE u = t /\ ~Record(t) /\ ~Complete(t)
    <3>1. CASE Finally(t)
      BY <1>1, <2>5, <3>1, WorkerLeaves DEF NoWorker
    <3>2. CASE ~Finally(t)
      <4>1. wrk'[t].pc \notin {"complete", "summary"}
        BY <1>1, <1>7, <2>5, <3>2, WorkerLeaves DEF Worker, Left
      <4>2. QED
        BY <2>5, <4>1
    <3>3. QED
      BY <3>1, <3>2
  <2>6. QED
    BY <2>1, <2>3, <2>4, <2>5
<1>8. ASSUME NEW t \in Threads, Worker(t), NEW s \in Sessions PROVE Told(s)
  <2>1. CASE Middle(t)
    BY <1>1, <1>3, <2>1, MiddleStep
  <2>2. CASE Finally(t)
    BY <1>1, <1>3, <2>2, LowerFlagWrites DEF Finally
  <2>3. CASE Except(t)
    <3>1. s # Here(t) => tracker'[s].summary = tracker[s].summary
      BY <1>1, <2>3, SayOutcomeWrites DEF Except
    <3>2. s = Here(t) => tracker'[s].summary.outcome = "failed"
      BY <1>1, <2>3, SayOutcomeWrites DEF Except
    <3>3. QED
      BY <1>3, <3>1, <3>2
  <2>4. CASE Summarise(t)
    <3>1. s # Here(t) => tracker'[s].summary = tracker[s].summary
      BY <1>1, <2>4, SayOutcomeWrites DEF Summarise
    <3>2. s = Here(t) => tracker'[s].summary.run = wrk[t].run
      BY <1>1, <2>4, SayOutcomeWrites DEF Summarise
    <3>3. Here(t) = wrk[t].user /\ wrk[t].user \in Sessions /\ wrk[t].pc = "summary"
      BY <1>1, <2>4, HereInSessions DEF Summarise, RowsInv, WorkersAreBound, Here
    <3>4. ~WebMode => wrk[t].run \in history[wrk[t].user]
      BY <3>3 DEF RowsInv, RowsComeFirst
    <3>5. QED
      BY <1>2, <1>3, <3>1, <3>2, <3>3, <3>4
  <2>5. QED
    BY <1>8, <2>1, <2>2, <2>3, <2>4 DEF Worker, Middle
<1>9. RowsComeFirst'
  BY <1>4, <1>5, <1>7 DEF Next, RowsComeFirst, vars
<1>10. SuccessIsRecorded'
  BY <1>3, <1>6, <1>8 DEF Next, SuccessIsRecorded, vars
<1>11. QED
  BY <1>9, <1>10

LEMMA TypeStep == ASSUME TypeOK, [Next]_vars PROVE TypeOK'
<1>1. CASE UNCHANGED vars
  BY <1>1 DEF TypeOK, vars
<1>2. QED
  BY <1>1, TypeHandler, TypeWorker DEF Next

(* On the desktop a run the user is told succeeded is in the history, with    *)
(* any number of requests served at once.                                    *)
THEOREM SuccessRecorded == Spec => []SuccessIsRecorded
<1>1. Init => RowsInv
  BY TypeInit, BoundInit, RowsInit DEF RowsInv
<1>2. RowsInv /\ [Next]_vars => RowsInv'
  <2> SUFFICES ASSUME RowsInv, [Next]_vars PROVE RowsInv'
    OBVIOUS
  <2>1. TypeOK' /\ WorkersAreBound'
    BY TypeStep, BoundStep DEF RowsInv
  <2>2. RowsComeFirst' /\ SuccessIsRecorded'
    BY RowsStep
  <2>3. QED
    BY <2>1, <2>2 DEF RowsInv
<1>3. RowsInv => SuccessIsRecorded
  BY DEF RowsInv
<1>4. QED
  BY <1>1, <1>2, <1>3, PTL DEF Spec

-----------------------------------------------------------------------------
(* Whose steps move a tracker.                                               *)
OwnStep(s) ==
  \/ \E h \in Handlers : hnd[h].user = s /\ hnd'[h] # hnd[h]
  \/ \E t \in Threads : wrk[t].user = s /\ wrk'[t] # wrk[t]

LEMMA OwnHandler ==
  ASSUME TypeOK, NEW h \in Handlers, Handler(h), NEW s \in Sessions, tracker'[s] # tracker[s]
  PROVE  OwnStep(s)
<1>1. RunReset(h) \/ CancelMark(h)
  BY DEF Handler, RunRequest, CancelSet, RunClear, RunSpawn, RunRaise
<1>2. hnd[h].user = s
  BY <1>1 DEF RunReset, CancelMark, TypeOK
<1>3. hnd'[h].pc # hnd[h].pc
  BY <1>1 DEF RunReset, CancelMark, TypeOK, HandlerType, NoHandler
<1>4. QED
  BY <1>2, <1>3 DEF OwnStep

LEMMA OwnWorker ==
  ASSUME TypeOK, WorkersAreBound, NEW t \in Threads, Worker(t), NEW s \in Sessions,
         tracker'[s] # tracker[s]
  PROVE  OwnStep(s)
<1>1. \/ FileStart(t) \/ BranchStart(t) \/ Build(t) \/ Pack(t) \/ Complete(t)
      \/ Summarise(t) \/ Except(t) \/ Finally(t)
  BY DEF Worker, Bind, FileStop, BranchStop, Skip, Record, Raise
<1>2. s = Here(t)
  BY <1>1 DEF FileStart, BranchStart, Build, Pack, Complete, Summarise, Except, Finally,
     ShowPct, SayOutcome, LowerFlag, TypeOK
<1>3. wrk[t].pc # "bind"
  BY <1>1 DEF FileStart, BranchStart, Build, Pack, Complete, Summarise, Except, Finally
<1>4. wrk[t].user = s
  BY <1>2, <1>3 DEF WorkersAreBound, Here
<1>5. wrk'[t].pc # wrk[t].pc
  <2>1. CASE Finally(t)
    <3>1. wrk'[t] = NoWorker /\ wrk[t].pc = "finally"
      BY <2>1, FinallyStep
    <3>2. QED
      BY <3>1 DEF NoWorker
  <2>2. CASE FileStart(t)
    BY <2>2, WorkerLeaves DEF Left, FileStart
  <2>3. CASE BranchStart(t)
    BY <2>3, WorkerLeaves DEF Left, BranchStart
  <2>4. CASE Build(t)
    BY <2>4, WorkerLeaves DEF Left, Build
  <2>5. CASE Pack(t) \/ Complete(t)
    BY <2>5, WorkerLeaves DEF Left, Pack, Complete
  <2>6. CASE Summarise(t) \/ Except(t)
    BY <2>6, WorkerLeaves DEF Left, Summarise, Except
  <2>7. QED
    BY <1>1, <2>1, <2>2, <2>3, <2>4, <2>5, <2>6
<1>6. QED
  BY <1>4, <1>5 DEF OwnStep

(* Nobody's tracker moves but with a step of a request or of a worker of its  *)
(* own session, with any number of requests served at once.                  *)
THEOREM TrackersAreOwn == Spec => OwnTrackerOnly
<1> DEFINE BoundInv == TypeOK /\ WorkersAreBound
           Owned == \A s \in Sessions : tracker'[s] # tracker[s] =>
                      \/ \E h \in Handlers : hnd[h].user = s /\ hnd'[h] # hnd[h]
                      \/ \E t \in Threads : wrk[t].user = s /\ wrk'[t] # wrk[t]
<1>1. Init => BoundInv
  BY TypeInit, BoundInit
<1>2. BoundInv /\ [Next]_vars => BoundInv'
  BY TypeStep, BoundStep
<1>3. BoundInv /\ [Next]_vars => [Owned]_vars
  BY OwnHandler, OwnWorker DEF Next, OwnStep
<1>4. QED
  BY <1>1, <1>2, <1>3, PTL DEF Spec, OwnTrackerOnly

-----------------------------------------------------------------------------
(***************************************************************************)
(* The bar.  A file's share of it is 100 * Branches units, and a worker is *)
(* never further than the place it is at.                                  *)
(***************************************************************************)
LEMMA FilePctFirst == FilePct(1) = 0
BY SessionAssumption DEF FilePct

LEMMA FilePctNext ==
  ASSUME NEW f \in Nat \ {0}
  PROVE  FilePct(f + 1) = FilePct(f) + 100 * Branches
<1> DEFINE a == 100 * Branches
<1>1. a \in Nat
  BY SessionAssumption
<1> HIDE DEF a
<1>2. a * ((f + 1) - 1) = a * (f - 1) + a
  BY <1>1
<1>3. QED
  BY <1>2 DEF FilePct, a

LEMMA FilePctFits ==
  ASSUME NEW f \in Nat \ {0}, f <= Files
  PROVE  FilePct(f) + 100 * Branches <= FullPct
<1> DEFINE a == 100 * Branches
<1>1. a \in Nat /\ Files \in Nat
  BY SessionAssumption
<1> HIDE DEF a
<1>2. PICK d \in Nat : Files = f + d
  <2>1. Files - f \in Nat /\ Files = f + (Files - f)
    BY <1>1
  <2>2. QED
    BY <2>1
<1>3. a * d \in Nat
  BY <1>1
<1>4. a * (f + d) = a * (f - 1) + a + a * d
  BY <1>1
<1>5. a * (f - 1) + a <= a * Files
  <2>1. a * (f - 1) \in Nat
    BY <1>1
  <2>2. QED
    BY <1>1, <1>2, <1>3, <1>4, <2>1
<1>6. QED
  BY <1>5 DEF FilePct, FullPct, a

LEMMA FilePctWithin ==
  ASSUME NEW f \in Nat \ {0}, f <= Files + 1
  PROVE  FilePct(f) <= FullPct
<1>1. CASE f <= Files
  BY <1>1, FilePctFits, FilePctNat, FullPctNat, SessionAssumption
<1>2. CASE f = Files + 1
  BY <1>2, SessionAssumption DEF FilePct, FullPct
<1>3. QED
  BY <1>1, <1>2, SessionAssumption

LEMMA BoundAt ==
  ASSUME NEW w
  PROVE  /\ w.pc \in {"bind", "file"} => BarBound(w) = FilePct(w.file)
         /\ w.pc \in {"branch", "build"} /\ w.bank = "ARVOG" => BarBound(w) = FilePct(w.file)
         /\ w.pc = "branch" /\ w.bank = "IDFC" =>
              BarBound(w) = FilePct(w.file) + (w.branch - 1) * BuildShare(w)
         /\ w.pc = "build" /\ w.bank = "IDFC" =>
              BarBound(w) = FilePct(w.file) + w.branch * BuildShare(w)
         /\ w.pc \in {"branch", "build"} /\ w.bank = "EQUITAS1" =>
              BarBound(w) = FilePct(w.file) + w.made * BuildShare(w)
         /\ w.pc \in {"branch", "build"} /\ w.bank = "EQUITAS2" /\ w.branch = 1 =>
              BarBound(w) = FilePct(w.file) + Branches * (IF w.pc = "branch" THEN 0 ELSE 20)
         /\ w.pc \in {"branch", "build"} /\ w.bank = "EQUITAS2" /\ w.branch = 2 =>
              BarBound(w) = FilePct(w.file) + Branches * 70
         /\ w.pc \in {"branch", "build"} /\ w.bank = "EQUITAS2" /\ w.branch \notin {1, 2} =>
              BarBound(w) = FilePct(w.file) + Branches * 100
         /\ w.pc = "pack" => BarBound(w) = FilePct(w.file) + BuildShare(w) * Branches
         /\ w.pc \in {"record", "complete", "summary", "except", "finally"} => BarBound(w) = FullPct
BY DEF BarBound

(* The share a file's branches get is at most all of it.                     *)
LEMMA ShareOf ==
  ASSUME NEW w
  PROVE  BuildShare(w) = 90 \/ BuildShare(w) = 100
BY DEF BuildShare

(* No place in a batch is beyond its end.                                    *)
LEMMA BoundWithin ==
  ASSUME NEW w \in WorkerType, KeepsCount(w), w.pc # "idle"
  PROVE  BarBound(w) <= FullPct
<1> DEFINE F == FilePct(w.file)
           B == Branches
<1>1. /\ w.file \in Nat \ {0} /\ w.branch \in Nat /\ w.made \in Nat
      /\ w.bank \in BankKinds /\ w.pc \in WorkerPcs
  BY DEF WorkerType
<1>2. F \in Nat /\ FullPct \in Nat /\ B \in Nat \ {0}
  BY <1>1, FilePctNat, FullPctNat, SessionAssumption
<1>3. F <= FullPct
  BY <1>1, FilePctWithin DEF KeepsCount
<1>4. w.file <= Files => F + 100 * B <= FullPct
  BY <1>1, FilePctFits
<1>5. BuildShare(w) = 90 \/ BuildShare(w) = 100
  BY ShareOf
<1> HIDE DEF F
<1>6. CASE w.pc \in {"bind", "file"}
  BY <1>3, <1>6, BoundAt DEF F
<1>7. CASE w.pc \in {"record", "complete", "summary", "except", "finally"}
  BY <1>2, <1>7, BoundAt
<1>8. CASE w.pc = "pack"
  <2>1. BarBound(w) = F + BuildShare(w) * B
    BY <1>8, BoundAt DEF F
  <2>2. w.file <= Files
    BY <1>8 DEF KeepsCount
  <2>3. QED
    BY <1>2, <1>4, <1>5, <2>1, <2>2
<1>9. CASE w.pc \in {"branch", "build"}
  <2>1. w.file <= Files /\ w.made < w.branch
    BY <1>9 DEF KeepsCount
  <2>2. CASE w.bank = "ARVOG"
    BY <1>3, <1>9, <2>2, BoundAt DEF F
  <2>3. CASE w.bank = "IDFC"
    <3>1. BarBound(w) = F + (IF w.pc = "branch" THEN w.branch - 1 ELSE w.branch) * BuildShare(w)
      BY <1>9, <2>3, BoundAt DEF F
    <3>2. (IF w.pc = "branch" THEN w.branch - 1 ELSE w.branch) <= B
      BY <1>1, <1>2, <1>9, <2>3 DEF KeepsCount, Steps
    <3> DEFINE k == IF w.pc = "branch" THEN w.branch - 1 ELSE w.branch
    <3>3. k \in Nat
      BY <1>1, <2>1
    <3> HIDE DEF k
    <3>4. QED
      BY <1>2, <1>4, <1>5, <2>1, <3>1, <3>2, <3>3 DEF k
  <2>4. CASE w.bank = "EQUITAS1"
    <3>1. BarBound(w) = F + w.made * BuildShare(w)
      BY <1>9, <2>4, BoundAt DEF F
    <3>2. w.made <= B
      BY <1>1, <1>2, <1>9, <2>1, <2>4 DEF KeepsCount, Steps
    <3>3. QED
      BY <1>1, <1>2, <1>4, <1>5, <2>1, <3>1, <3>2
  <2>5. CASE w.bank = "EQUITAS2"
    <3>1. PICK k \in {0, 20, 70, 100} : BarBound(w) = F + B * k
      BY <1>9, <2>5, BoundAt DEF F
    <3>2. QED
      BY <1>2, <1>4, <2>1, <3>1
  <2>6. QED
    BY <1>1, <2>2, <2>3, <2>4, <2>5 DEF BankKinds
<1>10. QED
  BY <1>1, <1>6, <1>7, <1>8, <1>9 DEF WorkerPcs

(* A worker's step raises the bar of its session, at most to where it leaves *)
(* the worker.                                                               *)
LEMMA BarWorker ==
  ASSUME SessionInv, WorkersKeepCount, BarFollowsBatch, NEW t \in Threads, Worker(t)
  PROVE  /\ \A q \in Sessions \ {wrk[t].user} : tracker'[q].pct = tracker[q].pct
         /\ tracker[wrk[t].user].pct <= tracker'[wrk[t].user].pct
         /\ wrk'[t].pc # "idle" => tracker'[wrk[t].user].pct <= BarBound(wrk'[t])
<1> DEFINE w == wrk[t]
           v == wrk'[t]
           s == w.user
           F == FilePct(w.file)
           B == Branches
           P == tracker[s].pct
           Others == \A q \in Sessions \ {s} : tracker'[q].pct = tracker[q].pct
           Rises == P <= tracker'[s].pct /\ tracker'[s].pct <= BarBound(v)
<1>1. TypeOK /\ w \in WorkerType /\ KeepsCount(w) /\ s \in Sessions
  BY HereInSessions DEF SessionInv, WorkersKeepCount
<1>2. /\ w.file \in Nat \ {0} /\ w.branch \in Nat /\ w.made \in Nat
      /\ w.bank \in BankKinds /\ w.pc \in WorkerPcs /\ w.zip \in BOOLEAN
  BY <1>1 DEF WorkerType
<1>3. F \in Nat /\ FullPct \in Nat /\ B \in Nat \ {0} /\ P \in Nat
  <2>1. P \in Nat
    BY <1>1 DEF TypeOK, InfoType
  <2>2. QED
    BY <1>2, <2>1, FilePctNat, FullPctNat, SessionAssumption
<1>4. w.pc # "idle"
  BY DEF Worker, Bind, FileStart, FileStop, BranchStart, BranchStop, Build, Skip, Pack,
     Record, Complete, Summarise, Raise, Except, Finally
<1>5. P <= BarBound(w) /\ P <= FullPct
  BY <1>1, <1>4 DEF BarFollowsBatch, Alive
<1>6. w.pc # "bind" => Here(t) = s
  BY DEF SessionInv, WorkersAreBound, Here
<1>7. BuildShare(w) = 90 \/ BuildShare(w) = 100
  BY ShareOf
<1>8. ASSUME NEW x \in Nat, ShowPct(t, x), w.pc # "bind", P <= x, x <= BarBound(v)
      PROVE  Others /\ Rises
  BY <1>1, <1>6, <1>8, ShowPctWrites
<1>9. ASSUME UNCHANGED tracker, P <= BarBound(v) PROVE Others /\ Rises
  BY <1>3, <1>9
<1>10. w.pc # "bind" => tracker[w.local].pct = P
  BY DEF SessionInv, WorkersAreBound
<1> HIDE DEF F, P
<1>11. CASE Bind(t)
  <2>1. Left(v, w, "file", w.file, w.branch, w.made, w.stopped, w.late) /\ w.pc = "bind"
    BY <1>1, <1>11, WorkerLeaves DEF Bind
  <2>2. BarBound(v) = F /\ BarBound(w) = F
    BY <2>1, BoundAt DEF Left, F
  <2>3. QED
    BY <1>5, <1>9, <1>11, <2>2 DEF Bind, P
<1>12. CASE FileStart(t)
  <2>1. Left(v, w, "branch", w.file, 1, 0, w.stopped, w.late) /\ w.pc = "file"
    BY <1>1, <1>12, WorkerLeaves DEF FileStart
  <2>2. BarBound(w) = F
    BY <2>1, BoundAt DEF F
  <2>3. v.pc = "branch" /\ v.file = w.file /\ v.branch = 1 /\ v.made = 0 /\ v.bank \in BankKinds
    BY <1>2, <2>1 DEF Left
  <2>4. BarBound(v) = F
    <3>1. BuildShare(v) = 90 \/ BuildShare(v) = 100
      BY ShareOf
    <3>2. CASE v.bank = "IDFC"
      BY <1>3, <2>3, <3>1, <3>2, BoundAt DEF F
    <3>3. CASE v.bank = "EQUITAS1"
      BY <1>3, <2>3, <3>1, <3>3, BoundAt DEF F
    <3>4. CASE v.bank = "EQUITAS2"
      BY <1>3, <2>3, <3>4, BoundAt DEF F
    <3>5. CASE v.bank = "ARVOG"
      BY <2>3, <3>5, BoundAt DEF F
    <3>6. QED
      BY <2>3, <3>2, <3>3, <3>4, <3>5 DEF BankKinds
  <2>5. QED
    BY <1>3, <1>5, <1>8, <1>12, <2>1, <2>2, <2>4 DEF FileStart, F, P
<1>13. CASE BranchStart(t)
  <2>1. Left(v, w, "build", w.file, w.branch, w.made, w.stopped, w.late) /\ w.pc = "branch"
    BY <1>1, <1>13, WorkerLeaves DEF BranchStart
  <2>2. v.pc = "build" /\ v.file = w.file /\ v.branch = w.branch /\ v.made = w.made
        /\ v.bank = w.bank /\ BuildShare(v) = BuildShare(w)
    BY <2>1 DEF Left, BuildShare
  <2>3. ShowPct(t, PctBeforeBuild(w)) /\ w.branch <= Steps(w.bank) /\ w.made < w.branch
    BY <1>1, <1>13 DEF BranchStart, KeepsCount
  <2>4. /\ PctBeforeBuild(w) \in Nat
        /\ P <= PctBeforeBuild(w) /\ PctBeforeBuild(w) <= BarBound(v)
    <3>1. CASE w.bank = "IDFC"
      <4>1. PctBeforeBuild(w) = F + w.branch * BuildShare(w)
        BY <3>1 DEF PctBeforeBuild, F
      <4>2. BarBound(w) = F + (w.branch - 1) * BuildShare(w)
            /\ BarBound(v) = F + w.branch * BuildShare(w)
        BY <2>1, <2>2, <3>1, BoundAt DEF F
      <4>3. w.branch - 1 \in Nat
        BY <1>2, <2>3
      <4>4. QED
        BY <1>2, <1>3, <1>5, <1>7, <4>1, <4>2, <4>3 DEF P
    <3>2. CASE w.bank = "EQUITAS1"
      <4>1. PctBeforeBuild(w) = P
        BY <1>10, <2>1, <3>2 DEF PctBeforeBuild
      <4>2. BarBound(w) = F + w.made * BuildShare(w) /\ BarBound(v) = F + w.made * BuildShare(w)
        BY <2>1, <2>2, <3>2, BoundAt DEF F
      <4>3. QED
        BY <1>3, <1>5, <4>1, <4>2 DEF P
    <3>3. CASE w.bank = "EQUITAS2"
      <4>1. w.branch \in {1, 2}
        BY <1>2, <2>3, <3>3 DEF Steps
      <4>2. CASE w.branch = 1
        <5>1. PctBeforeBuild(w) = F + 20 * Branches
          BY <3>3, <4>2 DEF PctBeforeBuild, F
        <5>2. BarBound(w) = F + Branches * 0 /\ BarBound(v) = F + Branches * 20
          BY <2>1, <2>2, <3>3, <4>2, BoundAt DEF F
        <5>3. QED
          BY <1>3, <1>5, <5>1, <5>2 DEF P
      <4>3. CASE w.branch = 2
        <5>1. PctBeforeBuild(w) = P
          BY <1>10, <2>1, <3>3, <4>3 DEF PctBeforeBuild
        <5>2. BarBound(w) = F + Branches * 70 /\ BarBound(v) = F + Branches * 70
          BY <2>1, <2>2, <3>3, <4>3, BoundAt DEF F
        <5>3. QED
          BY <1>3, <1>5, <5>1, <5>2 DEF P
      <4>4. QED
        BY <4>1, <4>2, <4>3
    <3>4. CASE w.bank = "ARVOG"
      <4>1. PctBeforeBuild(w) = P
        BY <1>10, <2>1, <3>4 DEF PctBeforeBuild
      <4>2. BarBound(w) = F /\ BarBound(v) = F
        BY <2>1, <2>2, <3>4, BoundAt DEF F
      <4>3. QED
        BY <1>3, <1>5, <4>1, <4>2 DEF P
    <3>5. QED
      BY <1>2, <3>1, <3>2, <3>3, <3>4 DEF BankKinds
  <2>5. QED
    BY <1>8, <2>1, <2>3, <2>4 DEF P
<1>14. CASE BranchStop(t)
  <2>1. w.pc = "branch" /\ UNCHANGED tracker
        /\ Left(v, w, "pack", w.file, w.branch, w.made, w.stopped \/ w.branch <= Steps(w.bank), w.late)
    BY <1>1, <1>14, WorkerLeaves DEF BranchStop
  <2>2. v.pc = "pack" /\ v.file = w.file /\ BuildShare(v) = BuildShare(w)
    BY <2>1 DEF Left, BuildShare
  <2>3. BarBound(v) = F + BuildShare(w) * B
    BY <2>2, BoundAt DEF F
  <2>4. w.made < w.branch /\ w.branch <= Steps(w.bank) + 1
    BY <1>1, <2>1 DEF KeepsCount
  <2>5. BarBound(w) <= F + BuildShare(w) * B
    <3>1. CASE w.bank = "IDFC"
      <4>1. BarBound(w) = F + (w.branch - 1) * BuildShare(w)
        BY <2>1, <3>1, BoundAt DEF F
      <4>2. w.branch - 1 \in Nat /\ w.branch - 1 <= B
        BY <1>2, <1>3, <2>4, <3>1 DEF Steps
      <4>3. QED
        BY <1>3, <1>7, <4>1, <4>2
    <3>2. CASE w.bank = "EQUITAS1"
      <4>1. BarBound(w) = F + w.made * BuildShare(w)
        BY <2>1, <3>2, BoundAt DEF F
      <4>2. w.made <= B
        BY <1>2, <1>3, <2>4, <3>2 DEF Steps
      <4>3. QED
        BY <1>2, <1>3, <1>7, <4>1, <4>2
    <3>3. CASE w.bank = "EQUITAS2"
      <4>1. BuildShare(w) = 100
        BY <3>3 DEF BuildShare
      <4>2. PICK k \in {0, 70, 100} : BarBound(w) = F + B * k
        BY <2>1, <3>3, BoundAt DEF F
      <4>3. QED
        BY <1>3, <4>1, <4>2
    <3>4. CASE w.bank = "ARVOG"
      <4>1. BarBound(w) = F
        BY <2>1, <3>4, BoundAt DEF F
      <4>2. QED
        BY <1>3, <1>7, <4>1
    <3>5. QED
      BY <1>2, <3>1, <3>2, <3>3, <3>4 DEF BankKinds
  <2>6. P <= BarBound(v)
    <3>1. BarBound(w) \in Nat
      BY <1>2, <1>3, <1>7, <2>1, <2>4, BoundAt DEF F, BankKinds
    <3>2. QED
      BY <1>3, <1>5, <1>7, <2>3, <2>5, <3>1 DEF P
  <2>7. QED
    BY <1>9, <2>1, <2>6 DEF P
<1>15. CASE Build(t)
  <2>1. w.pc = "build" /\ Left(v, w, "branch", w.file, w.branch + 1, w.made + 1, w.stopped,
                               IF w.asked THEN w.late + 1 ELSE w.late)
    BY <1>1, <1>15, WorkerLeaves DEF Build
  <2>2. v.pc = "branch" /\ v.file = w.file /\ v.branch = w.branch + 1 /\ v.made = w.made + 1
        /\ v.bank = w.bank /\ BuildShare(v) = BuildShare(w)
    BY <2>1 DEF Left, BuildShare
  <2>3. ShowPct(t, PctAfterBuild(w)) /\ w.branch <= Steps(w.bank) /\ w.made < w.branch
    BY <1>1, <1>15, <2>1 DEF Build, KeepsCount
  <2>4. /\ PctAfterBuild(w) \in Nat
        /\ P <= PctAfterBuild(w) /\ PctAfterBuild(w) <= BarBound(v)
    <3>1. CASE w.bank = "IDFC"
      <4>1. PctAfterBuild(w) = P
        BY <1>10, <2>1, <3>1 DEF PctAfterBuild
      <4>2. BarBound(w) = F + w.branch * BuildShare(w)
            /\ BarBound(v) = F + ((w.branch + 1) - 1) * BuildShare(w)
        BY <2>1, <2>2, <3>1, BoundAt DEF F
      <4>3. (w.branch + 1) - 1 = w.branch
        BY <1>2
      <4>4. QED
        BY <1>2, <1>3, <1>5, <1>7, <4>1, <4>2, <4>3 DEF P
    <3>2. CASE w.bank = "EQUITAS1"
      <4>1. PctAfterBuild(w) = F + (w.made + 1) * BuildShare(w)
        BY <3>2 DEF PctAfterBuild, F
      <4>2. BarBound(w) = F + w.made * BuildShare(w) /\ BarBound(v) = F + (w.made + 1) * BuildShare(w)
        BY <2>1, <2>2, <3>2, BoundAt DEF F
      <4>3. QED
        BY <1>2, <1>3, <1>5, <1>7, <4>1, <4>2 DEF P
    <3>3. CASE w.bank = "EQUITAS2"
      <4>1. w.branch \in {1, 2}
        BY <1>2, <2>3, <3>3 DEF Steps
      <4>2. CASE w.branch = 1
        <5>1. PctAfterBuild(w) = F + 70 * Branches
          BY <3>3, <4>2 DEF PctAfterBuild, F
        <5>2. BarBound(w) = F + Branches * 20 /\ BarBound(v) = F + Branches * 70
          BY <2>1, <2>2, <3>3, <4>2, BoundAt DEF F
        <5>3. QED
          BY <1>3, <1>5, <5>1, <5>2 DEF P
      <4>3. CASE w.branch = 2
        <5>1. PctAfterBuild(w) = F + 100 * Branches
          BY <3>3, <4>3 DEF PctAfterBuild, F
        <5>2. BarBound(w) = F + Branches * 70 /\ BarBound(v) = F + Branches * 100
          BY <2>1, <2>2, <3>3, <4>3, BoundAt DEF F
        <5>3. QED
          BY <1>3, <1>5, <5>1, <5>2 DEF P
      <4>4. QED
        BY <4>1, <4>2, <4>3
    <3>4. CASE w.bank = "ARVOG"
      <4>1. PctAfterBuild(w) = P
        BY <1>10, <2>1, <3>4 DEF PctAfterBuild
      <4>2. BarBound(w) = F /\ BarBound(v) = F
        BY <2>1, <2>2, <3>4, BoundAt DEF F
      <4>3. QED
        BY <1>3, <1>5, <4>1, <4>2 DEF P
    <3>5. QED
      BY <1>2, <3>1, <3>2, <3>3, <3>4 DEF BankKinds
  <2>5. QED
    BY <1>8, <2>1, <2>3, <2>4 DEF P
<1>16. CASE Skip(t)
  <2>1. w.pc = "build" /\ w.bank = "EQUITAS1" /\ UNCHANGED tracker
        /\ Left(v, w, "branch", w.file, w.branch + 1, w.made, w.stopped, w.late)
    BY <1>1, <1>16, WorkerLeaves DEF Skip
  <2>2. v.pc = "branch" /\ v.file = w.file /\ v.made = w.made /\ v.bank = w.bank
        /\ BuildShare(v) = BuildShare(w)
    BY <2>1 DEF Left, BuildShare
  <2>3. BarBound(v) = BarBound(w)
    BY <2>1, <2>2, BoundAt
  <2>4. QED
    BY <1>5, <1>9, <2>1, <2>3 DEF P
<1>17. CASE Pack(t)
  <2>1. w.pc = "pack" /\ Left(v, w, "file", w.file + 1, w.branch, w.made, w.stopped, w.late)
    BY <1>1, <1>17, WorkerLeaves DEF Pack
  <2>2. BarBound(v) = F + 100 * B /\ BarBound(w) = F + BuildShare(w) * B
    <3>1. v.pc = "file" /\ v.file = w.file + 1
      BY <2>1 DEF Left
    <3>2. QED
      BY <1>2, <2>1, <3>1, BoundAt, FilePctNext DEF F
  <2>3. P <= F + BuildShare(w) * B /\ P <= BarBound(v)
    BY <1>3, <1>5, <1>7, <2>2 DEF P
  <2>4. CASE UNCHANGED tracker
    BY <1>9, <2>3, <2>4 DEF P
  <2>5. CASE w.zip /\ w.bank = "EQUITAS1" /\ \E p \in {92, 96} : ShowPct(t, F + p * B)
    <3>1. PICK p \in {92, 96} : ShowPct(t, F + p * B)
      BY <2>5
    <3>2. BuildShare(w) = 90
      BY <2>5 DEF BuildShare
    <3>3. F + p * B \in Nat /\ P <= F + p * B /\ F + p * B <= BarBound(v)
      BY <1>3, <2>2, <2>3, <3>2
    <3>4. QED
      BY <1>8, <2>1, <3>1, <3>3 DEF P
  <2>6. QED
    BY <1>17, <2>4, <2>5 DEF Pack, F
<1>18. CASE FileStop(t) \/ Record(t) \/ Raise(t)
  <2>1. UNCHANGED tracker
    BY <1>18 DEF FileStop, Record, Raise
  <2>2. v.pc \in {"record", "complete", "except"}
    BY <1>1, <1>18, WorkerLeaves DEF Left
  <2>3. BarBound(v) = FullPct
    BY <2>2, BoundAt
  <2>4. QED
    BY <1>5, <1>9, <2>1, <2>3 DEF P
<1>19. CASE Complete(t)
  <2>1. v.pc = "summary" /\ w.pc = "complete" /\ ShowPct(t, FullPct)
    BY <1>1, <1>19, WorkerLeaves DEF Complete, Left
  <2>2. BarBound(v) = FullPct
    BY <2>1, BoundAt
  <2>3. QED
    BY <1>3, <1>5, <1>8, <2>1, <2>2 DEF P
<1>20. CASE Summarise(t) \/ Except(t)
  <2>1. v.pc = "finally"
    BY <1>1, <1>20, WorkerLeaves DEF Left
  <2>2. PICK o : SayOutcome(t, o)
    BY <1>20 DEF Summarise, Except
  <2>3. \A q \in Sessions : tracker'[q].pct = tracker[q].pct
    BY <1>1, <2>2, SayOutcomeWrites
  <2>4. BarBound(v) = FullPct
    BY <2>1, BoundAt
  <2>5. QED
    BY <1>1, <1>3, <1>5, <2>3, <2>4 DEF P
<1>21. CASE Finally(t)
  <2>1. \A q \in Sessions : tracker'[q].pct = tracker[q].pct
    BY <1>1, <1>21, LowerFlagWrites DEF Finally
  <2>2. v.pc = "idle"
    BY <1>1, <1>21, WorkerLeaves DEF NoWorker
  <2>3. QED
    BY <1>1, <1>3, <2>1, <2>2 DEF P
<1>22. QED
  BY <1>11, <1>12, <1>13, <1>14, <1>15, <1>16, <1>17, <1>18, <1>19, <1>20, <1>21 DEF Worker, P

LEMMA BoundNat ==
  ASSUME NEW w \in WorkerType, KeepsCount(w), w.pc # "idle"
  PROVE  BarBound(w) \in Nat
<1>1. /\ w.file \in Nat \ {0} /\ w.branch \in Nat /\ w.made \in Nat
      /\ w.bank \in BankKinds /\ w.pc \in WorkerPcs
  BY DEF WorkerType
<1>2. FilePct(w.file) \in Nat /\ FullPct \in Nat /\ Branches \in Nat /\ BuildShare(w) \in {90, 100}
  BY <1>1, FilePctNat, FullPctNat, ShareOf, SessionAssumption
<1>3. w.pc \in {"branch", "build"} => w.branch - 1 \in Nat
  BY <1>1 DEF KeepsCount
<1>4. CASE w.pc \in {"branch", "build"} /\ w.bank # "EQUITAS2"
  BY <1>1, <1>2, <1>3, <1>4, BoundAt DEF BankKinds
<1>5. CASE w.pc \in {"branch", "build"} /\ w.bank = "EQUITAS2"
  BY <1>1, <1>2, <1>5, BoundAt
<1>6. CASE w.pc \notin {"branch", "build"}
  BY <1>1, <1>2, <1>6, BoundAt DEF WorkerPcs
<1>7. QED
  BY <1>4, <1>5, <1>6

LEMMA BoundAsked ==
  ASSUME NEW w \in WorkerType, NEW v, Asked(v, w)
  PROVE  BarBound(v) = BarBound(w) /\ v.user = w.user
BY DEF Asked, Left, WorkerType, BarBound, BuildShare

LEMMA BarInit == Init => BarFollowsBatch
<1> SUFFICES ASSUME Init PROVE BarFollowsBatch
  OBVIOUS
<1>1. \A s \in Sessions : tracker[s].pct = 0
  BY DEF Init, Idle, Fresh
<1>2. \A h \in Handlers : hnd[h].pc = "idle"
  BY DEF Init, NoHandler
<1>3. \A t \in Threads : wrk[t].pc = "idle"
  BY DEF Init, NoWorker
<1>4. QED
  BY <1>1, <1>2, <1>3, FullPctNat DEF BarFollowsBatch, Alive

LEMMA BarHandler ==
  ASSUME SessionInv, BarFollowsBatch, Serial, NEW h \in Handlers, Handler(h)
  PROVE  BarFollowsBatch' /\ \A s \in Sessions : runs'[s] = runs[s] => tracker'[s].pct = tracker[s].pct
<1> DEFINE Same == \A s \in Sessions : runs'[s] = runs[s] => tracker'[s].pct = tracker[s].pct
<1> USE DEF Alive
<1>1. TypeOK /\ \A t \in Threads : wrk[t] \in WorkerType /\ wrk[t].user \in Sessions
  BY HereInSessions DEF SessionInv
<1>2. /\ DOMAIN hnd = Handlers /\ DOMAIN tracker = Sessions /\ DOMAIN runs = Sessions
      /\ hnd[h] \in HandlerType /\ hnd[h].user \in Sessions
      /\ \A s \in Sessions : runs[s] \in Nat
      /\ \A k \in Handlers : k = h
  BY <1>1 DEF TypeOK, HandlerType, Serial
<1>3. ASSUME NEW s \in Requesters, RunRequest(h, s) PROVE BarFollowsBatch' /\ Same
  <2>1. hnd'[h].pc = "clear" /\ wrk' = wrk /\ tracker' = tracker
    BY <1>2, <1>3 DEF RunRequest
  <2>2. QED
    BY <1>2, <2>1 DEF BarFollowsBatch, FullPct, BarBound, BuildShare, FilePct
<1>4. ASSUME NEW s \in Requesters, CancelSet(h, s) PROVE BarFollowsBatch' /\ Same
  <2>1. hnd'[h].pc = "mark" /\ tracker' = tracker
    BY <1>2, <1>4 DEF CancelSet
  <2>2. ASSUME NEW t \in Threads, wrk'[t].pc # "idle"
        PROVE  tracker'[wrk'[t].user].pct <= BarBound(wrk'[t])
    <3>1. CASE wrk'[t] = wrk[t]
      BY <2>1, <2>2, <3>1 DEF BarFollowsBatch
    <3>2. CASE wrk[t].pc # "idle" /\ wrk'[t] = [wrk[t] EXCEPT !.asked = TRUE]
      <4>1. BarBound(wrk'[t]) = BarBound(wrk[t]) /\ wrk'[t].user = wrk[t].user
        BY <1>1, <3>2, AskedBy, BoundAsked
      <4>2. QED
        BY <2>1, <3>2, <4>1 DEF BarFollowsBatch
    <3>3. QED
      BY <1>4, <3>1, <3>2 DEF CancelSet
  <2>3. QED
    BY <1>2, <2>1, <2>2 DEF BarFollowsBatch
<1>5. CASE RunClear(h)
  <2>1. hnd'[h].pc = "reset" /\ wrk' = wrk /\ tracker' = tracker
    BY <1>2, <1>5 DEF RunClear, HandlerType
  <2>2. QED
    BY <1>2, <2>1 DEF BarFollowsBatch
<1>6. CASE RunReset(h)
  <2> DEFINE s == hnd[h].user
  <2>1. /\ hnd[h].pc = "reset" /\ hnd'[h].user = s /\ wrk' = wrk
        /\ tracker'[s] = Fresh /\ runs'[s] = runs[s] + 1
        /\ \A q \in Sessions \ {s} : tracker'[q] = tracker[q]
    BY <1>2, <1>6 DEF RunReset, HandlerType
  <2>2. Fresh.pct = 0
    BY DEF Fresh
  <2>3. \A t \in Threads : wrk[t].pc # "idle" => wrk[t].user # s
    BY <2>1 DEF SessionInv, HandlersOwnTheirSession, WorkersOwnTheirSession
  <2>4. BarFollowsBatch'
    BY <1>1, <1>2, <2>1, <2>2, <2>3, FullPctNat DEF BarFollowsBatch
  <2>5. Same
    BY <1>2, <2>1
  <2>6. QED
    BY <2>4, <2>5
<1>7. ASSUME NEW t \in Threads, RunSpawn(h, t) PROVE BarFollowsBatch' /\ Same
  <2>1. hnd[h].pc = "spawn" /\ hnd'[h].pc = "idle" /\ tracker' = tracker
    BY <1>2, <1>7 DEF RunSpawn, NoHandler
  <2>2. wrk'[t].pc = "bind" /\ wrk'[t].user = hnd[h].user /\ wrk'[t].file = 1
    BY <1>1, <1>7, SpawnLeaves DEF NewRun
  <2>3. \A u \in Threads \ {t} : wrk'[u] = wrk[u]
    BY <1>1, <1>7, BecomeOnly DEF RunSpawn
  <2>4. BarBound(wrk'[t]) = 0
    BY <2>2, BoundAt, FilePctFirst
  <2>5. tracker'[wrk'[t].user].pct = 0
    BY <2>1, <2>2 DEF BarFollowsBatch
  <2>6. QED
    BY <1>2, <2>1, <2>3, <2>4, <2>5 DEF BarFollowsBatch
<1>8. CASE RunRaise(h) \/ CancelMark(h)
  <2>1. hnd'[h].pc = "idle" /\ wrk' = wrk
    BY <1>2, <1>8 DEF RunRaise, CancelMark, NoHandler
  <2>2. \A s \in Sessions : tracker'[s].pct = tracker[s].pct
    BY <1>1, <1>8, CancelMarkWrites DEF RunRaise
  <2>3. QED
    BY <1>1, <1>2, <2>1, <2>2 DEF BarFollowsBatch
<1>9. QED
  BY <1>3, <1>4, <1>5, <1>6, <1>7, <1>8 DEF Handler

LEMMA BarStep ==
  ASSUME SessionInv, WorkersKeepCount, BarFollowsBatch, Serial, [Next]_vars
  PROVE  /\ BarFollowsBatch'
         /\ \A s \in Sessions : runs'[s] = runs[s] =>
              /\ tracker'[s].pct >= tracker[s].pct
              /\ tracker'[s].pct <= FullPct
<1> DEFINE Rises == \A s \in Sessions : runs'[s] = runs[s] => tracker'[s].pct >= tracker[s].pct
<1>1. TypeOK /\ TypeOK' /\ WorkersKeepCount' /\ FullPct \in Nat
  BY TypeStep, CountStep, FullPctNat DEF SessionInv
<1>2. \A s \in Sessions : tracker[s].pct \in Nat /\ tracker'[s].pct \in Nat
  BY <1>1 DEF TypeOK, InfoType
<1>3. ASSUME NEW h \in Handlers, Handler(h) PROVE BarFollowsBatch' /\ Rises
  BY <1>2, <1>3, BarHandler
<1>4. ASSUME NEW t \in Threads, Worker(t) PROVE BarFollowsBatch' /\ Rises
  <2> DEFINE s == wrk[t].user
  <2>1. /\ \A q \in Sessions \ {s} : tracker'[q].pct = tracker[q].pct
        /\ tracker[s].pct <= tracker'[s].pct
        /\ wrk'[t].pc # "idle" => tracker'[s].pct <= BarBound(wrk'[t])
    BY <1>4, BarWorker
  <2>2. \A u \in Threads \ {t} : wrk'[u] = wrk[u]
    BY <1>1, <1>4, OthersLeft
  <2>3. Finally(t) \/ (wrk'[t].pc # "idle" /\ wrk'[t].user = s)
    <3>1. CASE Middle(t)
      BY <1>1, <3>1, MiddleStep
    <3>2. CASE Summarise(t) \/ Except(t)
      BY <1>1, <3>2, OutcomeStep
    <3>3. QED
      BY <1>4, <3>1, <3>2 DEF Worker, Middle
  <2>4. wrk[t].pc # "idle" /\ hnd' = hnd /\ s \in Sessions
    BY <1>1, <1>4, HereInSessions DEF Worker, Bind, FileStart, FileStop, BranchStart, BranchStop,
       Build, Skip, Pack, Record, Complete, Summarise, Raise, Except, Finally
  <2>5. tracker'[s].pct <= FullPct
    <3>1. CASE Finally(t)
      <4>1. tracker'[s].pct = tracker[s].pct
        BY <1>1, <2>4, <3>1, LowerFlagWrites DEF Finally
      <4>2. QED
        BY <2>4, <4>1 DEF BarFollowsBatch
    <3>2. CASE wrk'[t].pc # "idle"
      <4>1. wrk'[t] \in WorkerType /\ KeepsCount(wrk'[t])
        BY <1>1 DEF TypeOK, WorkersKeepCount
      <4>2. BarBound(wrk'[t]) <= FullPct
        BY <3>2, <4>1, BoundWithin
      <4>3. BarBound(wrk'[t]) \in Nat
        BY <3>2, <4>1, BoundNat
      <4>4. QED
        <5> DEFINE p == tracker'[s].pct
                   b == BarBound(wrk'[t])
        <5>1. p \in Nat /\ b \in Nat /\ FullPct \in Nat /\ p <= b /\ b <= FullPct
          BY <1>1, <1>2, <2>1, <2>4, <3>2, <4>2, <4>3
        <5> HIDE DEF p, b
        <5>2. p <= FullPct
          BY <5>1
        <5>3. QED
          BY <5>2 DEF p
    <3>3. QED
      BY <2>3, <3>1, <3>2
  <2>6. \A q \in Sessions : tracker'[q].pct <= FullPct
    BY <2>1, <2>5 DEF BarFollowsBatch
  <2>7. ASSUME NEW h \in Handlers, hnd'[h].pc = "spawn" PROVE tracker'[hnd'[h].user].pct = 0
    <3>1. hnd[h].user \in Sessions /\ hnd[h].user # s
      BY <1>1, <2>4, <2>7 DEF SessionInv, HandlersOwnTheirSession, InFlight, Alive, TypeOK, HandlerType
    <3>2. QED
      BY <2>1, <2>4, <2>7, <3>1 DEF BarFollowsBatch
  <2>8. ASSUME NEW u \in Threads, wrk'[u].pc # "idle"
        PROVE  tracker'[wrk'[u].user].pct <= BarBound(wrk'[u])
    <3>1. CASE u = t
      <4>1. ~Finally(t)
        <5>1. Finally(t) => wrk'[t] = NoWorker
          BY <1>1, FinallyStep
        <5>2. NoWorker.pc = "idle"
          BY DEF NoWorker
        <5>3. QED
          BY <2>8, <3>1, <5>1, <5>2
      <4>2. QED
        BY <2>1, <2>3, <2>8, <3>1, <4>1
    <3>2. CASE u # t
      <4>1. wrk'[u] = wrk[u] /\ wrk[u].user \in Sessions /\ wrk[u].user # s
        BY <1>1, <2>2, <2>4, <2>8, <3>2, HereInSessions DEF SessionInv, OneWorkerPerSession, Alive
      <4>2. QED
        BY <2>1, <2>8, <4>1 DEF BarFollowsBatch, Alive
    <3>3. QED
      BY <3>1, <3>2
  <2>9. BarFollowsBatch'
    <3>1. FullPct' = FullPct /\ \A w : BarBound(w)' = BarBound(w)
      BY DEF FullPct, BarBound, FilePct, BuildShare
    <3>2. QED
      BY <2>6, <2>7, <2>8, <3>1, Zenon DEF BarFollowsBatch, Alive
  <2>10. Rises
    BY <1>2, <2>1, <2>4
  <2>11. QED
    BY <2>9, <2>10
<1>5. ASSUME UNCHANGED vars PROVE BarFollowsBatch' /\ Rises
  <2>1. BarFollowsBatch'
    <3>1. hnd' = hnd /\ wrk' = wrk /\ tracker' = tracker
      BY <1>5 DEF vars
    <3>2. QED
      BY <3>1 DEF BarFollowsBatch, Alive, FullPct, BarBound, BuildShare, FilePct
  <2>2. tracker' = tracker
    BY <1>5 DEF vars
  <2>3. \A s \in Sessions : tracker'[s].pct >= tracker[s].pct
    BY <1>2, <2>2
  <2>4. QED
    BY <2>1, <2>3
<1>6. BarFollowsBatch' /\ Rises
  BY <1>3, <1>4, <1>5 DEF Next
<1>7. \A s \in Sessions : tracker'[s].pct <= FullPct
  BY <1>6 DEF BarFollowsBatch, FullPct
<1>8. QED
  BY <1>6, <1>7

-----------------------------------------------------------------------------
(* With one request served at a time: all of it.                             *)
LEMMA JobStep == ASSUME JobInv, Serial, [Next]_vars PROVE JobInv'
<1> USE DEF JobInv
<1>1. SessionInv'
  BY InvStep
<1>2. WorkersKeepCount'
  BY CountStep DEF SessionInv
<1>3. EventsFollowRuns'
  BY EventsStep
<1>4. LateBuildsAreFew'
  BY LateStep
<1>5. RowsComeFirst' /\ SuccessIsRecorded'
  BY RowsStep DEF RowsInv, SessionInv
<1>6. BarFollowsBatch'
  BY BarStep
<1>7. QED
  BY <1>1, <1>2, <1>3, <1>4, <1>5, <1>6

(* With one request served at a time, a cancel event is up exactly when the    *)
(* run under way was asked to stop, a row comes before the summary it belongs *)
(* to, and the bar is never beyond the place its worker is at in its batch.   *)
THEOREM JobInvariant == ASSUME Serial PROVE Spec => []JobInv
<1>1. Init => JobInv
  BY InvInit, CountInit, EventsInit, RowsInit, BarInit DEF JobInv
<1>2. JobInv /\ [Next]_vars => JobInv'
  BY JobStep
<1>3. QED
  BY <1>1, <1>2, PTL DEF Spec

(* A run that stops early was asked to stop while it was running.             *)
THEOREM CancelsAreFresh == ASSUME Serial PROVE Spec => []NoStaleCancel
<1>1. JobInv => NoStaleCancel
  BY DEF JobInv, LateBuildsAreFew, LateIsBounded, NoStaleCancel
<1>2. QED
  BY <1>1, JobInvariant, PTL

(* A cancelled run finishes the branch it is in, or, for the Arvog worker,    *)
(* the workbook it is in, however many branches and workbooks there are.     *)
THEOREM CancelStops == ASSUME Serial PROVE Spec => []CancelStopsTheRun
<1>1. JobInv => CancelStopsTheRun
  BY DEF JobInv, LateBuildsAreFew, LateIsBounded, CancelStopsTheRun
<1>2. QED
  BY <1>1, JobInvariant, PTL

(* Within one run the bar never goes back and never passes the end, for every *)
(* bank, any number of workbooks and any number of branches.                 *)
THEOREM BarIsMonotone == ASSUME Serial PROVE Spec => ProgressIsMonotone
<1> DEFINE Monotone == \A s \in Sessions : runs'[s] = runs[s] =>
                         /\ tracker'[s].pct >= tracker[s].pct
                         /\ tracker'[s].pct <= FullPct
<1>1. JobInv /\ [Next]_vars => Monotone
  BY BarStep DEF JobInv
<1>2. QED
  BY <1>1, JobInvariant, PTL DEF Spec, ProgressIsMonotone

=============================================================================
