------------------------------- MODULE Updater -------------------------------
(***************************************************************************)
(* The self-update of the desktop program (updater/client.py and the       *)
(* update handlers of web/handlers.py), as built for Linux: the checker    *)
(* thread that looks for a release every hour and installs it, the page's  *)
(* buttons, and the program's file and its backup on disk.                 *)
(*                                                                         *)
(* Versions are numbers; 0 is the one installed at first, and stands for   *)
(* an empty string in the update state.  A file is an inode, as a renamed  *)
(* file is still written by the thread that has it open.                   *)
(***************************************************************************)
EXTENDS Naturals, FiniteSets

CONSTANTS
  MaxRelease,   (* bound: releases published *)
  MaxFaults,    (* bound: failing requests, checks and copies *)
  MaxQuits,     (* bound: times the program is closed or restarted *)
  Apart         (* the user presses nothing while the checker is at work, and conversely *)

ASSUME UpdaterAssumption ==
  MaxRelease \in Nat /\ MaxFaults \in Nat /\ MaxQuits \in Nat /\ Apart \in BOOLEAN

Versions == 0..MaxRelease
Threads == {"bg", "page", "btn"}   (* the checker, a check of the page, the install button *)
Installers == {"bg", "btn"}
Inodes == 1..4                     (* the two names and a file open in each installer *)
NoFile == 0
Down == MaxRelease + 1             (* no program runs *)
Part == MaxRelease + 1             (* an inode half written, *)
Junk == MaxRelease + 2             (* or written by two copies at once *)

VARIABLES
  published,  (* the newest release *)
  running,    (* the version that runs, or Down *)
  us,         (* update_state *)
  pc,         (* where each thread is *)
  loc,        (* what each thread has read: see NoLocals *)
  exe,        (* the inode of sys.executable, or NoFile *)
  bak,        (* the inode of its .bak *)
  disk,       (* what each inode holds: a version, Part or Junk *)
  faults, quits,
  spoiled     (* history: "no" copy has failed, one "failed", a swap "retried" since *)

files == <<exe, bak, disk, spoiled>>
world == <<published, running, quits>>
vars == <<published, running, us, pc, loc, exe, bak, disk, faults, quits, spoiled>>

FreshState == [latest |-> 0, url |-> 0, sha |-> 0, downloading |-> FALSE,
               success |-> FALSE, preflight |-> FALSE, staged |-> 0, fresh |-> "no"]
NoLocals == [tag |-> 0, ok |-> FALSE, version |-> 0, sum |-> 0, pkg |-> 0, fd |-> NoFile]
Rest == [t \in Threads |-> IF t = "bg" THEN "wait" ELSE "idle"]
Resting(t) == pc[t] = Rest[t]

Init ==
  /\ published = 0 /\ running = 0
  /\ us = FreshState
  /\ pc = Rest
  /\ loc = [t \in Threads |-> NoLocals]
  /\ exe = 1 /\ bak = NoFile
  /\ disk = [i \in Inodes |-> 0]
  /\ faults = 0 /\ quits = 0
  /\ spoiled = "no"

Up == running # Down
Whole(i) == i # NoFile /\ disk[i] \in Versions
Fault == faults < MaxFaults /\ faults' = faults + 1
NoFault == UNCHANGED faults

(* Thread t, at a, goes to b and sets its locals. *)
Goes(t, a, b, l) ==
  /\ Up /\ pc[t] = a
  /\ pc' = [pc EXCEPT ![t] = b]
  /\ loc' = [loc EXCEPT ![t] = l]
  /\ Apart /\ Resting(t) => \A u \in Threads : Resting(u)

-----------------------------------------------------------------------------
(* check_latest_release, in the checker and in the page's forced check. *)
AfterCheck(t) == IF t = "bg" THEN "decide" ELSE "idle"

CloseState(t, ok) == us' = [us EXCEPT !.preflight = ok, !.fresh = t]

(* The release feed cannot be read, or has nothing newer. *)
NothingFound(t) ==
  /\ Goes(t, "look", AfterCheck(t), loc[t])
  /\ IF published = running THEN NoFault ELSE Fault
  /\ CloseState(t, FALSE)
  /\ UNCHANGED <<files, world>>

(* A newer release: _preflight_check looks for the program's own file, the  *)
(* disk and the network, and its outcome is kept for later.                 *)
Found(t) ==
  /\ published > running
  /\ \E ok \in BOOLEAN :
       /\ IF ok THEN exe # NoFile /\ NoFault ELSE IF exe = NoFile THEN NoFault ELSE Fault
       /\ Goes(t, "look", "latest", [loc[t] EXCEPT !.tag = published, !.ok = ok])
  /\ UNCHANGED <<us, files, world>>

(* The fields are assigned one by one, each under the lock. *)
Announce(t) ==
  /\ \/ Goes(t, "latest", "url", loc[t]) /\ us' = [us EXCEPT !.latest = loc[t].tag]
     \/ Goes(t, "url", "sha", loc[t]) /\ us' = [us EXCEPT !.url = loc[t].tag]
     \/ Goes(t, "sha", "close", loc[t]) /\ us' = [us EXCEPT !.sha = loc[t].tag]
  /\ UNCHANGED <<files, world, faults>>

CloseCheck(t) ==
  /\ Goes(t, "close", AfterCheck(t), loc[t])
  /\ CloseState(t, loc[t].ok)
  /\ UNCHANGED <<files, world, faults>>

-----------------------------------------------------------------------------
(* _background_check_worker: after an hour a check of its own has expired, *)
(* one the page forced since may not have.                                 *)
Wake ==
  /\ IF us.fresh = "page"
     THEN Goes("bg", "wait", "decide", loc["bg"])
     ELSE Goes("bg", "wait", "look", loc["bg"])
  /\ UNCHANGED <<us, files, world, faults>>

(* The page's check has expired, too. *)
Expire ==
  /\ Up /\ us.fresh = "page"
  /\ us' = [us EXCEPT !.fresh = "no"]
  /\ UNCHANGED <<pc, loc, files, world, faults>>

(* _should_auto_download *)
ShouldDownload ==
  /\ us.latest # 0 /\ us.url # 0
  /\ ~us.downloading
  /\ us.staged # us.latest
  /\ us.preflight

Decide ==
  /\ IF ShouldDownload
     THEN Goes("bg", "decide", "call", [loc["bg"] EXCEPT !.version = us.latest])
     ELSE Goes("bg", "decide", "wait", NoLocals)
  /\ UNCHANGED <<us, files, world, faults>>

CallWorker ==
  /\ Goes("bg", "call", "preflight", [loc["bg"] EXCEPT !.sum = us.sha])
  /\ UNCHANGED <<us, files, world, faults>>

Record ==
  /\ Goes("bg", "over", "wait", NoLocals)
  /\ IF us.success THEN us' = [us EXCEPT !.staged = loc["bg"].version] ELSE UNCHANGED us
  /\ UNCHANGED <<files, world, faults>>

-----------------------------------------------------------------------------
(* handle_update_check(force) and handle_update_install. *)
PressCheck ==
  /\ Goes("page", "idle", "look", NoLocals)
  /\ UNCHANGED <<us, files, world, faults>>

PressInstall ==
  /\ us.url # 0 /\ ~us.downloading
  /\ Goes("btn", "idle", "preflight", [NoLocals EXCEPT !.sum = us.sha])
  /\ UNCHANGED <<us, files, world, faults>>

-----------------------------------------------------------------------------
(* download_update_worker. *)
AfterWork(t) == IF t = "bg" THEN "over" ELSE "idle"

Preflight(t) ==
  /\ \/ exe # NoFile /\ NoFault /\ Goes(t, "preflight", "begin", loc[t]) /\ UNCHANGED us
     \/ /\ IF exe = NoFile THEN NoFault ELSE Fault
        /\ Goes(t, "preflight", AfterWork(t), loc[t])
        /\ us' = [us EXCEPT !.success = FALSE, !.downloading = FALSE]
  /\ UNCHANGED <<files, world>>

Begin(t) ==
  /\ Goes(t, "begin", "fetch", loc[t])
  /\ us' = [us EXCEPT !.success = FALSE, !.downloading = TRUE]
  /\ UNCHANGED <<files, world, faults>>

(* Mutant: no finally, the download stays under way. *)
FailsUnderWay(t, a) ==
  /\ Goes(t, a, AfterWork(t), [loc[t] EXCEPT !.fd = NoFile])
  /\ us' = [us EXCEPT !.success = FALSE]

(* The except and finally blocks. *)
Fails(t, a) ==
  /\ Goes(t, a, AfterWork(t), [loc[t] EXCEPT !.fd = NoFile])
  /\ us' = [us EXCEPT !.success = FALSE, !.downloading = FALSE]

(* _download_update and the comparison of the checksums. *)
Fetch(t) ==
  /\ \/ NoFault /\ loc[t].sum = us.url
        /\ Goes(t, "fetch", "swap", [loc[t] EXCEPT !.pkg = us.url]) /\ UNCHANGED us
     \/ NoFault /\ loc[t].sum # us.url /\ Fails(t, "fetch")
     \/ Fault /\ Fails(t, "fetch")
  /\ UNCHANGED <<files, world>>

(* Mutant: the old backup goes before the rename, and the program with it. *)
SwapByRemove(t) ==
  /\ Goes(t, "swap", "open", loc[t])
  /\ bak' = NoFile /\ exe' = NoFile
  /\ UNCHANGED <<us, disk, spoiled, world, faults>>

(* _install_binary_update, on its extracted file: the program is renamed, *)
Swap(t) ==
  /\ Goes(t, "swap", "open", loc[t])
  /\ exe' = NoFile
  /\ bak' = IF exe # NoFile THEN exe ELSE bak
  /\ spoiled' = IF spoiled = "no" THEN "no" ELSE "retried"
  /\ UNCHANGED <<us, disk, world, faults>>

InUse == {exe, bak} \cup {loc[t].fd : t \in Installers}

(* copy2 creates or truncates the file ... *)
OpenCopy(t) ==
  /\ LET i == IF exe # NoFile THEN exe
              ELSE CHOOSE n \in Inodes : n \notin InUse
     IN \/ /\ Goes(t, "open", "copy", [loc[t] EXCEPT !.fd = i])
           /\ exe' = i /\ disk' = [disk EXCEPT ![i] = Part]
           /\ NoFault /\ UNCHANGED <<us, spoiled>>
        \/ /\ Fault /\ Fails(t, "open")
           /\ spoiled' = IF spoiled = "no" THEN "failed" ELSE spoiled
           /\ UNCHANGED <<exe, disk>>
  /\ UNCHANGED <<bak, world>>

(* ... and writes it, perhaps together with the other thread. *)
Copy(t) ==
  /\ LET i == loc[t].fd
         others == {u \in Installers \ {t} : loc[u].fd = i}
     IN \/ /\ Goes(t, "copy", "clean", [loc[t] EXCEPT !.fd = NoFile])
           /\ disk' = [disk EXCEPT ![i] =
                         IF disk[i] = Junk \/ (\E u \in others : loc[u].pkg # loc[t].pkg)
                         THEN Junk ELSE IF others # {} THEN Part ELSE loc[t].pkg]
           /\ NoFault /\ UNCHANGED <<us, spoiled>>
        \/ /\ Fault /\ Fails(t, "copy")
           /\ spoiled' = IF spoiled = "no" THEN "failed" ELSE spoiled
           /\ UNCHANGED disk
  /\ UNCHANGED <<exe, bak, world>>

(* The backup is removed, and the update is a success. *)
Clean(t) ==
  /\ Goes(t, "clean", AfterWork(t), loc[t])
  /\ bak' = NoFile
  /\ us' = [us EXCEPT !.success = TRUE, !.downloading = FALSE]
  /\ UNCHANGED <<exe, disk, spoiled, world, faults>>

-----------------------------------------------------------------------------
(* The process ends, and its threads with it. *)
EndsAs(v) ==
  /\ running' = v
  /\ us' = FreshState
  /\ pc' = Rest
  /\ loc' = [t \in Threads |-> NoLocals]

(* handle_update_apply and _restart_app: exec of the file under the name, *)
(* which fails, and leaves the program as it is, when there is none.      *)
Apply ==
  /\ Up /\ us.latest # 0 /\ exe # NoFile /\ quits < MaxQuits
  /\ quits' = quits + 1
  /\ EndsAs(IF Whole(exe) THEN disk[exe] ELSE Down)
  /\ UNCHANGED <<published, files, faults>>

(* The window is closed, and the program started again. *)
Quit ==
  /\ Up /\ quits < MaxQuits
  /\ quits' = quits + 1
  /\ EndsAs(Down)
  /\ UNCHANGED <<published, files, faults>>

Start ==
  /\ ~Up /\ Whole(exe)
  /\ EndsAs(disk[exe])
  /\ UNCHANGED <<published, files, faults, quits>>

(* A release is published (external). *)
Publish ==
  /\ published < MaxRelease
  /\ published' = published + 1
  /\ UNCHANGED <<running, us, pc, loc, files, faults, quits>>

Check(t) == NothingFound(t) \/ Found(t) \/ Announce(t) \/ CloseCheck(t)
Work(t) ==
  \/ Preflight(t) \/ Begin(t) \/ Fetch(t)
  \/ Swap(t) \/ OpenCopy(t) \/ Copy(t) \/ Clean(t)
Background == Wake \/ Check("bg") \/ Decide \/ CallWorker \/ Work("bg") \/ Record

Next ==
  \/ Background
  \/ Check("page") \/ Work("btn")
  \/ PressCheck \/ PressInstall \/ Expire
  \/ Apply \/ Quit \/ Start \/ Publish

Spec == Init /\ [][Next]_vars

FairSpec ==
  /\ Spec
  /\ WF_vars(Background) /\ SF_vars(Wake) /\ WF_vars(Check("page")) /\ WF_vars(Work("btn"))
  /\ WF_vars(Expire) /\ WF_vars(Start)

-----------------------------------------------------------------------------
TypeOK ==
  /\ published \in Versions /\ running \in Versions \cup {Down}
  /\ us \in [latest : Versions, url : Versions, sha : Versions, downloading : BOOLEAN,
             success : BOOLEAN, preflight : BOOLEAN, staged : Versions,
             fresh : {"no", "bg", "page"}]
  /\ pc \in [Threads -> {"wait", "idle", "look", "latest", "url", "sha", "close", "decide",
                         "call", "preflight", "begin", "fetch", "swap", "open", "copy",
                         "clean", "over"}]
  /\ loc \in [Threads -> [tag : Versions, ok : BOOLEAN, version : Versions, sum : Versions,
                          pkg : Versions, fd : Inodes \cup {NoFile}]]
  /\ exe \in Inodes \cup {NoFile} /\ bak \in Inodes \cup {NoFile}
  /\ disk \in [Inodes -> Versions \cup {Part, Junk}]
  /\ faults \in 0..MaxFaults /\ quits \in 0..MaxQuits
  /\ spoiled \in {"no", "failed", "retried"}

(* Through a close in the middle and through a failing copy, a whole        *)
(* program is on disk at every moment, under its own name or as the backup  *)
(* (_install_binary_update), until the install is tried again, which swaps  *)
(* the backup for the half copy.                                            *)
AProgramRemains == spoiled = "retried" \/ Whole(exe) \/ Whole(bak)

(* A version announced as staged is the one the next start runs: "staged"   *)
(* of handle_update_check, which offers the restart.                        *)
StagedIsOnDisk ==
  us.staged = 0 \/ us.staged # us.latest \/ us.downloading \/ spoiled # "no"
    \/ (exe # NoFile /\ disk[exe] = us.latest)

(* What each thread ever does; with Apart, one does it at a time.           *)
Places == [t \in Threads |->
  CASE t = "page" -> {"idle", "look", "latest", "url", "sha", "close"}
    [] t = "btn"  -> {"idle", "preflight", "begin", "fetch", "swap", "open", "copy", "clean"}
    [] OTHER      -> {"wait", "look", "latest", "url", "sha", "close", "decide", "call",
                      "preflight", "begin", "fetch", "swap", "open", "copy", "clean", "over"}]

OneAtWork ==
  /\ \A t \in Threads : pc[t] \in Places[t]
  /\ Apart => \A t, u \in Threads : ~Resting(t) /\ ~Resting(u) => t = u

(* What is known of the release, by whoever has a part in it.               *)
ReleaseIsOne ==
  /\ us.staged <= us.latest /\ us.latest <= published
  /\ (\A t \in Threads : pc[t] # "url") => us.url = us.latest
  /\ \A t \in Threads :
       /\ pc[t] = "latest" => us.latest <= loc[t].tag
       /\ pc[t] \in {"latest", "url", "sha", "close"} => loc[t].tag <= published
       /\ pc[t] \in {"url", "sha", "close"} => loc[t].tag = us.latest
       /\ pc[t] \in {"swap", "open", "copy", "clean"} => loc[t].pkg = us.latest
  /\ pc["bg"] \in {"call", "preflight", "begin", "fetch", "swap", "open", "copy", "clean", "over"}
       => loc["bg"].version = us.latest

(* The program and its backup in each stage of the swap.                     *)
SwapStages ==
  /\ \A t \in Threads :
       /\ IF pc[t] = "copy" THEN loc[t].fd = exe /\ exe # NoFile ELSE loc[t].fd = NoFile
       /\ pc[t] \in {"fetch", "swap", "open", "copy", "clean"} => us.downloading
       /\ pc[t] \in {"open", "copy", "clean"} => spoiled # "failed"
       /\ spoiled = "no" /\ pc[t] = "open" => exe = NoFile /\ Whole(bak)
       /\ spoiled = "no" /\ pc[t] = "copy" => Whole(bak) /\ bak # exe /\ disk[exe] = Part
       /\ spoiled = "no" /\ pc[t] = "clean" => exe # NoFile /\ disk[exe] = us.latest
  /\ spoiled = "no" /\ Up /\ (\A t \in Threads : pc[t] \notin {"open", "copy"}) => Whole(exe)
  /\ spoiled = "failed" => Whole(bak)

Installed == exe # NoFile /\ disk[exe] = us.latest

StagedStays ==
  /\ spoiled = "no" /\ us.staged # 0 /\ us.staged = us.latest
       /\ (\A t \in Threads : pc[t] \notin {"open", "copy", "clean"}) => Installed
  /\ spoiled = "no" /\ pc["bg"] = "over" /\ us.success => Installed

(* With the types and what the stages know: a program remains, and a staged  *)
(* one is what it says.                                                      *)
UpdaterInv ==
  /\ TypeOK /\ OneAtWork /\ ReleaseIsOne /\ SwapStages /\ StagedStays
  /\ AProgramRemains /\ StagedIsOnDisk

(* Closed in the middle of a swap, the program cannot be started again.     *)
Stranded == ~Up /\ ~Whole(exe)

(* A published release arrives on disk by itself, through failing requests  *)
(* and restarts, unless a copy failed or the program is stranded.           *)
UpdateArrives ==
  published = MaxRelease
    ~> (Stranded \/ spoiled # "no" \/ (exe # NoFile /\ disk[exe] = MaxRelease))

(* The claim of _background_check_worker: the swap waits for a restart, as  *)
(* it would replace the program under a running audit.                      *)
SwapWaitsForRestart == [][Up /\ running' = running => exe' = exe]_vars

=============================================================================
