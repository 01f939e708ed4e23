------------------------------ MODULE Settings ------------------------------
(***************************************************************************)
(* The settings and recent files (database/repos.py over the SQLite tables *)
(* of database/legacy.py): a key-value table behind a cache that is filled *)
(* when a key is read, and the list of recent files, kept in the same      *)
(* table under keys of its own.                                            *)
(*                                                                         *)
(* The desktop's bridge answers requests on threads of their own, so two   *)
(* overlap; the browser server's users are served one request at a time,   *)
(* which is among the interleavings.  A statement on the table is one      *)
(* step, as legacy.py runs it under a lock.                                *)
(***************************************************************************)
EXTENDS Lists, SequencesExt

CONSTANTS
  People,     (* who is signed in; the desktop has one, who is nobody *)
  Setting,    (* the one settings key modelled, in each user's scope *)
  Values,     (* what can be saved; 0 stands for "not set" and is not among them *)
  Callers,    (* requests under way at once *)
  Paths,      (* workbooks on disk, or not *)
  MaxRecent,  (* ui.max_recent_files *)
  MaxFails,   (* bound: statements that fail *)
  MaxReopens  (* bound: times the program is started again *)

ASSUME SettingsAssumption ==
  /\ People # {}
  /\ Values \subseteq Nat \ {0} /\ MaxRecent \in Nat \ {0}
  /\ MaxFails \in Nat /\ MaxReopens \in Nat

VARIABLES
  db,        (* the config table, per scoped key *)
  cache,     (* ConfigRepository._cache *)
  req,       (* each thread's request *)
  recent,    (* the values of recent_file_0, 1, ... *)
  present,    (* the workbooks that exist *)
  saved,     (* history: what each scoped key was last set to *)
  raced,     (* history: keys two overlapping requests met on, one of them a save *)
  broken,    (* history: keys whose write failed *)
  opened,    (* history: the workbooks run, the last first *)
  failures, restarts

settingVars ==
  <<db, cache, req, recent, present, saved, raced, broken, opened, failures, restarts>>

(* Mutant: the key as it is. *)
Unscoped(u) == <<CHOOSE v \in People : TRUE, Setting>>

(* _scoped: the user's name is part of the key; the desktop's has none. *)
Scope(u) == <<u, Setting>>
Scopes == {Scope(u) : u \in People}
OwnKeys == People \X {Setting}

NotSet == 0
Missing == [has |-> FALSE, val |-> NotSet]
Holds(v) == [has |-> TRUE, val |-> v]   (* _NOT_FOUND is cached, too: NotSet *)
NoRequest == [op |-> "none", user |-> CHOOSE u \in People : TRUE, at |-> "idle", val |-> NotSet]

SettingsInit ==
  /\ db = [k \in Scopes |-> NotSet]
  /\ cache = [k \in Scopes |-> Missing]
  /\ req = [t \in Callers |-> NoRequest]
  /\ recent = <<>> /\ present = Paths
  /\ saved = [k \in OwnKeys |-> NotSet]
  /\ raced = {} /\ broken = {} /\ opened = <<>>
  /\ failures = 0 /\ restarts = 0

rest == <<recent, present, opened, restarts>>

Overlaps(u, op) ==
  \E t \in Callers : /\ req[t].op # "none" /\ req[t].user = u
                     /\ "set" \in {op, req[t].op}
Marked(u, op) == IF Overlaps(u, op) THEN raced \cup {u} ELSE raced

-----------------------------------------------------------------------------
(* get: the cache is asked; on a miss the table is read and the cache filled. *)
GetStart(t, u) ==
  /\ req[t] = NoRequest
  /\ IF cache[Scope(u)].has
     THEN UNCHANGED <<req, raced>>   (* answered from the cache *)
     ELSE /\ req' = [req EXCEPT ![t] = [op |-> "get", user |-> u, at |-> "read", val |-> NotSet]]
          /\ raced' = Marked(u, "get")
  /\ UNCHANGED <<db, cache, saved, broken, failures, rest>>

GetRead(t) ==
  /\ req[t].at = "read"
  /\ req' = [req EXCEPT ![t].at = "fill", ![t].val = db[Scope(req[t].user)]]
  /\ UNCHANGED <<db, cache, saved, raced, broken, failures, rest>>

GetFill(t) ==
  /\ req[t].at = "fill"
  /\ cache' = [cache EXCEPT ![Scope(req[t].user)] = Holds(req[t].val)]
  /\ req' = [req EXCEPT ![t] = NoRequest]
  /\ UNCHANGED <<db, saved, raced, broken, failures, rest>>

(* set (handle_config_save and the saves of handle_run): the cache first. *)
SetCache(t, u, v) ==
  /\ req[t] = NoRequest
  /\ cache' = [cache EXCEPT ![Scope(u)] = Holds(v)]
  /\ req' = [req EXCEPT ![t] = [op |-> "set", user |-> u, at |-> "write", val |-> v]]
  /\ raced' = Marked(u, "set")
  /\ UNCHANGED <<db, saved, broken, failures, rest>>

(* The table may refuse (a full disk, a lock held too long): the request        *)
(* fails, and the cache keeps what was not written.                          *)
SetTable(t) ==
  /\ req[t].at = "write"
  /\ req' = [req EXCEPT ![t] = NoRequest]
  /\ LET u == req[t].user  v == req[t].val IN
       \/ /\ db' = [db EXCEPT ![Scope(u)] = v]
          /\ saved' = [saved EXCEPT ![<<u, Setting>>] = v]
          /\ UNCHANGED <<broken, failures>>
       \/ /\ failures < MaxFails /\ failures' = failures + 1
          /\ broken' = broken \cup {u}
          /\ UNCHANGED <<db, saved>>
  /\ UNCHANGED <<cache, raced, rest>>

-----------------------------------------------------------------------------
NotRecent(p) == Kept(recent, present \ {p})

(* add_recent_file: the newest first, those that are gone dropped, the rest *)
(* renumbered; the rows are deleted and inserted in one transaction.        *)
AddRecent(p) ==
  /\ p \in present   (* handle_run refuses a missing file *)
  /\ LET all == <<p>> \o NotRecent(p)
     IN recent' = SubSeq(all, 1, IF Len(all) > MaxRecent THEN MaxRecent ELSE Len(all))
  /\ opened' = <<p>> \o Kept(opened, Paths \ {p})
  /\ UNCHANGED <<db, cache, req, present, saved, raced, broken, failures, restarts>>

(* get_recent_files *)
Shown == Kept(recent, present)

ClearRecent ==
  /\ recent' = <<>> /\ opened' = <<>>
  /\ UNCHANGED <<db, cache, req, present, saved, raced, broken, failures, restarts>>

(* Workbooks come and go on the disk. *)
FileComesOrGoes(p) ==
  /\ present' = IF p \in present THEN present \ {p} ELSE present \cup {p}
  /\ UNCHANGED <<db, cache, req, recent, opened, saved, raced, broken, failures, restarts>>

-----------------------------------------------------------------------------
(* The process ends, at any moment, and is started again: the cache is gone, *)
(* a save between its two halves is lost.                                    *)
SettingsRestart ==
  /\ restarts < MaxReopens
  /\ restarts' = restarts + 1
  /\ cache' = [k \in Scopes |-> Missing]
  /\ req' = [t \in Callers |-> NoRequest]
  /\ raced' = {} /\ broken' = {}
  /\ saved' = [k \in OwnKeys |-> db[Scope(k[1])]]
  /\ UNCHANGED <<db, recent, present, opened, failures>>

SettingRequests ==
  \E t \in Callers :
    \/ GetRead(t) \/ GetFill(t) \/ SetTable(t)
    \/ \E u \in People :
         \/ GetStart(t, u)
         \/ \E v \in Values : SetCache(t, u, v)

RecentFiles ==
  \/ \E p \in Paths : AddRecent(p) \/ FileComesOrGoes(p)
  \/ ClearRecent

SettingsNext == SettingRequests \/ RecentFiles \/ SettingsRestart

SettingsSpec == SettingsInit /\ [][SettingsNext]_settingVars

-----------------------------------------------------------------------------
SettingsTypeOK ==
  /\ db \in [Scopes -> Values \cup {NotSet}]
  /\ cache \in [Scopes -> [has : BOOLEAN, val : Values \cup {NotSet}]]
  /\ req \in [Callers -> [op : {"none", "get", "set"}, user : People,
                          at : {"idle", "read", "fill", "write"}, val : Values \cup {NotSet}]]
  /\ saved \in [OwnKeys -> Values \cup {NotSet}]
  /\ recent \in Seq(Paths) /\ Len(recent) <= MaxRecent /\ opened \in Seq(Paths)
  /\ present \subseteq Paths /\ raced \subseteq People /\ broken \subseteq People
  /\ failures \in 0..MaxFails /\ restarts \in 0..MaxReopens

(* What a person saved is what the page and the next start of the program    *)
(* show them, and what another person saves does not change it               *)
(* (ConfigRepository), unless its write failed or two requests of theirs met *)
(* on the key, which the cache does not survive.                             *)
SavedIsShown ==
  \A u \in People :
    LET k == <<u, Setting>> IN
      (u \notin raced \cup broken /\ \A t \in Callers : req[t].user = u => req[t].op = "none")
        => /\ db[Scope(u)] = saved[k]
           /\ cache[Scope(u)].has => cache[Scope(u)].val = saved[k]

(* The recent files are in the order they were last run in, the last first,  *)
(* each once, and the last one is there while it exists (add_recent_file,    *)
(* get_recent_files).                                                        *)
RecentIsRecent ==
  LET at(p) == CHOOSE i \in DOMAIN opened : opened[i] = p
  IN /\ Range(Shown) \subseteq Range(opened)
     /\ \A i, j \in DOMAIN Shown : i < j => at(Shown[i]) < at(Shown[j])
     /\ opened # <<>> /\ Head(opened) \in present => Shown # <<>> /\ Head(Shown) = Head(opened)

-----------------------------------------------------------------------------
(* Why: a request is where its operation has steps.                           *)
RequestsAreShaped ==
  \A t \in Callers : LET r == req[t] IN
    /\ r.op = "none" => r = NoRequest
    /\ r.op = "get" <=> r.at \in {"read", "fill"}
    /\ r.op = "set" <=> r.at = "write"

(* The table has what was saved last, whatever meets on the key: a save that  *)
(* fails or is lost changes neither.                                         *)
TableHasSaved == \A u \in People : db[Scope(u)] = saved[<<u, Setting>>]

Serves(t, u, op) == req[t].op = op /\ req[t].user = u

(* While nothing has gone wrong with a person's key, a save has the key to    *)
(* itself, the cache holds what it will write, and otherwise the cache and    *)
(* what a request has read are what the table has.                           *)
CacheFollowsTable ==
  \A u \in People \ (raced \cup broken) : LET k == Scope(u) IN
    /\ \A t \in Callers : Serves(t, u, "set") =>
         /\ cache[k] = Holds(req[t].val)
         /\ \A w \in Callers \ {t} : req[w].op = "none" \/ req[w].user # u
    /\ \A t \in Callers : Serves(t, u, "get") /\ req[t].at = "fill" => req[t].val = db[k]
    /\ cache[k].has /\ cache[k].val # db[k] => \E t \in Callers : Serves(t, u, "set")

(* The list is cut from what was run, never reordered, and loses its first    *)
(* only to a newer one.                                                      *)
ListFollowsRuns ==
  /\ \A i, j \in DOMAIN opened : opened[i] = opened[j] => i = j
  /\ Range(recent) \subseteq Range(opened)
  /\ \A i, j \in DOMAIN recent : i < j => Follows(opened, recent[i], recent[j])
  /\ opened # <<>> => recent # <<>> /\ recent[1] = opened[1]

(* All of it, with the types: what was saved is shown, to whom it belongs, and *)
(* the recent files are those run last (repos.py).                           *)
SettingsInv ==
  /\ SettingsTypeOK /\ SavedIsShown /\ RecentIsRecent
  /\ RequestsAreShaped /\ TableHasSaved /\ CacheFollowsTable /\ ListFollowsRuns

=============================================================================
