-------------------------- MODULE MCConsolidation --------------------------
(***************************************************************************)
(* Consolidation for TLC, in two settings: users whose runs overlap and     *)
(* fail, with few uploads of one name, and one who takes turns, with more;  *)
(* the latter's first upload is no workbook.                                *)
(***************************************************************************)
EXTENDS Consolidation

CONSTANTS Lone, FewUploads

MCInit == Init /\ patient = logTakes /\ readable = IF patient THEN Paths \ {1} ELSE Paths

FirstName == CHOOSE x \in Names : TRUE

(* What one user does.  Names are interchangeable, and the answers of polls    *)
(* change nothing: the first name is always the same one, and polls wait for   *)
(* the last run to end.                                                        *)
ByOne ==
  /\ \A p \in Paths : file'[p].user \in {Nobody, Lone}
  /\ \A n \in Runs : wrk'[n].user \in {Nobody, Lone}
  /\ file'[1].name \in {Nobody, FirstName}
  /\ poll' # NoPoll => wrk[MaxRuns].pc = "ended" /\ disk = {} /\ reapers = {}

(* What all do, each run being given one file, whosever it is; the first       *)
(* upload is always the same user's, nothing is parsed before a run, and       *)
(* nobody asks how far one is.                                                 *)
ByAll ==
  /\ \A p \in Paths : file'[p].name \in {Nobody, FirstName}
  /\ \A p \in Paths : p > FewUploads => file'[p].user = Nobody
  /\ file'[1].user \in {Nobody, Lone} /\ \A r \in reapers' : Cardinality(r.targets) = 1
  /\ \A p \in Paths : cache'[p] # Miss => cache'[file'[p].name] # Miss
  /\ poll' = NoPoll

MCNext == Next /\ IF TakeTurns THEN ByOne ELSE ByAll

MCSpec ==
  /\ MCInit /\ [][MCNext]_allVars
  /\ (\A n \in Runs : WF_vars(Worker(n))) /\ WF_vars(Reaper) /\ WF_vars(PollAnswer)

=============================================================================
