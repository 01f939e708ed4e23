------------------------------ MODULE MCServer ------------------------------
(***************************************************************************)
(* The smaller state machines around the jobs, for TLC.  They share no     *)
(* state, so a behaviour is one of one of them: "part" says of which, and  *)
(* the others keep their initial state.  The settings and the recent files *)
(* of one module are two parts.                                            *)
(***************************************************************************)
EXTENDS Accounts, Settings, DesktopTool, RunFolders, Updater, TLC

VARIABLE part

Parts == {"accounts", "settings", "recent", "tool", "folders", "updates"}

allVars == <<part, accountVars, settingVars, toolVars, folderVars, vars>>

(* "Amit" and "amit" are one name; both browsers are behind one address. *)
NormalNames == "Amit" :> "amit" @@ "amit" :> "amit" @@ "bela" :> "bela" @@ ".x" :> ".x"
OneAddress == "b1" :> "office" @@ "b2" :> "office"

MCInit ==
  /\ part \in Parts
  /\ AccountsInit /\ SettingsInit /\ ToolInit /\ FoldersInit /\ Init
  /\ part # "accounts" => ~env /\ ~secret
  /\ part # "tool" => tool = "merge"

Takes(p, action) == part = p /\ action /\ part' = part

MCNext ==
  \/ /\ Takes("accounts", AccountsNext)
     /\ UNCHANGED <<settingVars, toolVars, folderVars, vars>>
  \/ /\ Takes("settings", SettingRequests \/ SettingsRestart)
     /\ UNCHANGED <<accountVars, toolVars, folderVars, vars>>
  \/ /\ Takes("recent", RecentFiles)
     /\ UNCHANGED <<accountVars, toolVars, folderVars, vars>>
  \/ /\ Takes("tool", ToolNext)
     /\ UNCHANGED <<accountVars, settingVars, folderVars, vars>>
  \/ /\ Takes("folders", FoldersNext)
     /\ UNCHANGED <<accountVars, settingVars, toolVars, vars>>
  \/ /\ Takes("updates", Next)
     /\ UNCHANGED <<accountVars, settingVars, toolVars, folderVars>>

(* Time passes, the threads of the program run, a closed program is started  *)
(* again; nobody is obliged to press anything.                               *)
MCSpec ==
  /\ MCInit /\ [][MCNext]_allVars
  /\ WF_accountVars(part = "accounts" /\ Tick)
  /\ WF_toolVars(part = "tool" /\ \E c \in Calls : RunReset(c) \/ RunStart(c))
  /\ \A r \in Runs : WF_toolVars(part = "tool" /\ Worker(r))
  /\ WF_vars(part = "updates" /\ Background) /\ SF_vars(part = "updates" /\ Wake)
  /\ WF_vars(part = "updates" /\ Check("page")) /\ WF_vars(part = "updates" /\ Work("btn"))
  /\ WF_vars(part = "updates" /\ Expire) /\ WF_vars(part = "updates" /\ Start)

=============================================================================
