------------------------------ MODULE ConfEnds ------------------------------
(***************************************************************************)
(* Programs that the user allows for a while (ConfApps with end times): a  *)
(* timer of ConfManager looks for allowed programs whose end time has come *)
(* and blocks them.  Time is not counted: when the timer ticks, any of     *)
(* them may have ended.                                                    *)
(***************************************************************************)
EXTENDS ConfApps

CONSTANT NameOf  \* [Programs -> Programs]: a program's name, taken for a path

VARIABLES
  ends,         \* programs whose row has an end time
  m_appEndTimer,
  ended         \* history: programs blocked, without a failure, since their end time came

endVars == <<ends, m_appEndTimer, ended>>

EndsInit == ConfInit /\ ends = {} /\ m_appEndTimer = TRUE /\ ended = {}

-----------------------------------------------------------------------------
(* ConfManager::addApp and updateApp.  Only an allowed program is given an *)
(* end time (ProgramEditDialog::save); the timer runs on from then.        *)
AddAppFor(p, blocked, to, end) ==
  /\ end => ~ blocked
  /\ AddApp(p, blocked, to)
  /\ ended' = ended \ {p}
  /\ IF to = "both"
     THEN /\ ends' = IF end THEN ends \cup {p} ELSE ends \ {p}
          /\ m_appEndTimer' = (m_appEndTimer \/ end)
     ELSE UNCHANGED <<ends, m_appEndTimer>>

(* ConfManager::deleteApp: the row goes with its end time. *)
DeleteWithEnd(p) ==
  DeleteApp(p) /\ ends' = ends \ {p} /\ ended' = ended \ {p} /\ UNCHANGED m_appEndTimer

(* ConfManager::updateAppBlocked: the row keeps its end time. *)
ToggleApp(p, blocked, to) ==
  UpdateAppBlocked(p, blocked, to) /\ ended' = ended \ {p} /\ UNCHANGED <<ends, m_appEndTimer>>

AllowedFor == { p \in ends : db[p] # NoRow /\ ~ db[p].blocked }

(* ConfManager::checkAppEndTimes, when nothing can end. *)
StopTimer ==
  /\ pc[ui] = "idle" /\ m_appEndTimer /\ AllowedFor = {}
  /\ m_appEndTimer' = FALSE
  /\ UNCHANGED <<vars, appVars, confVars, ends, ended>>

(* ConfManager::updateAppEndTimes, for one of the programs whose end time  *)
(* has come.  It takes the columns of its query from one too far on: what  *)
(* updateApp is given as the path is the name.                             *)
EndApp(p, to) ==
  /\ pc[ui] = "idle" /\ m_appEndTimer /\ p \in AllowedFor
  /\ ControlApp(NameOf[p], RuleOf(TRUE))
  /\ IF to = "both"
     THEN /\ db' = [db EXCEPT ![p] = Row(TRUE, FALSE)]
          /\ ends' = ends \ {p} /\ ended' = ended \cup {p}
          /\ UNCHANGED failed
     ELSE failed' = failed \cup {p} /\ UNCHANGED <<db, ends, ended>>
  /\ UNCHANGED <<vars, job, log, lost, listed, apart, m_appEndTimer>>

EditEnds ==
  \E p \in Programs :
     \/ DeleteWithEnd(p)
     \/ \E to \in {"both", "driver"} :
          \/ EndApp(p, to)
          \/ \E blocked \in BOOLEAN :
               \/ ToggleApp(p, blocked, to)
               \/ \E end \in BOOLEAN : AddAppFor(p, blocked, to, end)

EndsNext ==
  \/ EditEnds
  \/ StopTimer
  \/ /\ \/ (\E t \in Callbacks : Classify(t)) /\ UNCHANGED confVars
        \/ LogBlockedApp \/ WriteConf \/ WriteFlags
     /\ UNCHANGED endVars

EndsSpec == EndsInit /\ [][EndsNext]_<<allVars, endVars>>

-----------------------------------------------------------------------------
(* A program whose end time has come is blocked ("Block In:", "Block At:"  *)
(* in the dialog that edits it), until the user says otherwise.            *)
EndedIsBlocked ==
  ref # NoRef /\ pc[ui] # "setting" =>
    \A p \in ended \ (failed \cup apart) : CurrentRules[p] # NoRule /\ CurrentRules[p].blocked
=============================================================================
