------------------------------ MODULE ConfApps ------------------------------
(***************************************************************************)
(* The user's programs in two places: the table app of the UI's database   *)
(* (confmanager.cpp) and the rules of the driver (FortApps).  The user     *)
(* edits both, one after the other, and either write may fail; records of  *)
(* programs the driver decided on itself become rows of the database; the  *)
(* whole configuration is written anew from the database.                  *)
(*                                                                         *)
(* ConfManager runs in one thread: while it writes, it reads no record,    *)
(* and it alone changes the database.  An edit is therefore one action,    *)
(* with its failures as outcomes; only SETCONF is in steps, as callbacks   *)
(* may take the old block in between.                                      *)
(***************************************************************************)
EXTENDS FortApps

CONSTANTS
  ui,     \* the UI's thread
  NoRow   \* a program that is not in the table

Rows == [blocked : BOOLEAN, alerted : BOOLEAN]  \* of table app, and its alert

ASSUME UiAssumption == ui \in Setters /\ NoRow \notin Rows

VARIABLES
  db,      \* [Programs -> NoRow or the row of table app and its alert]
  listed,  \* programs that the allow text of an application group names
  failed,  \* history: programs of which a write failed
  apart    \* history: programs of which a record was on its way when their
           \* rule in the driver was replaced

confVars == <<db, listed, failed, apart>>
allVars == <<vars, appVars, confVars>>

Row(blocked, alerted) == [blocked |-> blocked, alerted |-> alerted]

ConfInit ==
  /\ AppsInit
  /\ db = [p \in Programs |-> NoRow]
  /\ listed = {} /\ failed = {} /\ apart = {}

Unread(p) == { k \in DOMAIN log : log[k].prog = p }
Judging(p) == { t \in Callbacks : job[t] # NoJob /\ job[t].prog = p /\ job[t].at # "end" }
InFlight(p) == Unread(p) # {} \/ Judging(p) # {}

RuleOf(blocked) == [blocked |-> blocked, own |-> FALSE]

(* Mistake: the texts of the groups overwrite the rows. *)
Written_TextFirst(p, texts) ==
  IF p \in texts THEN RuleOf(FALSE) ELSE IF db[p] # NoRow THEN RuleOf(db[p].blocked) ELSE NoRule

(* What the whole configuration says of a program: the rows come after the *)
(* texts of the groups and overwrite them (ConfUtil::parseExeApps).        *)
Written(p, texts) ==
  IF db[p] # NoRow THEN RuleOf(db[p].blocked) ELSE IF p \in texts THEN RuleOf(FALSE) ELSE NoRule

-----------------------------------------------------------------------------
(* "already added by user" otherwise. *)
IsUnknown(p) == db[p] = NoRow

(* ConfManager::logBlockedApp *)
LogBlockedApp ==
  /\ pc[ui] = "idle" /\ log # <<>>
  /\ log' = Tail(log)
  /\ LET rec == Head(log)
     IN IF IsUnknown(rec.prog)
        THEN \/ /\ db' = [db EXCEPT ![rec.prog] = Row(rec.blocked, TRUE)]
                /\ UNCHANGED failed
             \/ failed' = failed \cup {rec.prog} /\ UNCHANGED db
        ELSE UNCHANGED <<db, failed>>
  /\ UNCHANGED <<vars, conf, job, lost, listed, apart>>

(* The driver and then the database are told of a program: to is "both",  *)
(* or "driver" when the database fails.  When the driver fails, nothing    *)
(* has changed.                                                            *)
WriteApp(p, row, to) ==
  /\ ControlApp(p, RuleOf(row.blocked))
  /\ db' = IF to = "both" THEN [db EXCEPT ![p] = row] ELSE db
  /\ failed' = IF to = "both" THEN failed \ {p} ELSE failed \cup {p}
  /\ UNCHANGED log

(* ConfManager::addApp; updateApp is the same for a program of the table.  *)
(* (Programs that are allowed until an end time: see ConfEnds.)            *)
AddApp(p, blocked, to) ==
  /\ pc[ui] = "idle"
  /\ WriteApp(p, Row(blocked, FALSE), to)
  /\ UNCHANGED <<vars, job, lost, listed>>
  /\ apart' = IF to = "both" /\ ~ InFlight(p) THEN apart \ {p} ELSE apart

(* Mistake: the driver is not told. *)
DriverDelete_Forgotten(p) == UNCHANGED conf

DriverDelete(p) == ControlApp(p, NoRule)

(* ConfManager::deleteApp: the database first.  purgeApps is a sequence of *)
(* these.  A program whose path a group lists loses that rule, too.        *)
DeleteApp(p) ==
  /\ pc[ui] = "idle" /\ db[p] # NoRow
  /\ db' = [db EXCEPT ![p] = NoRow]
  /\ \/ DriverDelete(p) /\ UNCHANGED failed
     \/ failed' = failed \cup {p} /\ UNCHANGED conf
  /\ apart' = IF InFlight(p) \/ p \in listed THEN apart \cup {p} ELSE apart
  /\ UNCHANGED <<vars, job, log, lost, listed>>

(* ConfManager::updateAppBlocked: a row that says so already is only       *)
(* confirmed.                                                              *)
UpdateAppBlocked(p, blocked, to) ==
  /\ pc[ui] = "idle" /\ db[p] # NoRow
  /\ IF blocked # db[p].blocked
     THEN WriteApp(p, Row(blocked, FALSE), to)
     ELSE /\ db' = [db EXCEPT ![p].alerted = FALSE]
          /\ UNCHANGED <<conf, log, failed>>
  /\ UNCHANGED <<vars, job, lost, listed, apart>>

-----------------------------------------------------------------------------
(* ConfManager::updateDriverConf and the ends of a session. *)

WriteConf ==
  \/ (* The user has edited the texts, or something else of it. *)
     /\ listed' \in SUBSET Programs
     /\ \E n \in Refs, F \in FlagSets :
          ConfBegin(ui, n, F, [p \in Programs |-> Written(p, listed')])
     /\ UNCHANGED <<db, failed, apart>>
  \/ CloseBegin(ui) /\ UNCHANGED confVars
  \/ /\ ConfStore(ui)
     /\ apart' = { p \in Programs : InFlight(p) }
     /\ failed' = {}
     /\ UNCHANGED <<db, listed>>
  \/ ConfPutOld(ui) /\ UNCHANGED confVars

WriteFlags == pc[ui] = "idle" /\ (\E F \in FlagSets : FlagsSet(F)) /\ UNCHANGED confVars

Edit ==
  \E p \in Programs :
     \/ DeleteApp(p)
     \/ \E blocked \in BOOLEAN, to \in {"both", "driver"} :
          AddApp(p, blocked, to) \/ UpdateAppBlocked(p, blocked, to)

ConfNext ==
  \/ (\E t \in Callbacks : Classify(t)) /\ UNCHANGED confVars
  \/ LogBlockedApp
  \/ Edit
  \/ WriteConf
  \/ WriteFlags

ConfSpec == ConfInit /\ [][ConfNext]_allVars

-----------------------------------------------------------------------------
CurrentRules == conf[ref].rules

(* What the user set is what the driver does, however classifications run  *)
(* beside it: the driver has the rule of every row, and of every path in a *)
(* text that has no row, but for programs of which a write failed, or of   *)
(* which a record was on its way when their rule was replaced.             *)
RulesAgree ==
  ref # NoRef /\ pc[ui] # "setting" =>
    \A p \in Programs \ (failed \cup apart) :
       db[p] # NoRow \/ p \in listed =>
         /\ CurrentRules[p] # NoRule
         /\ CurrentRules[p].blocked = (db[p] # NoRow /\ db[p].blocked)

(* No program that the driver decides on by itself stays unknown to the    *)
(* user: it has a row, or its record is on its way; and there is one       *)
(* record, whatever connections it opens at once.                          *)
EveryNewReported ==
  /\ ref # NoRef =>
       \A p \in Programs \ (failed \cup lost) :
          CurrentRules[p] # NoRule /\ CurrentRules[p].own => db[p] # NoRow \/ InFlight(p)
  /\ \A p \in Programs \ apart :
       Cardinality(Unread(p)) + Cardinality({ t \in Judging(p) : job[t].at = "write" }) <= 1
=============================================================================
