----------------------------- MODULE ConfGroups -----------------------------
(***************************************************************************)
(* Groups of programs in the user interface: the configuration in use      *)
(* (ConfManager::conf), the copy that the options window edits, the rows   *)
(* of tables app_group and app, and the bits of enabled groups, which are  *)
(* kept beside the groups: by place, in the configuration and in the .ini  *)
(* file.  The driver, which is told after every change, is left out.       *)
(*                                                                         *)
(* All of it runs in one thread, so an operation is an action.  A text     *)
(* stands for what a row holds besides order and enabled.  Places begin    *)
(* at 1.                                                                   *)
(***************************************************************************)
EXTENDS Integers, SequencesExt

CONSTANTS
  MaxGroups,      \* MAX_APP_GROUP_COUNT
  GroupTexts,     \* names, limits and lists of a group
  GroupPrograms,  \* paths in table app
  NoGroup,        \* a program without a group
  NoEdit,         \* the options window is closed
  MaxGroupEdits   \* bound: changes of groups in the options window

ASSUME GroupsAssumption == GroupTexts # {}

VARIABLES
  conf,       \* [groups, bits]; a group is [id, text, enabled, edited], id 0 before its INSERT
  edit,       \* the copy: [groups, bits, opt, flags, removed, torn], or NoEdit
  rows,       \* table app_group: [its ids -> [order, text, enabled]]
  app,        \* table app: [GroupPrograms -> app_group_id, or NoGroup]
  ini_bits,   \* "appGroupBits" of the .ini file
  torn,       \* history: a copy was saved of which a save had failed before
  groupEdits

groupVars == <<conf, edit, rows, app, ini_bits, torn, groupEdits>>

AllBits == 1 .. MaxGroups
EnabledPlaces(groups) == { i \in DOMAIN groups : groups[i].enabled }

(* FirewallConf::applyAppGroupBits *)
ApplyBits(groups, bits) ==
  [i \in DOMAIN groups |->
     [groups[i] EXCEPT !.enabled = i \in bits, !.edited = @ \/ groups[i].enabled # (i \in bits)]]

(* FirewallConf::copy, with copyFlags at its end. *)
CopyOf(c) ==
  [groups |-> ApplyBits(c.groups, c.bits), bits |-> c.bits, opt |-> FALSE, flags |-> FALSE,
   removed |-> <<>>, torn |-> FALSE]

(* ConfManager::setupDefault, when there is no database yet. *)
GroupsInit ==
  LET main == CHOOSE t \in GroupTexts : TRUE
  IN /\ conf = [groups |-> << [id |-> 1, text |-> main, enabled |-> TRUE, edited |-> FALSE] >>,
                bits |-> AllBits]
     /\ rows = [id \in {1} |-> [order |-> 1, text |-> main, enabled |-> TRUE]]
     /\ edit = NoEdit /\ app = [p \in GroupPrograms |-> NoGroup]
     /\ ini_bits = AllBits /\ torn = FALSE /\ groupEdits = 0

-----------------------------------------------------------------------------
(* ConfManager::saveFlags of conf(), with groups as they are now. *)
SaveFlags(groups) ==
  LET bits == EnabledPlaces(groups)
  IN /\ conf' = [groups |-> groups, bits |-> bits]
     /\ ini_bits' = bits
     /\ UNCHANGED <<edit, rows, app, torn, groupEdits>>

(* An item of the tray's menu, whose items are checked by the bits: a group *)
(* is enabled or disabled while the options window is closed.              *)
SaveTrayFlags(i) ==
  /\ edit = NoEdit /\ i \in DOMAIN conf.groups
  /\ SaveFlags(ApplyBits(conf.groups, IF i \in conf.bits THEN conf.bits \ {i} ELSE conf.bits \cup {i}))

(* The programs window saves a flag of its own, at any time. *)
SaveOtherFlag == SaveFlags(conf.groups)

(* ProgramEditDialog: a program is given a group of conf(). *)
SetAppGroup(p, i) ==
  /\ i \in DOMAIN conf.groups
  /\ app' = [app EXCEPT ![p] = conf.groups[i].id]
  /\ UNCHANGED <<conf, edit, rows, ini_bits, torn, groupEdits>>

(* The program is started: ConfManager::load.                               *)
(* Rows of equal order come in any order.                                  *)
RestartGroups ==
  /\ groupEdits < MaxGroupEdits /\ groupEdits' = groupEdits + 1
  /\ \E s \in SetToSeqs(DOMAIN rows) :
       /\ \A i, j \in DOMAIN s : i < j => rows[s[i]].order <= rows[s[j]].order
       /\ conf' = [groups |-> [i \in DOMAIN s |-> [id |-> s[i], text |-> rows[s[i]].text,
                                 enabled |-> rows[s[i]].enabled, edited |-> FALSE]],
                   bits |-> ini_bits]
  /\ edit' = NoEdit
  /\ UNCHANGED <<rows, app, ini_bits, torn>>

-----------------------------------------------------------------------------
(* The options window. *)

OpenOptions ==
  /\ edit = NoEdit
  /\ edit' = CopyOf(conf)
  /\ UNCHANGED <<conf, rows, app, ini_bits, torn, groupEdits>>

CloseOptions ==
  /\ edit # NoEdit
  /\ edit' = NoEdit
  /\ UNCHANGED <<conf, rows, app, ini_bits, torn, groupEdits>>

EditCopy(e) ==
  /\ groupEdits < MaxGroupEdits /\ groupEdits' = groupEdits + 1
  /\ edit' = e
  /\ UNCHANGED <<conf, rows, app, ini_bits, torn>>

(* FirewallConf::addAppGroupByName: with the id of a group that was removed. *)
AddAppGroup(t) ==
  LET removed == edit.removed
      id == IF removed = <<>> THEN 0 ELSE Last(removed)
      group == [id |-> id, text |-> t, enabled |-> TRUE, edited |-> TRUE]
  IN /\ Len(edit.groups) < MaxGroups
     /\ EditCopy([edit EXCEPT !.opt = TRUE, !.groups = Append(@, group),
                          !.removed = IF removed = <<>> THEN @ ELSE Front(@)])

(* FirewallConf::moveAppGroup: its loop marks none of the groups. *)
MoveAppGroup(from, to) ==
  /\ {from, to} \subseteq DOMAIN edit.groups /\ from # to
  /\ EditCopy([edit EXCEPT !.opt = TRUE,
                       !.groups = InsertAt(RemoveAt(@, from), to, edit.groups[from])])

RemoveAppGroup(i) ==
  LET id == edit.groups[i].id
  IN /\ i \in DOMAIN edit.groups /\ Len(edit.groups) > 1
     /\ EditCopy([edit EXCEPT !.opt = TRUE, !.groups = RemoveAt(@, i),
                          !.removed = IF id = 0 THEN @ ELSE Append(@, id)])

(* Name, limits, period and lists of a group; its box "Enabled". *)
EditAppGroup(i, t) ==
  /\ i \in DOMAIN edit.groups /\ edit.groups[i].text # t
  /\ EditCopy([edit EXCEPT !.opt = TRUE, !.groups[i].text = t, !.groups[i].edited = TRUE])

EnableAppGroup(i) ==
  /\ i \in DOMAIN edit.groups
  /\ EditCopy([edit EXCEPT !.flags = TRUE, !.groups[i].enabled = ~ @, !.groups[i].edited = TRUE])

-----------------------------------------------------------------------------
(* ConfManager::save of the copy. *)

(* prepareToSave *)
BitsToSave == IF edit.flags THEN EnabledPlaces(edit.groups) ELSE edit.bits

(* sqlite's rowid for a new row *)
NewId(table) == 1 + Max({0} \cup DOMAIN table)

(* INSERT *)
WithRow(table, id, row) ==
  [d \in DOMAIN table \cup {id} |-> IF d = id THEN row ELSE table[d]]

(* saveAppGroup; s is the table and the groups so far, i the group's place. *)
(* An UPDATE of a row that is not there changes nothing.                   *)
SaveAppGroup(s, i) ==
  LET g == s.groups[i]
      id == IF g.id = 0 THEN NewId(s.rows) ELSE g.id
      row == [order |-> i, text |-> g.text, enabled |-> g.enabled]
  IN IF g.id # 0 /\ ~ g.edited THEN s
     ELSE [rows |-> IF g.id = 0 THEN WithRow(s.rows, id, row) ELSE [s.rows EXCEPT ![id] = row],
           groups |-> [s.groups EXCEPT ![i].id = id, ![i].edited = FALSE]]

SaveAppGroups(n) ==
  LET saved[i \in 0 .. n] ==
        IF i = 0 THEN [rows |-> rows, groups |-> edit.groups] ELSE SaveAppGroup(saved[i - 1], i)
  IN saved[n]

(* Mistake: the programs of a removed group stay with it. *)
ResetGroups_Forgotten(removed, default) == app

(* removeAppGroupsInDb: the programs of a removed group go to the first one. *)
ResetGroups(removed, default) ==
  [p \in GroupPrograms |-> IF app[p] \in removed THEN default ELSE app[p]]

(* Only flags: conf takes them over, the copy lives on. *)
SaveOnlyFlags ==
  /\ edit # NoEdit /\ edit.flags /\ ~ edit.opt
  /\ conf' = [groups |-> ApplyBits(conf.groups, BitsToSave), bits |-> BitsToSave]
  /\ ini_bits' = BitsToSave
  /\ edit' \in {NoEdit, [edit EXCEPT !.flags = FALSE, !.bits = BitsToSave]}
  /\ UNCHANGED <<rows, app, torn, groupEdits>>

(* The copy becomes conf; the window closes, or edits a copy of it. *)
SaveAll ==
  LET saved == SaveAppGroups(Len(edit.groups))
      removed == Range(edit.removed)
  IN /\ edit # NoEdit /\ edit.opt
     /\ rows' = [id \in DOMAIN saved.rows \ removed |-> saved.rows[id]]
     /\ app' = ResetGroups(removed, saved.groups[1].id)
     /\ conf' = [groups |-> saved.groups, bits |-> BitsToSave]
     /\ ini_bits' = IF edit.flags THEN BitsToSave ELSE ini_bits
     /\ edit' \in {NoEdit, CopyOf(conf')}
     /\ torn' = (torn \/ edit.torn)
     /\ UNCHANGED groupEdits

(* A statement of the transaction fails after n groups: the table is       *)
(* rolled back, the groups of the copy are not.                            *)
SaveFails(n) ==
  LET groups == SaveAppGroups(n).groups
  IN /\ edit # NoEdit /\ edit.opt /\ n <= Len(edit.groups)
     /\ edit' = [edit EXCEPT !.groups = groups, !.bits = BitsToSave,
                             !.torn = @ \/ groups # edit.groups]
     /\ groupEdits < MaxGroupEdits /\ groupEdits' = groupEdits + 1
     /\ UNCHANGED <<conf, rows, app, ini_bits, torn>>

EditOptions ==
  /\ edit # NoEdit
  /\ \/ \E t \in GroupTexts : AddAppGroup(t) \/ \E i \in DOMAIN edit.groups : EditAppGroup(i, t)
     \/ \E i \in DOMAIN edit.groups :
          \/ RemoveAppGroup(i) \/ EnableAppGroup(i)
          \/ \E j \in DOMAIN edit.groups : MoveAppGroup(i, j)
     \/ \E n \in 0 .. Len(edit.groups) : SaveFails(n)

GroupsNext ==
  \/ \E i \in DOMAIN conf.groups : SaveTrayFlags(i) \/ \E p \in GroupPrograms : SetAppGroup(p, i)
  \/ SaveOtherFlag \/ RestartGroups
  \/ OpenOptions \/ CloseOptions \/ EditOptions
  \/ SaveOnlyFlags \/ SaveAll

GroupsSpec == GroupsInit /\ [][GroupsNext]_groupVars

-----------------------------------------------------------------------------
(* Groups in use and rows are the same, whatever was added, removed, moved *)
(* and edited in the window and switched outside of it, whether it was     *)
(* saved or not: each group has its row, with its text, and if it is not   *)
(* marked as edited with its state; there is no other row; and a program   *)
(* belongs to a group.  Otherwise its rule would not be written to the     *)
(* driver (sqlSelectApps joins the two tables).  Not so when a save that   *)
(* failed was repeated: saveAppGroup has forgotten then what to write.     *)
GroupsInTable ==
  ~ torn =>
    /\ \A i \in DOMAIN conf.groups :
         LET g == conf.groups[i] IN
         /\ g.id # 0 /\ g.id \in DOMAIN rows /\ rows[g.id].text = g.text
         /\ ~ g.edited => rows[g.id].enabled = g.enabled
         /\ \A j \in DOMAIN conf.groups \ {i} : conf.groups[j].id # g.id
    /\ \A id \in DOMAIN rows : \E i \in DOMAIN conf.groups : conf.groups[i].id = id
    /\ \A p \in GroupPrograms : app[p] # NoGroup => app[p] \in DOMAIN rows

(* A rule is written to the driver with the place of its group, by which   *)
(* the driver finds the group's flags and limits; the place is taken from  *)
(* the row (sqlSelectApps: g.order_index as group_index).  It is the place *)
(* the group has in the window.                                            *)
RulesAtPlace ==
  ~ torn =>
    \A p \in GroupPrograms :
      app[p] # NoGroup =>
        \E i \in DOMAIN conf.groups : conf.groups[i].id = app[p] /\ rows[app[p]].order = i
=============================================================================
