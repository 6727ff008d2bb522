------------------------------- MODULE StatDb -------------------------------
(***************************************************************************)
(* The database of StatManager (statmanager.cpp, statsql.cpp, the schema   *)
(* in stat/migrations/1.sql): programs, their traffic, and the blocked     *)
(* connections, of which a number is kept; and ConnListModel               *)
(* (connlistmodel.cpp), which shows the blocked connections by the range   *)
(* of their row numbers.  One thread; the program may end between two      *)
(* statements that are not in a transaction.                               *)
(*                                                                         *)
(* The rows of traffic_app and of the tables by hour, day and month come   *)
(* and go together (but for old ones): one row a program stands for them.  *)
(* A row also has the program it was written for, which the table has not. *)
(***************************************************************************)
EXTENDS Integers, FiniteSets, FiniteSetsExt

CONSTANTS
  Paths,       \* programs
  KeepCount,   \* IniOptions::blockedIpKeepCount
  IncMax,      \* connBlockIncMax
  MaxLogged,   \* bound: blocked connections that are logged
  MaxChanges   \* bound: other changes of the tables, and restarts

ASSUME StatDbAssumption ==
  {KeepCount, IncMax, MaxLogged, MaxChanges} \subseteq Nat /\ IncMax > 0

VARIABLES
  app,         \* table app: [ids -> Paths]
  traffic,     \* [ids of programs with traffic -> Paths]
  conn,        \* table conn: [ids -> [app, path]]
  conn_block,  \* [ids -> ids of conn]
  m_appPathIdCache,  \* [a set of Paths -> ids]
  m_connBlockIdMin, m_connBlockIdMax, m_connBlockInc,
  m_connChangedTimer,    \* it is set
  m_rowIdMin, m_rowIdMax,  \* of the list
  place,       \* "idle", or in deleteOldConnBlock: "old", and "blocks" between its two statements
  logged, changes,  \* bounds
  start,       \* history: rows when the count of logged ones last began
  flaws        \* history: what has happened to the tables

tableVars == <<app, traffic, conn, conn_block>>
rangeVars == <<m_connBlockIdMin, m_connBlockIdMax>>
listVars == <<m_rowIdMin, m_rowIdMax>>
countVars == <<m_connBlockInc, logged, changes, start>>
statDbVars == <<tableVars, m_appPathIdCache, rangeVars, m_connChangedTimer, listVars, countVars, place, flaws>>

Empty == [i \in {} |-> 0]

StatDbInit ==
  /\ app = Empty /\ traffic = Empty /\ conn = Empty /\ conn_block = Empty
  /\ m_appPathIdCache = Empty
  /\ m_connBlockIdMin = 0 /\ m_connBlockIdMax = 0 /\ m_connBlockInc = 0
  /\ m_connChangedTimer = FALSE /\ m_rowIdMin = 0 /\ m_rowIdMax = 0
  /\ place = "idle" /\ logged = 0 /\ changes = 0 /\ start = KeepCount /\ flaws = {}

(* SQLite numbers a row of an INTEGER PRIMARY KEY after the last there is. *)
NewId(table) == Max(DOMAIN table \cup {0}) + 1
With(f, i, x) == [j \in DOMAIN f \cup {i} |-> IF j = i THEN x ELSE f[j]]
Without(f, ids) == [j \in DOMAIN f \ ids |-> f[j]]

-----------------------------------------------------------------------------
(* getOrCreateAppId *)

AppOf(path) ==
  IF path \in DOMAIN m_appPathIdCache THEN m_appPathIdCache[path]
  ELSE IF \E i \in DOMAIN app : app[i] = path THEN CHOOSE i \in DOMAIN app : app[i] = path
  ELSE NewId(app)

GetOrCreateAppId(path) ==
  /\ app' = IF path \in DOMAIN m_appPathIdCache THEN app ELSE With(app, AppOf(path), path)
  /\ m_appPathIdCache' = With(m_appPathIdCache, path, AppOf(path))

(* Mistake: the program goes from the table only. *)
DeleteApps_Cached(ids) ==
  /\ app' = Without(app, ids)
  /\ m_appPathIdCache' = m_appPathIdCache

(* The end of deleteAppStmtList, for the programs its query finds. *)
DeleteApps(ids) ==
  /\ app' = Without(app, ids)
  /\ m_appPathIdCache' = Without(m_appPathIdCache, { app[i] : i \in ids })

Used(c) == { c[i].app : i \in DOMAIN c }

(* sqlDeleteConnForBlock: the rows of conn up to a row of conn_block *)
ConnsTo(b, to) == { b[i] : i \in { j \in DOMAIN b : j <= to } }

(* Mistake: the range of a table that is empty is not reset. *)
RangeFrom_Keeps(to) ==
  m_connBlockIdMin' = to + 1 /\ UNCHANGED m_connBlockIdMax

(* The end of deleteConnBlock.  A range of one row is reset, too. *)
RangeFrom(to) ==
  \/ /\ to + 1 >= m_connBlockIdMax
     /\ m_connBlockIdMin' = 0 /\ m_connBlockIdMax' = 0
  \/ /\ to + 1 < m_connBlockIdMax
     /\ m_connBlockIdMin' = to + 1 /\ UNCHANGED m_connBlockIdMax

(* The rest of deleteConnBlock, once the rows of conn are gone. *)
DeleteBlocks(c, to) ==
  /\ conn_block' = Without(conn_block, 1 .. to)
  /\ DeleteApps(DOMAIN app \ (DOMAIN traffic \cup Used(c)))
  /\ RangeFrom(to)
  /\ flaws' = (flaws \ {"gone"}) \cup { "oneLeft" : i \in {to + 1} \cap {m_connBlockIdMax} }
                                \cup { "gone" : i \in {to + 1} \cap ((1 .. m_connBlockIdMax - 1) \ DOMAIN conn_block) }

(* TriggerTimer::startTrigger *)
EmitConnChanged == m_connChangedTimer' = TRUE

Change == place = "idle" /\ changes < MaxChanges /\ changes' = changes + 1

-----------------------------------------------------------------------------
(* What the driver logs *)

LogProcNewApp(path) ==
  /\ Change
  /\ GetOrCreateAppId(path)
  /\ UNCHANGED <<traffic, conn, conn_block, rangeVars, m_connBlockInc, m_connChangedTimer, listVars, place, logged, start, flaws>>

(* logStatTraf of one program, within the active period or not; old rows   *)
(* of traffic go in StatQuota.                                             *)
LogStatTrafApp(path, m_isActivePeriod) ==
  /\ Change
  /\ GetOrCreateAppId(path)
  /\ traffic' = IF m_isActivePeriod THEN With(traffic, AppOf(path), path) ELSE traffic
  /\ UNCHANGED <<conn, conn_block, rangeVars, m_connBlockInc, m_connChangedTimer, listVars, place, logged, start, flaws>>

(* logBlockedIp, and insertConnBlock does not get its row: the number of   *)
(* the connection is taken, or the disk is full.  endTransaction commits.  *)
LogBlockedIpFails(path) ==
  /\ place = "idle" /\ logged < MaxLogged /\ logged' = logged + 1
  /\ GetOrCreateAppId(path)
  /\ conn' = With(conn, NewId(conn), [app |-> AppOf(path), path |-> path])
  /\ flaws' = flaws \cup {"failed"}
  /\ UNCHANGED <<traffic, conn_block, rangeVars, m_connBlockInc, m_connChangedTimer, listVars, place, changes, start>>

(* logBlockedIp, createConnBlock *)
LogBlockedIp(path) ==
  /\ place = "idle" /\ logged < MaxLogged /\ logged' = logged + 1
  /\ \A i \in DOMAIN conn_block : conn_block[i] # NewId(conn)
  /\ GetOrCreateAppId(path)
  /\ conn' = With(conn, NewId(conn), [app |-> AppOf(path), path |-> path])
  /\ conn_block' = With(conn_block, NewId(conn_block), NewId(conn))
  /\ m_connBlockIdMax' = m_connBlockIdMax + 1
  /\ m_connBlockIdMin' = IF m_connBlockIdMax > 0 THEN m_connBlockIdMin ELSE 1
  /\ m_connBlockInc' = (m_connBlockInc + 1) % IncMax
  /\ place' = IF m_connBlockInc' = 0 THEN "old" ELSE "idle"
  /\ EmitConnChanged
  /\ UNCHANGED <<traffic, listVars, changes, start, flaws>>

(* Mistake: one row fewer is too many. *)
OldCount_Few == m_connBlockIdMax - m_connBlockIdMin - KeepCount

OldCount == m_connBlockIdMax - m_connBlockIdMin + 1 - KeepCount
OldTo == m_connBlockIdMin + OldCount - 1

(* deleteOldConnBlock: two statements, and no transaction. *)
NothingOld ==
  /\ place = "old" /\ OldCount <= 0
  /\ place' = "idle" /\ start' = KeepCount
  /\ UNCHANGED <<tableVars, m_appPathIdCache, rangeVars, m_connChangedTimer, listVars, m_connBlockInc, logged, changes, flaws>>

DeleteOldConns ==
  /\ place = "old" /\ OldCount > 0
  /\ conn' = Without(conn, ConnsTo(conn_block, OldTo))
  /\ place' = "blocks"
  /\ UNCHANGED <<app, traffic, conn_block, m_appPathIdCache, rangeVars, m_connChangedTimer, listVars, countVars, flaws>>

DeleteOldBlocks ==
  /\ place = "blocks"
  /\ DeleteBlocks(conn, OldTo)
  /\ place' = "idle" /\ start' = KeepCount
  /\ EmitConnChanged
  /\ UNCHANGED <<traffic, conn, listVars, m_connBlockInc, logged, changes>>

-----------------------------------------------------------------------------
(* What the user clears *)

(* Mistake: the rows of conn_block go first, and no row of conn is found. *)
DeleteConn_Swapped(to) ==
  /\ Change
  /\ m_rowIdMax > 0 /\ to \in m_rowIdMin .. m_rowIdMax
  /\ DeleteBlocks(conn, to)
  /\ EmitConnChanged
  /\ UNCHANGED <<traffic, conn, m_connBlockInc, listVars, place, logged, start>>

(* ConnListModel::deleteConn, deleteConn: up to a row that is shown, which *)
(* may be gone already: then the range begins with rows there are not.     *)
DeleteConn(to) ==
  /\ Change
  /\ m_rowIdMax > 0 /\ to \in m_rowIdMin .. m_rowIdMax
  /\ conn' = Without(conn, ConnsTo(conn_block, to))
  /\ DeleteBlocks(conn', to)
  /\ EmitConnChanged
  /\ UNCHANGED <<traffic, m_connBlockInc, listVars, place, logged, start>>

(* Mistake: the list is not told. *)
DeleteConnAll_Silent ==
  /\ Change
  /\ conn' = Empty /\ conn_block' = Empty
  /\ DeleteApps(DOMAIN app \ DOMAIN traffic)
  /\ m_connBlockIdMin' = 0 /\ m_connBlockIdMax' = 0
  /\ flaws' = {}
  /\ UNCHANGED <<traffic, m_connBlockInc, m_connChangedTimer, listVars, place, logged, start>>

(* deleteConnAll *)
DeleteConnAll ==
  /\ Change
  /\ conn' = Empty /\ conn_block' = Empty
  /\ DeleteApps(DOMAIN app \ DOMAIN traffic)
  /\ m_connBlockIdMin' = 0 /\ m_connBlockIdMax' = 0
  /\ flaws' = {}
  /\ EmitConnChanged
  /\ UNCHANGED <<traffic, m_connBlockInc, listVars, place, logged, start>>

DeleteStatApp(appId) ==
  /\ Change
  /\ appId \in DOMAIN traffic
  /\ traffic' = Without(traffic, {appId})
  /\ DeleteApps({appId} \ Used(conn))
  /\ UNCHANGED <<conn, conn_block, rangeVars, m_connBlockInc, m_connChangedTimer, listVars, place, logged, start, flaws>>

ClearTraffic ==
  /\ Change
  /\ traffic' = Empty
  /\ app' = Without(app, DOMAIN app \ Used(conn))
  /\ m_appPathIdCache' = Empty
  /\ UNCHANGED <<conn, conn_block, rangeVars, m_connBlockInc, m_connChangedTimer, listVars, place, logged, start, flaws>>

-----------------------------------------------------------------------------
(* connChanged, ConnListModel::updateRowIdRange: rows are inserted and     *)
(* removed, or the list is reset, and it has the range of the table.       *)
UpdateRowIdRange ==
  /\ place = "idle" /\ m_connChangedTimer
  /\ m_connChangedTimer' = FALSE
  /\ m_rowIdMin' = m_connBlockIdMin /\ m_rowIdMax' = m_connBlockIdMax
  /\ UNCHANGED <<tableVars, m_appPathIdCache, rangeVars, countVars, place, flaws>>

(* The program ends, anywhere, and is started again: updateConnBlockId.    *)
Restart ==
  /\ changes < MaxChanges /\ changes' = changes + 1
  /\ m_appPathIdCache' = Empty
  /\ m_connBlockIdMin' = Min(DOMAIN conn_block \cup (IF conn_block = Empty THEN {0} ELSE {}))
  /\ m_connBlockIdMax' = Max(DOMAIN conn_block \cup {0})
  /\ m_rowIdMin' = m_connBlockIdMin' /\ m_rowIdMax' = m_connBlockIdMax'
  /\ m_connChangedTimer' = FALSE
  /\ m_connBlockInc' = 0 /\ place' = "idle"
  /\ start' = Max({KeepCount, Cardinality(DOMAIN conn_block)})
  /\ flaws' = (flaws \ {"oneLeft", "gone"}) \cup (IF place = "blocks" THEN {"torn"} ELSE {})
  /\ UNCHANGED <<tableVars, logged>>

StatDbNext ==
  \/ \E path \in Paths :
       \/ LogProcNewApp(path) \/ LogBlockedIp(path) \/ LogBlockedIpFails(path)
       \/ \E m_isActivePeriod \in BOOLEAN : LogStatTrafApp(path, m_isActivePeriod)
  \/ NothingOld \/ DeleteOldConns \/ DeleteOldBlocks
  \/ \E to \in m_rowIdMin .. m_rowIdMax : DeleteConn(to)
  \/ \E appId \in DOMAIN traffic : DeleteStatApp(appId)
  \/ DeleteConnAll \/ ClearTraffic \/ UpdateRowIdRange \/ Restart

StatDbSpec == StatDbInit /\ [][StatDbNext]_statDbVars

-----------------------------------------------------------------------------
(* The table of blocked connections stays within the number of rows to be  *)
(* kept and those logged since it was last cut, or what it was when the    *)
(* program was started; but for a table of which a deletion left one row,  *)
(* whose range is lost until the program is started again.                 *)
TableBounded ==
  place = "idle" /\ "oneLeft" \notin flaws =>
    Cardinality(DOMAIN conn_block) <= Max({KeepCount, start}) + m_connBlockInc

(* Of the connections that are blocked the newest are kept: only the user  *)
(* removes one that fewer than KeepCount have followed, whatever has been  *)
(* deleted, by rows that were shown, and wherever the program has ended.   *)
NewestKept ==
  [][ place = "blocks" =>
        \A i \in DOMAIN conn_block \ DOMAIN conn_block' :
           Cardinality({ j \in DOMAIN conn_block : j > i }) >= KeepCount ]_statDbVars

(* Every row, and every cached number, is of the program it was written    *)
(* for: numbers are given to other programs when their last row is gone,   *)
(* never before.  A blocked connection and its row are written and deleted *)
(* together, but for the failures of LogBlockedIpFails and an end between  *)
(* two statements.                                                         *)
RowsAgree ==
  /\ \A i \in DOMAIN traffic : i \in DOMAIN app /\ app[i] = traffic[i]
  /\ \A i \in DOMAIN conn : conn[i].app \in DOMAIN app /\ app[conn[i].app] = conn[i].path
  /\ \A p \in DOMAIN m_appPathIdCache : m_appPathIdCache[p] \in DOMAIN app /\ app[m_appPathIdCache[p]] = p
  /\ place = "idle" /\ flaws \subseteq {"oneLeft", "gone"} =>
       /\ { conn_block[i] : i \in DOMAIN conn_block } = DOMAIN conn
       /\ \A i, j \in DOMAIN conn_block : conn_block[i] = conn_block[j] => i = j

(* Once it has been told, the list shows the rows there are and no other,  *)
(* by a range that is counted beside the table: whatever is logged, cut    *)
(* and cleared while it has not been told.  But for a range that is lost,  *)
(* as above, or begins too early, as in DeleteConn.                        *)
ListFollows ==
  place = "idle" /\ ~ m_connChangedTimer /\ flaws \cap {"oneLeft", "gone"} = {} =>
    DOMAIN conn_block = IF m_rowIdMax = 0 THEN {} ELSE m_rowIdMin .. m_rowIdMax
=============================================================================
