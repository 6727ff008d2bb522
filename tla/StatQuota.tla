----------------------------- MODULE StatQuota -----------------------------
(***************************************************************************)
(* Traffic by day and by month, and its quotas: StatManager counts it in   *)
(* the tables traffic_day and traffic_month and removes old rows           *)
(* (statmanager.cpp), QuotaManager counts it beside them and alerts the    *)
(* user (quotamanager.cpp), by options of the .ini file (inioptions.h).    *)
(*                                                                         *)
(* Times are hours.  A day and a month are named by their first hour, as   *)
(* in the code; hour 0 is none.  Every month has DaysPerMonth days.  What  *)
(* the code does for the day and for the month alike is written once.      *)
(***************************************************************************)
EXTENDS Integers

CONSTANTS
  HoursPerDay, DaysPerMonth,
  Quotas,       \* bytes the quota of a day is set to, with 0 for none
  MonthQuotas,  \* bytes the quota of a month is set to
  IniMonth,     \* values of quota/quotaMonthMb in the .ini file
  KeepDays,     \* IniOptions::trafDayKeepDays, -1 for all
  KeepMonths,   \* IniOptions::trafMonthKeepMonths, -1 for all
  MaxHours,     \* bound: hours that pass
  MaxRecords,   \* bound: traffic records, of one byte each
  MaxSaves      \* bound: changes of the options, clearings, and restarts

ASSUME QuotaAssumption ==
  /\ {HoursPerDay, DaysPerMonth} \subseteq Nat \ {0}
  /\ Quotas \cup MonthQuotas \cup IniMonth \cup {MaxHours, MaxRecords, MaxSaves} \subseteq Nat
  /\ KeepDays \cup KeepMonths \subseteq Nat \cup {-1}

Periods == {"day", "month"}

VARIABLES
  hour,        \* the time
  recordHour,  \* LogManager::m_currentUnixTime: the time of the last record
  ini,         \* the options: monthStart, keep, quotaDayMb, quotaMonthMb (which is read) and
               \* quotaMonthMMb (which is written instead)
  iniAlerted,  \* [Periods -> hours]: quota/dayAlerted, quota/monthAlerted
  table,       \* [Periods -> [first hours -> bytes]]: traffic_day, traffic_month
  m_trafHour,
  traf,        \* [Periods -> first hours]: m_trafDay, m_trafMonth
  bytes,       \* [Periods -> bytes]: m_trafDayBytes, m_trafMonthBytes
  quota,       \* [Periods -> bytes]: m_quotaDayBytes, m_quotaMonthBytes
  records, saves,  \* bounds
  told,        \* history: [Periods -> [of, times]], alerts of the last period alerted for,
               \* since the present one began
  of,          \* history: [Periods -> the period whose bytes are counted]
  flawed,      \* history: [Periods -> bytes of two periods are counted, or were removed, or the
               \* quota was changed unnoticed]
  checked      \* history: the last thing that happened was a record that counts

quotaVars == <<hour, recordHour, ini, iniAlerted, table, m_trafHour, traf, bytes, quota,
               records, saves, told, of, flawed, checked>>

HoursPerMonth == HoursPerDay * DaysPerMonth
FirstHour == 2 * HoursPerMonth + HoursPerDay
(* getUnixDay, getUnixMonth: a month that has not come to monthStart is    *)
(* still the last.                                                         *)
StartOf(p, h, monthStart) ==
  LET dayOfMonth == (h % HoursPerMonth) \div HoursPerDay + 1 IN
  IF p = "day" THEN h - (h % HoursPerDay)
  ELSE h - (h % HoursPerMonth) - (IF dayOfMonth < monthStart THEN HoursPerMonth ELSE 0)

LastDay == (FirstHour + MaxHours) \div HoursPerDay
FirstDay == StartOf("month", FirstHour, DaysPerMonth) \div HoursPerDay
Starts == { d * HoursPerDay : d \in FirstDay .. LastDay }  \* of days, some of them of months

Zero == [p \in Periods |-> 0]
NotTold == [of |-> 0, times |-> 0]

(* QuotaMonthMb reads one name and setQuotaMonthMb writes another.  *)
QuotaOf(i) == [p \in Periods |-> IF p = "day" THEN i.quotaDayMb ELSE i.quotaMonthMb]

QuotaInit ==
  /\ hour = FirstHour /\ recordHour = hour
  /\ ini \in [monthStart : {1}, quotaDayMb : {0}, quotaMonthMb : IniMonth, quotaMonthMMb : {0},
              keep : [Periods -> {-1}]]
  /\ iniAlerted = Zero
  /\ table = [p \in Periods |-> [h \in Starts |-> 0]]
  /\ m_trafHour = 0 /\ traf = Zero
  /\ bytes = Zero /\ quota = QuotaOf(ini)
  /\ records = 0 /\ saves = 0
  /\ told = [p \in Periods |-> NotTold]
  /\ of = [p \in Periods |-> StartOf(p, hour, ini.monthStart)]
  /\ flawed = [p \in Periods |-> FALSE] /\ checked = FALSE

-----------------------------------------------------------------------------
(* setQuotaDayBytes, setQuotaMonthBytes: periods whose quota is changed    *)
Changed(q) == { p \in Periods : q[p] # quota[p] /\ quota[p] # 0 }

ForgetAlerts(ps) ==
  /\ iniAlerted' = [p \in Periods |-> IF p \in ps THEN 0 ELSE iniAlerted[p]]
  /\ told' = [p \in Periods |-> IF p \in ps THEN NotTold ELSE told[p]]

(* Mistake: the quotas begin anew when the program does. *)
SetupQuota_Zero(i) ==
  /\ quota' = QuotaOf(i)
  /\ bytes' = Zero
  /\ of' = [p \in Periods |-> StartOf(p, hour, i.monthStart)]

(* StatManager::setConf, setupQuota *)
SetupQuota(i) ==
  LET now(p) == StartOf(p, hour, i.monthStart) IN
  /\ quota' = QuotaOf(i)
  /\ bytes' = [p \in Periods |-> table[p][now(p)]]
  /\ of' = [p \in Periods |-> now(p)]

(* The user saves the options.  When the driver does not take the          *)
(* configuration (FortManager::updateDriverConf) StatManager is not told.  *)
SaveOptions(i, isTaken) ==
  /\ saves < MaxSaves /\ saves' = saves + 1
  /\ i.quotaMonthMb = ini.quotaMonthMb
  /\ ini' = i
  /\ \/ isTaken /\ SetupQuota(i) /\ ForgetAlerts(Changed(QuotaOf(i)))
     \/ ~ isTaken /\ UNCHANGED <<quota, bytes, of, iniAlerted, told>>
  /\ checked' = FALSE
  /\ UNCHANGED <<hour, recordHour, table, m_trafHour, traf, records, flawed>>

-----------------------------------------------------------------------------
(* updateTrafDay *)

NewTraf(h) ==
  IF h # m_trafHour /\ StartOf("day", h, 0) # traf["day"]
    THEN [p \in Periods |-> StartOf(p, h, ini.monthStart)]
    ELSE traf

IsNew(h, p) == NewTraf(h)[p] # traf[p]

(* clearQuotas: not when the period before is unknown *)
Cleared(h) == { p \in Periods : IsNew(h, p) /\ traf[p] # 0 }

(* deleteOldTraffic: rows that begin before this, or none *)
OldTraffic(h, p) ==
  IF ini.keep[p] < 0 THEN 0
  ELSE h - ini.keep[p] * (IF p = "day" THEN HoursPerDay ELSE HoursPerMonth)

Kept(h) ==
  IF ~ IsNew(h, "day") THEN table
  ELSE [p \in Periods |-> LET old == OldTraffic(h, p)
                          IN [s \in Starts |-> IF s < old THEN 0 ELSE table[p][s]]]

(* checkQuotaDay, checkQuotaMonth *)
Alerts(q, b, alerted, t) == { p \in Periods : q[p] # 0 /\ alerted[p] # t[p] /\ b[p] > q[p] }

(* logStatTraf of a record of hour h *)
LogTraffic(h, m_isActivePeriod) ==
  LET more == IF m_isActivePeriod THEN 1 ELSE 0
      t == NewTraf(h)
      kept == Kept(h)
      b == [p \in Periods |-> (IF p \in Cleared(h) THEN 0 ELSE bytes[p]) + more]
      alerted == [p \in Periods |-> IF p \in Cleared(h) THEN 0 ELSE iniAlerted[p]]
      since == [p \in Periods |-> IF p \in Cleared(h) THEN NotTold ELSE told[p]]
      alerts == IF m_isActivePeriod THEN Alerts(quota, b, alerted, t) ELSE {}
      o == [p \in Periods |-> IF p \in Cleared(h) THEN t[p] ELSE of[p]]
  IN
  /\ records < MaxRecords /\ records' = records + 1
  /\ h \in recordHour .. hour /\ recordHour' = h
  /\ m_trafHour' = h /\ traf' = t
  /\ table' = [p \in Periods |-> [kept[p] EXCEPT ![t[p]] = @ + more]]
  /\ bytes' = b
  /\ iniAlerted' = [p \in Periods |-> IF p \in alerts THEN t[p] ELSE alerted[p]]
  /\ told' = [p \in Periods |->
                IF p \notin alerts THEN since[p]
                ELSE [of |-> t[p], times |-> IF since[p].of = t[p] THEN since[p].times + 1 ELSE 1]]
  /\ of' = o
  /\ flawed' = [p \in Periods |->
                  \/ flawed[p] /\ p \notin Cleared(h)
                  \/ o[p] # t[p]
                  \/ p \in Cleared(h) /\ table[p][t[p]] # 0
                  \/ \E s \in {t[p], since[p].of} \cap Starts : kept[p][s] # table[p][s]]
  /\ checked' = m_isActivePeriod
  /\ UNCHANGED <<hour, ini, quota, saves>>

(* clearTraffic, setupTrafDate, QuotaManager::clear *)
ClearAllTraffic ==
  /\ saves < MaxSaves /\ saves' = saves + 1
  /\ table' = [p \in Periods |-> [h \in Starts |-> 0]]
  /\ m_trafHour' = 0 /\ traf' = Zero
  /\ bytes' = Zero /\ ForgetAlerts(Periods)
  /\ of' = [p \in Periods |-> StartOf(p, hour, ini.monthStart)]
  /\ flawed' = [p \in Periods |-> FALSE] /\ checked' = FALSE
  /\ UNCHANGED <<hour, recordHour, ini, quota, records>>

HourPasses ==
  /\ hour < FirstHour + MaxHours /\ hour' = hour + 1
  /\ UNCHANGED <<recordHour, ini, iniAlerted, table, m_trafHour, traf, bytes, quota, records, saves,
                 told, of, flawed, checked>>

(* The program is started again, with no record of before; an alert under  *)
(* another quota is still in the .ini file.                                *)
StartAgain ==
  /\ saves < MaxSaves /\ saves' = saves + 1
  /\ recordHour' = hour
  /\ m_trafHour' = 0 /\ traf' = Zero
  /\ SetupQuota(ini) /\ checked' = FALSE
  /\ flawed' = [p \in Periods |-> flawed[p] \/ p \in Changed(QuotaOf(ini))]
  /\ UNCHANGED <<hour, ini, iniAlerted, table, records, told>>

Options ==
  [monthStart : 1 .. DaysPerMonth, quotaDayMb : Quotas, quotaMonthMb : IniMonth, quotaMonthMMb : MonthQuotas,
   keep : { k \in [Periods -> KeepDays \cup KeepMonths] : k["day"] \in KeepDays /\ k["month"] \in KeepMonths }]

QuotaNext ==
  \/ \E i \in Options, isTaken \in BOOLEAN : SaveOptions(i, isTaken)
  \/ \E h \in recordHour .. hour, m_isActivePeriod \in BOOLEAN : LogTraffic(h, m_isActivePeriod)
  \/ ClearAllTraffic \/ HourPasses \/ StartAgain

QuotaSpec == QuotaInit /\ [][QuotaNext]_quotaVars

-----------------------------------------------------------------------------
(* Once a record has been counted the user has been told once of a day,    *)
(* and of a month, whose traffic in the tables is more than the quota, and *)
(* of no other: two ways of counting, through restarts, new periods and    *)
(* changed options.  But when the period changes between the time the      *)
(* quotas were set up and the next record (the program was started, or the *)
(* options saved), with another first day of months; when the table's row  *)
(* of the period is removed as old; and when the quota is changed by       *)
(* options the driver does not take, which come into force with the next   *)
(* start: what was told of the old quota is not forgotten then.            *)
QuotaAlerts ==
  checked =>
    \A p \in Periods : quota[p] # 0 /\ ~ flawed[p] =>
      IF table[p][traf[p]] > quota[p] THEN told[p] = [of |-> traf[p], times |-> 1]
      ELSE told[p].of # traf[p]
=============================================================================
