\* Two clients, with and without a password.  Days of two hours, months of two days.
\* The bounds end either.
CHECK_DEADLOCK FALSE
CONSTANTS
  Clients = {c1, c2}
  Values = {v1, v2}
  MaxSessions = 3
  MaxCalls = 2
  MaxChanges = 2
  HoursPerDay = 2
  DaysPerMonth = 2
  Quotas = {0, 1, 3}
  MonthQuotas = {0}
  IniMonth = {1}
  KeepDays <- MCKeepDays
  KeepMonths = {1}
  MaxHours = 3
  MaxRecords = 4
  MaxSaves = 3
SYMMETRY Symmetry
SPECIFICATION ServiceSpec
INVARIANTS AnswersMatch StateFollows ConfFollows QuotaAlerts
