\* Two queues, three rows of five kinds at three times, of which a report reads
\* the newest two; days of two ticks, so that one time is before the strip, and
\* a row may bear a day to come.  Once there is a rule: one row, two rules, three
\* sweeps, one failed send.  Behaviours end when rows, rules and sweeps are
\* used up.
SPECIFICATION InsightsSpec
CONSTANTS
  q1 = q1
  q2 = q2
  Queue = {q1, q2}
  AnyQueue = AnyQueue
  MaxRead = 2
  MaxBuckets = 2
  MaxShown = 2
  Hour = 1
  Day = 2
  StripDays = 2
  Content <- MCContent
  Conditions <- MCConditions
  RuleOf <- MCRuleOf
  Window <- MCWindow
  Time = {1, 2, 5}
  MaxAhead = 1
  MaxRows = 3
  MaxWatched = 1
  MaxRules = 2
  MaxSweeps = 3
  MaxFailures = 1
INVARIANTS
  SteadyStateIsSilent
  MailTellsTheState
  ReportsAgree
  UptimeReadsBack
PROPERTIES
  AlertsReadTheWindow
CHECK_DEADLOCK FALSE
