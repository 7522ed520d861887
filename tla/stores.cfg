CONSTANTS
  Tasks = {t1, t2}
  Files = {f1}
  Data = {d1, d2}
  Torn = torn
  Absent = absent
  NoCall = nocall
  MaxLen = 2
  Builds = {2, 4}
  MaxTime = 7
  Slack = 1
  NotSaved = none
SPECIFICATION StoresSpec
SYMMETRY Alike
INVARIANTS
  StoresInv
  SyncedClockIsTrue
  TimesArePlausible
PROPERTIES
  FilesAreAtomic
  AfterACutNothingIsStored
  RestartKeepsTheTime
