\* Two volumes and two kills; three intervals.
CONSTANTS
  v1 = v1
  v2 = v2
  Volume = {v1, v2}
  Pool = {"first", "second"}
  DefaultPool = "first"
  Device <- MCDevice
  FirstData <- MCFirstData
  MaxKills = 2
  Absent = Absent
  Torn = Torn
  Controller = {1, 2}
  Never = Never
  MaxTime = 3
  Config <- MCConfig
  GoodName = {"first", "second", "third"}
SPECIFICATION FairSpec
CHECK_DEADLOCK FALSE
INVARIANTS ServesMigrated NeverWithoutCopy LastPingWasSent
PROPERTIES InstallTsStable NodePluginStarts
