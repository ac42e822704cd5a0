SPECIFICATION Spec
CONSTANTS
  home = home
  away = away
  blocked = blocked
  Total = 4
  BatchIds <- GoodAndBad
  URLs <- AllURLs
  Origin <- Origins
  Verdict <- Verdicts
  Target <- ThirdBlocked
  Method <- PostThenPut
  Normalized <- FourthBad
  EnvConcurrency = 0
  BatchConcurrency = 2
  MaxRedirects = 2
  RequestTimeout = 1
  JobTimeout = 2
INVARIANTS
  TypeOK
  EachRequestOnce
  PackageComplete
  SecretsStayHome
  FetchWithinDeadline
  BodyKeepsMethod
PROPERTIES
  BatchEnds
CHECK_DEADLOCK FALSE
