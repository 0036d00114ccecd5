\* One reserve job and one test job, with fairness; one cluster in stock, one to launch;
\* every OCM call is tried twice.
CONSTANTS
  c1 = c1
  c2 = c2
  s1 = s1
  t1 = t1
  Clusters = {c1, c2}
  TestJobs = {t1}
  StockJobs = {s1}
  InitialStock = {c1}
  ReserveCount = 2
  NumRetries = 2
  NoCluster = NoCluster
SPECIFICATION FairSpec
PROPERTIES RetiredForGood RunsEnd
