\* Two test jobs and a reserve job, or one and two, whose claims never overlap;
\* one cluster in stock, one or two to launch.
CONSTANTS
  c1 = c1
  c2 = c2
  c3 = c3
  s1 = s1
  s2 = s2
  t1 = t1
  t2 = t2
  Clusters = {c1, c2, c3}
  TestJobs = {t1, t2}
  StockJobs = {s1, s2}
  InitialStock = {c1}
  ReserveCount = 1
  NumRetries = 1
  NoCluster = NoCluster
SPECIFICATION SerialSpec
SYMMETRY Symmetry
CONSTRAINT Small
INVARIANTS   ReserveBounded PrivateStaysPrivate
