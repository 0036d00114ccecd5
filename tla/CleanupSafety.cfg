\* Two polls of DeleteCluster and pages of one cluster. The command stops.
SPECIFICATION FairSpec
CONSTANTS
  Envs = {"int", "stage"}
  Home = "int"
  Order <- MCOrder
  EnvOf <- MCEnvOf
  Ours = {"one", "other"}
  Resources = {"registry", "velero", "provider", "role", "worker", "network", "group", "address"}
  About <- MCAbout
  Nobody = "nobody"
  PageSize = 1
  Polls = 2
  Initially <- MCInitially
  Configs <- MCConfigs
CHECK_DEADLOCK FALSE
INVARIANTS OnlyOrphans Accounted
PROPERTY CleanupEnds
