------------------------------ MODULE MCCleanup ------------------------------
\* Two environments, one of them empty, pages of one cluster, a cluster of another
\* account that is listed first, and resources of every kind: named after their
\* cluster, named otherwise, and left by clusters of long ago.
EXTENDS Cleanup

MCOrder == <<"foreign", "one", "other">>
MCEnvOf == [c \in Clusters |-> "int"]
MCInitially == {
  [c \in Clusters |-> IF c = "foreign" THEN "ready" ELSE s] : s \in {"installing", "ready"}}
  \cup {[c \in Clusters |-> IF c = "other" THEN "absent" ELSE "ready"]}

Made(kind, user, found, words, vpc) ==
  [kind |-> kind, user |-> user, found |-> found, words |-> words, vpc |-> vpc]

MCAbout == [
  registry |-> Made("bucket", "one", "one", {"osde2e"}, "nobody"),
  velero   |-> Made("bucket", "other", "nobody", {"managed-velero"}, "nobody"),
  provider |-> Made("oidc", "other", "other", {"osde2e"}, "nobody"),
  role     |-> Made("role", "foreign", "foreign", {"osde2e"}, "nobody"),
  worker   |-> Made("instance", "one", "one", {"osde2e"}, "nobody"),
  network  |-> Made("vpc", "other", "other", {"osde2e"}, "nobody"),
  group    |-> Made("sg", "other", "other", {}, "network"),
  address  |-> Made("address", "nobody", "nobody", {}, "nobody")]

MCConfigs ==
  {[steps |-> s, dry |-> FALSE, old |-> {"one"}, target |-> "one"] :
     s \in {{"sg", "vpc"}, {"bucket"}, 
           {"clusters", "oidc", "role"}, {"cluster", "instance", "address"}}}
  \cup
  {[steps |-> {"clusters", "cluster", "oidc", "role", "address"}, dry |-> TRUE,
    old |-> {"one"}, target |-> "one"]}
=============================================================================
