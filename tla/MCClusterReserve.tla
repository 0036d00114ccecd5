-------------------------- MODULE MCClusterReserve --------------------------
(* Small instances of ClusterReserve for TLC.                              *)
EXTENDS ClusterReserve, TLC

Symmetry == Permutations(TestJobs) \cup Permutations(StockJobs)
              \cup Permutations(Clusters \ InitialStock)

\* The bound on the runs that start and on the clusters there are: one test job
\* and two reserve jobs over three clusters, or two test jobs and one reserve job
\* over two.
Started(jobs) == {j \in jobs : pc[j] # "idle"}
Small ==
  \/ Cardinality(Started(TestJobs)) <= 1
  \/ /\ Cardinality(Started(StockJobs)) <= 1
     /\ Cardinality({c \in Clusters : ocm[c].state # "absent"}) <= 2

=============================================================================
