----------------------- MODULE MCReplicatedPartition -----------------------
(* Three interchangeable brokers; the .cfg files choose the failures.      *)
EXTENDS ReplicatedPartition, TLC

BrokerSymmetry == Permutations(Broker)
=============================================================================
