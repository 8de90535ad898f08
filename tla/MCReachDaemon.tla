---------------------------- MODULE MCReachDaemon ----------------------------
(***************************************************************************)
(* The daemon with a producer that publishes only the topics a run is about,  *)
(* so that a few events fill the channels.                                   *)
(***************************************************************************)
EXTENDS ReachDaemon

CONSTANT Published  \* the topics the producers publish

ASSUME PublishedAssumption == Published \subseteq Topics \ {"ack"}

MCPublished == \A e \in DOMAIN bus : bus[e] \in Published \cup {"ack"}
=============================================================================
