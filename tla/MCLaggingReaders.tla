-------------------------- MODULE MCLaggingReaders --------------------------
(***************************************************************************)
(* Finite instances of the read commands for TLC: a command reads through  *)
(* one node that is up to date, or through a load-balanced endpoint whose  *)
(* nodes lag.                                                              *)
(***************************************************************************)
EXTENDS RegistryReaders, TLC

VARIABLE lagging   \* the endpoint may answer from a node that is behind

EndpointInit == ReaderInit /\ lagging \in BOOLEAN
SyncedStep == ~lagging /\ ReaderNext /\ UNCHANGED lagging
LaggingStep == lagging /\ LagNext /\ UNCHANGED lagging
EndpointNext == SyncedStep \/ LaggingStep
EndpointSpec == EndpointInit /\ [][EndpointNext]_<<readerVars, lagging>>

\* Accounts and digests are interchangeable: contract and commands only compare them.
Symmetry == Permutations(Addr) \cup Permutations(ContentHash)

\* Through one node, what vh list, vh reputation and vh lineage gather page by page while the
\* registry grows is exact: a prefix of the registry or of the account's records, with a
\* consistent score, and a path of parent edges to a root or to the cap.
SyncedIsExact ==
  ~lagging => ListIsPrefix /\ ReputationIsPrefix /\ ScoreConsistent /\ LineageIsPath

\* Through nodes that lag, a reputation is still about the account's first records and a
\* lineage still one chain (readContributorRecords, walkLineage).
LaggingIsSound == lagging => LagReputationIsPrefix /\ LagLineageIsChain
=============================================================================
