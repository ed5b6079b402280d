------------------------------ MODULE Serving ------------------------------
(***************************************************************************)
(* The service with the configuration and the policy that its constants    *)
(* stand for: what holds of both in a process that serves.                 *)
(***************************************************************************)
EXTENDS Service, Config, Policy

\* Its limits are the numbers that were written, if none of them was negative; and
\* whatever was written they are positive and small enough for the sums of its handlers.
ServesLimits == up => LimitsExact /\ LoadedLimitsServe

\* The page shows the retention the process applies.
ServesRetention == up => RetentionShown

\* The largest upload takes a bounded number of chunks, none larger than allowed.
ServesChunks == up => ChunksBounded

\* Presets and wildcards accept what README says, misdetected formats apart.
ServesPresets == up => TokensAccept

\* The list the page is told allows what the policy allows.
ServesShown == up => ShownFaithfully

\* A list of types allows what its members allow.
ServesTokens == up => TokensAddUp
=============================================================================
