------------------------------- MODULE MCProxy -------------------------------
(***************************************************************************)
(* A small instance of InferenceProxy for TLC: three requests of a         *)
(* workload with a quota of one, three of one whose quota is the engine's  *)
(* limit, and room for two waiters.                                        *)
(***************************************************************************)
EXTENDS InferenceProxy, TLC

CONSTANTS s1, s2, s3, d1, d2, d3

MCRequests == {s1, s2, s3, d1, d2, d3}
MCWorkloads == {"spam", "semantic_report"}
MCWorkloadOf ==
  [r \in MCRequests |-> IF r \in {s1, s2, s3} THEN "spam" ELSE "semantic_report"]
MCWorkloadLimit == ("spam" :> 1) @@ ("semantic_report" :> 2)
=============================================================================
