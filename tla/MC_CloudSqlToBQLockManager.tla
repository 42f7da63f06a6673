--------------------- MODULE MC_CloudSqlToBQLockManager ---------------------
(***************************************************************************)
(* Instances of CloudSqlToBQLockManager for TLC.                           *)
(***************************************************************************)
EXTENDS CloudSqlToBQLockManager, TLC

CONSTANTS PRIMARY, SECONDARY, s_state, s_operations, s_other, r1, r2, j1, j2, j3

\* One refresh job per (schema, instance) it refreshes: a STATE refresh and
\* an OPERATIONS refresh of PRIMARY, and a refresh of a schema nothing
\* blocks (CASE_TRIAGE, say) of SECONDARY.
OneJobPerTarget ==
    LET target == (j1 :> <<s_state, PRIMARY>>) @@ (j2 :> <<s_operations, PRIMARY>>)
                    @@ (j3 :> <<s_other, PRIMARY>>)
    IN [j \in Jobs |-> target[j]]

\* Two checklist runs of a STATE refresh of PRIMARY overlap.
TwoJobsOneTarget ==
    (j1 :> <<s_state, PRIMARY>>) @@ (j2 :> <<s_state, PRIMARY>>)
=============================================================================
