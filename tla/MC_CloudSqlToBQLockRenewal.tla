--------------------- MODULE MC_CloudSqlToBQLockRenewal ---------------------
EXTENDS CloudSqlToBQLockRenewal, TLC

CONSTANTS PRIMARY, s_state, s_operations, s_other, r1, j1

OneStateRefresh == (j1 :> <<s_state, PRIMARY>>)
=============================================================================
