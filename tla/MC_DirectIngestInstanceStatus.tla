--------------------- MODULE MC_DirectIngestInstanceStatus ---------------------
(* The status log under two writers, and beside it the US_ND parsers       *)
(* mapping a view's rows; the two share no state, so a step is a step of   *)
(* one of them.  The constants are in the .cfg.                            *)
EXTENDS DirectIngestInstanceStatus, UsNdCustomEnumParsers

StatusAndParsersInit == Init /\ ParserInit

StatusAndParsersNext ==
    \/ Next /\ UNCHANGED parsed
    \/ MapView /\ UNCHANGED vars
=============================================================================
