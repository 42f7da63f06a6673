--------------------- MODULE MC_IngestViewMaterializer ---------------------
(***************************************************************************)
(* Instances of IngestViewMaterializer for TLC.                            *)
(***************************************************************************)
EXTENDS IngestViewMaterializer

\* The date-bound pairs of a view whose raw data was updated twice within
\* second 1 and once in second 2 (<<second, microsecond>>): a historical
\* query up to the first update, then the deltas between updates.  The
\* first delta's bounds give the same TABLE_NAME_DATE_FORMAT text.
DateBoundPairs ==
    {[lower |-> Nil, upper |-> <<1, 0>>],
     [lower |-> <<1, 0>>, upper |-> <<1, 5>>],
     [lower |-> <<1, 5>>, upper |-> <<2, 0>>]}
=============================================================================
