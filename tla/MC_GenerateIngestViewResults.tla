--------------------- MODULE MC_GenerateIngestViewResults ---------------------
EXTENDS GenerateIngestViewResults

\* Four snapshot times over three update dates: 1 on date 0, 2 and 3 on
\* date 1, 4 on date 2.
MCDatetimes == 1..4
=============================================================================
