---------------------------- MODULE MCPageRender ----------------------------
EXTENDS PageRender

\* Logs up to one line more than the sets hold, each line whole or cut after
\* its first field.
MCLogs == UNION {[1..n -> {1, Fields}] : n \in 0..LinesPerSet * MaxSets + 1}
=============================================================================
