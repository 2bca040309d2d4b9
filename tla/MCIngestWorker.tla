--------------------------- MODULE MCIngestWorker ---------------------------
EXTENDS IngestWorker

CONSTANTS a, b

\* Upstream revises a window and then returns to its first content.
ThereAndBack == <<a, b, a>>
=============================================================================
