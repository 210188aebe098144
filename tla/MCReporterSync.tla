--------------------------- MODULE MCReporterSync ---------------------------
EXTENDS ReporterSync
=============================================================================
