--------------------------- MODULE MCOfflineShell ---------------------------
EXTENDS OfflineShell
=============================================================================
