--------------------------- MODULE MCDatabasePool ----------------------------
EXTENDS DatabasePool

MCMessages == 1 .. 4
=============================================================================
