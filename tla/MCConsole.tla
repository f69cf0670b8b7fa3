------------------------------ MODULE MCConsole ------------------------------
EXTENDS Console

CONSTANTS product, other
=============================================================================
