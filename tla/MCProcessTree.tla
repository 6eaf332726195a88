--------------------------- MODULE MCProcessTree ----------------------------
EXTENDS ProcessTree
=============================================================================
