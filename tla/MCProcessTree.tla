---------------------------- MODULE MCProcessTree ----------------------------
EXTENDS ProcessTree
==============================================================================
