---------------------------- MODULE MCBufferCache ----------------------------
EXTENDS BufferCache, TLC

NoInodes == <<>>
OneInode == <<12>>
Symmetry == Permutations(Tasks)
=============================================================================
