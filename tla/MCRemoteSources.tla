--------------------------- MODULE MCRemoteSources ---------------------------
EXTENDS RemoteSources, TLC

\* Nothing tells one URL from another, nor one text from another.
Symmetric == Permutations(Urls) \union Permutations(Texts)
=============================================================================
