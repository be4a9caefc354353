-------------------------------- MODULE MCLFS --------------------------------
\* Keys 0 and 1 are in different partitions when there are two; threads and tables are
\* model values.
EXTENDS LFS, TLC

Symmetries == Permutations(Clients)
==============================================================================
