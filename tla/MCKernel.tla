------------------------------- MODULE MCKernel -------------------------------
\* Memory 1 is the seed; memory 2 is added to two criteria.
EXTENDS Kernel

SharedMemory == {<<"SC", 2>>, <<"SHC", 2>>}
===============================================================================
