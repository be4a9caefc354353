------------------------------- MODULE MCBlocks -------------------------------
\* Blocks of two bytes; contents of part of one, and of two and a half.
\* One path is the .tmp of a table, the other the .tmpc it is renamed to.
EXTENDS Blocks, TLC

CONSTANTS a, b, tmp, tmpc
MCRenames == {<<tmp, tmpc>>}
MCContents == {<<a>>, <<a, b, a, a, b>>}
Bounds == torn = {} /\ Cardinality(lost) <= 1
Symmetries == Permutations(Threads)
===============================================================================
