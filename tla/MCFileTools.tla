------------------------------ MODULE MCFileTools ------------------------------
EXTENDS FileTools, TLC
Symmetry == Permutations(Runs) \cup Permutations(Texts)
===============================================================================
