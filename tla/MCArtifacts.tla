---------------------------- MODULE MCArtifacts ----------------------------
EXTENDS Artifacts, TLC

Symmetry == Permutations(Tasks)
=============================================================================
