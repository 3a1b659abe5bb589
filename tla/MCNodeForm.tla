----------------------------- MODULE MCNodeForm -----------------------------
EXTENDS NodeForm, TLC

EditorSymmetry == Permutations(Editors)
=============================================================================
