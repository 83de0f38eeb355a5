--------------------------- MODULE MCSlideEditing ---------------------------
EXTENDS SlideEditing
Editors == Permutations(Editor)
=============================================================================
