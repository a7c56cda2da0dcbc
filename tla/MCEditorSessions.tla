--------------------------- MODULE MCEditorSessions ---------------------------
(* EditorSessions for TLC: sessions and languages are interchangeable. *)
EXTENDS EditorSessions, TLC

Symmetry == Permutations(Sessions) \cup Permutations(Langs)
=============================================================================
