--------------------------- MODULE MCPrefsWatcher ---------------------------
(* Small instances of PrefsWatcher for TLC. *)
EXTENDS PrefsWatcher

MCBadEdits == {"bogus", "torn"}

=============================================================================
