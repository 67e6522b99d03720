---------------------------- MODULE MCEditorSync ----------------------------
EXTENDS EditorSyncProps, TLC

CONSTANTS r1, r2

\* No definition names a region.
Perms == Permutations(Regions)
=============================================================================
