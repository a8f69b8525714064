---------------------------- MODULE MCUsageLogs ----------------------------
(* Small instances of UsageLogs for TLC.                                    *)
EXTENDS UsageLogs
=============================================================================
