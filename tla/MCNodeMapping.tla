--------------------------- MODULE MCNodeMapping ----------------------------
(* NodeMapping for TLC.                                                    *)
EXTENDS NodeMapping
=============================================================================
