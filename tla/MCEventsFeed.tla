--------------------------- MODULE MCEventsFeed ---------------------------
(* Instance of EventsFeed for TLC.                                          *)
EXTENDS EventsFeed, TLC
=============================================================================
