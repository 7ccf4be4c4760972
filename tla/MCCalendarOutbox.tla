--------------------------- MODULE MCCalendarOutbox ---------------------------
(***************************************************************************)
(* Instances of CalendarOutbox for TLC.                                    *)
(***************************************************************************)
EXTENDS CalendarOutbox
CONSTANTS w1, w2
=============================================================================
