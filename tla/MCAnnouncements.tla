--------------------------- MODULE MCAnnouncements ---------------------------
(***************************************************************************)
(* Recordings of up to four packets on three ticks, in any order and with  *)
(* up to two texts each, skimmed by one to three threads.                  *)
(***************************************************************************)
EXTENDS Announcements

CONSTANTS start, over

MCPacket ==
  [tick : 0..2, texts : {<<>>, <<start>>, <<over, start>>}]
==============================================================================
