------------------------- MODULE MCAuctionReminders -------------------------
(***************************************************************************)
(* AuctionReminders for TLC.  Two sale dates, so that the sale can move    *)
(* and move back; offsets inside and outside the near-auction window; a    *)
(* default interval that is longer than what is between two thresholds.    *)
(***************************************************************************)
EXTENDS AuctionReminders

ReminderOffsets == {{0, 2}, {0}}
ReminderDates == {2, 4}
ReminderEvents == ReminderDates \X UNION ReminderOffsets
=============================================================================
