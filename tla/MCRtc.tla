------------------------------- MODULE MCRtc -------------------------------
(* The last step before New Year, and a date in another month.  Two times  *)
(* of day, so that midnight is never far.                                  *)
EXTENDS Rtc

MCFirstDate == [day |-> 31, month |-> 12, year |-> 24]
MCSetDates  == {[day |-> 28, month |-> 2, year |-> 2025]}
=============================================================================
