------------------------------- MODULE MCRtc -------------------------------
(* Rtc shortly before midnight: before a leap day, the end of February, the  *)
(* end of a year, and in the middle of a day.                                *)
EXTENDS Rtc

MCStarts ==
    {<<59, 59, 23, 28, 2, 24>>, <<58, 59, 23, 28, 2, 23>>,
     <<58, 59, 23, 31, 12, 23>>, <<57, 59, 11, 10, 2, 0>>}
=============================================================================
