------------------------------- MODULE IsoTime -------------------------------
(***************************************************************************)
(* The lab controller's timestamps (lab_controller/database.py, _iso_now   *)
(* and _iso_after).  Every time the controller stores is the text of a UTC *)
(* datetime, and every comparison of two of them, in SQL and in Python, is *)
(* a comparison of texts.  datetime.isoformat() writes the fraction of a   *)
(* second only when it is not zero:                                        *)
(*                                                                         *)
(*     2026-08-16T10:00:05Z            a whole second                      *)
(*     2026-08-16T10:00:05.250000Z     any other instant of that second    *)
(*                                                                         *)
(* and '.' sorts before 'Z', so the text of a whole second sorts AFTER     *)
(* every other text of the same second.  This module is that order.        *)
(***************************************************************************)
EXTENDS Naturals

CONSTANT
  Micros          \* instants in a second: 1000000 in the code

ASSUME MicrosAssumption == Micros \in Nat /\ Micros >= 2

\* An instant: the part of the text up to the second, and the fraction.
Stamp == [sec : Nat, us : 0 .. (Micros - 1)]

(***************************************************************************)
(* The order of time itself.                                               *)
(***************************************************************************)
Earlier(a, b) == a.sec < b.sec \/ (a.sec = b.sec /\ a.us < b.us)

NotAfter(a, b) == Earlier(a, b) \/ a = b

\* t + seconds: timedelta(seconds=...) leaves the fraction alone.
After(t, seconds) == [t EXCEPT !.sec = @ + seconds]

\* The next instant the clock can show.
Following(t) ==
  IF t.us + 1 < Micros
    THEN [t EXCEPT !.us = @ + 1]
    ELSE [sec |-> t.sec + 1, us |-> 0]

(***************************************************************************)
(* The order of the texts.                                                 *)
(***************************************************************************)

\* The fraction, as the texts of one second are sorted.
FractionRank(t) == IF t.us = 0 THEN Micros ELSE t.us

TextLess(a, b) ==
  \/ a.sec < b.sec
  \/ a.sec = b.sec /\ FractionRank(a) < FractionRank(b)

TextLeq(a, b) == TextLess(a, b) \/ a = b
==============================================================================
