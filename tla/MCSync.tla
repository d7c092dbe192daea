---- MODULE MCSync ----
(* Spring 2026, from Monday, March 30 (day 0): April 1 is day 2, May 1 day 32, and
   May ends on a Sunday (day 62), so that a backfill of day 60 records a chunk that is
   never extended.  People are active whenever anybody is. *)
EXTENDS Sync

CONSTANTS r1, old, alias, new, person

FirstDays == {0, 2, 32, 63, 93}
StartOf == [d \in 0 .. LastDay |-> CHOOSE f \in FirstDays :
              f <= d /\ \A g \in FirstDays : g <= d => g <= f]
EndOf == [d \in 0 .. LastDay |-> (CHOOSE f \in FirstDays :
            f > d /\ \A g \in FirstDays : g > d => f <= g) - 1]

\* alias is a second account of old's bot.
Bots == [l \in Logins |-> IF l = alias THEN old ELSE l]
\* Two days of a week that two months share, and one at the end of May, after day 60.
Busy == Logins \X {29, 33, 61}
WholeWeeks == {[first |-> 28, last |-> 34]}
====
