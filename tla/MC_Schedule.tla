----------------------------- MODULE MC_Schedule ----------------------------
(* The days around a month's ends, the weekdays around a week's, in the    *)
(* first and the last timezone of the world.                               *)
EXTENDS Schedule

EdgeSchedules == [cadence : {"monthly"}, day : {1, 29, 30, 31, Last}]
                   \cup [cadence : {"weekly"}, day : {0, 1}]
EdgesOfTheDay == {-12, 14}
=============================================================================
