----------------------------- MODULE MCEstimation -----------------------------
(***************************************************************************)
(* Estimation for TLC: dates around the ends of short months, bodies that  *)
(* name the dates in every combination, amounts that round differently in  *)
(* the currencies below and above the dollar.                              *)
(***************************************************************************)
EXTENDS Estimation

\* 30 January 2025, and leads required by then, a month later, or never.
MCToday == [month |-> 12, day |-> 30]
MCRequired == {None, [month |-> 12, day |-> 15], [month |-> 14, day |-> 31]}

Nothing ==
    [currency |-> None, markup |-> None, discount |-> None, manual |-> None,
     resources |-> None, expenses |-> None, start |-> None, months |-> None, end |-> None]

Team == <<[grade |-> "L2", onsite |-> 1, offshore |-> 1, rate |-> 15049],
          [grade |-> "L4", onsite |-> 0, offshore |-> 1, rate |-> 333]>>

Early == [month |-> 11, day |-> 31]
Late  == [month |-> 14, day |-> 31]

MCBodies ==
    {[Nothing EXCEPT !.resources = Team, !.markup = 15, !.start = Late, !.months = 1],
     [Nothing EXCEPT !.expenses = <<777>>, !.currency = "KWD", !.discount = 100],
     [Nothing EXCEPT !.manual = 12345, !.currency = "BHD", !.end = Early],
     [Nothing EXCEPT !.manual = 0, !.months = 1, !.end = Late],
     [Nothing EXCEPT !.resources = <<>>, !.start = Late, !.end = Early],
     [Nothing EXCEPT !.discount = 101],
     [Nothing EXCEPT !.start = Early, !.end = Late]}
===============================================================================
