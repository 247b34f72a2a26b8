--------------------------- MODULE MCNotifications ---------------------------
(***************************************************************************)
(* Alerts and reminders share nothing but the mail and the switches, so a  *)
(* behaviour is about the one or the other: the bounds of the other are    *)
(* spent at its start.                                                     *)
(***************************************************************************)
EXTENDS Notifications

CONSTANTS e1, e2

LastMonth == CHOOSE m \in Months : \A n \in Months : n =< m

\* Two events, named in the order they start in.  Months do not turn.
AboutReminders ==
    /\ InitAt(LastMonth, 0, {}, MaxSaves, 0)
    /\ start[e1] =< start[e2]

\* The last tick, and both events behind it.  One change is left.
AboutAlerts ==
    /\ InitAt(StartMonth, MaxTime, Events, 0, MaxChanges - 1)
    /\ start = [e \in Events |-> MaxTime]

MCSpec == (AboutReminders \/ AboutAlerts) /\ [][Next]_vars /\ Fairness
=============================================================================
