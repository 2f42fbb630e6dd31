------------------------ MODULE MCScheduledReminder ------------------------
(* A small instance of ScheduledReminder: days of four instants; a weekly  *)
(* rule in a zone that goes forward by one, one in a zone that goes back,  *)
(* and an interval with its anchor ahead.                                  *)
EXTENDS ScheduledReminder

Forward == [change |-> 5, before |-> 0, after |-> 1]

Back == [change |-> 6, before |-> 1, after |-> 0]

MCRuleOf ==
  [r \in Rules |->
     CASE r = 1 -> [kind |-> "weekly", zone |-> Forward, weekdays |-> {0, 1, 2}, times |-> {1}]
       [] r = 2 -> [kind |-> "weekly", zone |-> Back, weekdays |-> {1, 2}, times |-> {2}]
       [] r = 3 -> [kind |-> "interval", anchor |-> 5, every |-> 3]]
=============================================================================
