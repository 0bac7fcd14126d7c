----------------------------- MODULE MCService -----------------------------
EXTENDS Service, TLC

CONSTANTS d1, d2, c1, c2

\* the kinds of request, on both sensors, on one, and from one to the other
MCRequests ==
  {[kind |-> "apply", targets |-> {d1, d2}, source |-> None, sec |-> {},
     change |-> Change({"t"}, FALSE, 0, 0, "radar")],
   [kind |-> "apply", targets |-> {d1}, source |-> None, sec |-> {},
     change |-> Change({"s", "t"}, TRUE, 1, 1, "radar")],
   [kind |-> "rollback", targets |-> {d1}, source |-> None, sec |-> {}, change |-> None],
   [kind |-> "clone", targets |-> {d2}, source |-> d1, sec |-> {"m", "t"}, change |-> None]}
=============================================================================
