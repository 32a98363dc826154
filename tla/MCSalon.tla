------------------------------ MODULE MCSalon ------------------------------
(* Three calls: the operations that meet.                                    *)
EXTENDS Salon
CONSTANTS c1, c2, c3
Meet(a, b, c) == [x \in {c1, c2, c3} |-> CASE x = c1 -> a [] x = c2 -> b [] OTHER -> c]
Meetings == {Meet("registration", "master", "login"), Meet("reset", "reset", "forgot"),
             Meet("reset", "change", "login"), Meet("login", "refresh", "refresh"),
             Meet("master", "service", "salon")}
=============================================================================
