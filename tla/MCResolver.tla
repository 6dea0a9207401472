----------------------------- MODULE MCResolver -----------------------------
(***************************************************************************)
(* Small internets for Resolver.  The names "w" and its name servers' "h"  *)
(* and "g" are in the zone "com", not in "net"; "ra", "rb" are roots.      *)
(***************************************************************************)
EXTENDS Resolver

OneRoot == <<"ra">>
TwoRoots == <<"ra", "rb">>
InCom == [n \in Names |-> <<"com">>]
InComOnly == [n \in Names |-> {"com"}]

Say(code, answers) == [rcode |-> code, answers |-> answers, ns |-> {}]
Refer(host, glue) ==
  [rcode |-> "NOERROR", answers |-> {},
   ns |-> {[zone |-> "com", host |-> host, glue |-> glue]}]

Both(host, glue) == [Refer(host, None) EXCEPT !.ns = @ \cup Refer(host, glue).ns]
Elsewhere ==
  [rcode |-> "NOERROR", answers |-> {},
   ns |-> {[zone |-> "net", host |-> "h", glue |-> "tld"]}]
Hosts == Names \ {"w"}
Glueless == {Refer(h, None) : h \in Hosts}

\* Glue leads from the roots over the server of "com" to that of its names;
\* referrals without glue go round in circles.
Layered ==
  [s \in Servers, q \in Questions |->
     CASE s \in {"ra", "rb"} -> {Both("h", "tld"), Refer("h", None)}
       [] s = "tld" -> {Refer("h", "auth"), Say("NXDOMAIN", {}), Say("SERVFAIL", {})}
                       \cup Glueless
       [] s = "auth" -> {Say("NOERROR", {"auth"}), Say("NOERROR", {Other, "tld"}),
                         Elsewhere, Say("REFUSED", {Other})}
                        \cup Glueless]

\* Two servers of "com" give each other's glue.
GlueLoop ==
  [s \in Servers, q \in Questions |->
     {Say("NOERROR", {Other}), Refer("h", IF s = "tld" THEN "auth" ELSE "tld")}]

=============================================================================
