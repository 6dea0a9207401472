----------------------------- MODULE MCDnsCache -----------------------------
(***************************************************************************)
(* Instances of DnsCache for TLC.  In the spelling instance "A" and "a"    *)
(* are one name; elsewhere every spelling is its own lower case.           *)
(***************************************************************************)
EXTENDS DnsCache

MCLower == [n \in Names |-> IF n = "A" THEN "a" ELSE n]
=============================================================================
