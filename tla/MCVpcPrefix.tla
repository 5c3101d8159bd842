----------------------------- MODULE MCVpcPrefix -----------------------------
(***************************************************************************)
(* The instance of VpcPrefix for TLC: two IPv4 prefixes and an IPv6 prefix *)
(* of one VPC.                                                             *)
(***************************************************************************)
EXTENDS VpcPrefix

CONSTANTS r1, r2

Groups == <<1, 1, 2>>
Capacities == <<1, 1, 1>>

\* r1 asks for a dual-stack interface, with the IPv6 item first in caller
\* order, and for prefix 2; r2 asks for prefix 2 and then for prefix 1.
Requests == <<r1, r1, r1, r2, r2>>
WorkGroups == <<2, 1, 1, 1, 1>>
WantedPrefixes == <<Automatic, Automatic, 2, 2, 1>>
Primaries == <<2, 2, 3, 4, 5>>
=============================================================================
