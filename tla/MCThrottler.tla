----------------------------- MODULE MCThrottler -----------------------------
(***************************************************************************)
(* Throttler for TLC: a user's calls of one API route, and two clients     *)
(* that ask for a code for one phone number.                               *)
(***************************************************************************)
EXTENDS Throttler, TLC

CONSTANTS alice, phone, here, there, s1, s2

CallsApi == [route |-> "api", user |-> alice, ip |-> here, subject |-> None]
AsksForCode(ip) == [route |-> "phone", user |-> None, ip |-> ip, subject |-> phone]

MCClients == {{CallsApi}, {AsksForCode(here), AsksForCode(there)}}
MCRequest == UNION MCClients

MCEnvLimit == [n \in Name |-> 2]
MCPinned == <<"phone", "phone">> :> 1

MCSlot == {s1, s2}
SlotSymmetry == Permutations(MCSlot)

=============================================================================
