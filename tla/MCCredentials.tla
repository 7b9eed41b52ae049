---------------------------- MODULE MCCredentials ----------------------------
(***************************************************************************)
(* Credentials for TLC: two resets of one user, three requests that share *)
(* a reset, three that share a link.  With four requests a token is made    *)
(* and brought back up to three times; the other cases are these, renamed.  *)
(***************************************************************************)
EXTENDS Credentials, TLC

CONSTANTS link1, reset1, reset2, user1

MCRequest == 1..4
MCLink == {link1}
MCReset == {reset1, reset2}
MCUser == {user1}
MCUserOf == [t \in MCReset |-> user1]
MCUses == {<<reset1, reset1, reset2, reset2>>, <<reset1, reset1, reset1, link1>>,
           <<link1, link1, link1, reset1>>}

=============================================================================
