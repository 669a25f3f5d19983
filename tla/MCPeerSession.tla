----------------------------- MODULE MCPeerSession -----------------------------
(* Three logins for TLC, the least after which a number that is closed     *)
(* twice may have become that of the third connection, and a question in   *)
(* the last session, which the threads of the others may disturb.          *)
EXTENDS PeerSession

CONSTANTS ann, bob, p1, p2

ThreeLogins == <<{<<ann, p1>>}, {<<bob, p2>>}, {<<bob, p1>>}>>
OneQuestion == <<0, 0, 1>>
================================================================================
