----------------------------- MODULE MCIpaScan -----------------------------
(* A node with two children, a node that shares one of them, and a node    *)
(* without children.                                                       *)
EXTENDS IpaScan

MCCounts  == 0..3
MCScores  == 0..2
MCChildOf == {<<"c1", "a">>, <<"c2", "a">>, <<"c2", "b">>}

=============================================================================
