---------------------------- MODULE MCSocksAuth ----------------------------
(* SocksAuth for TLC: bytes 0..3, so that a length of 4 overflows, and      *)
(* endpoints with no, partial, short and over-long credentials.             *)
EXTENDS SocksAuth

MCChar == {2, 3}

MCCredentials == [user : {<<>>, <<3>>, <<2, 3, 2, 2>>}, pass : {<<>>, <<2, 3>>}]
=============================================================================
