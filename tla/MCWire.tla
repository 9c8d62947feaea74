------------------------------- MODULE MCWire -------------------------------
(***************************************************************************)
(* Wire for TLC: numbers that fill one, two, three and four bytes, bytes   *)
(* at both ends of their range.                                            *)
(***************************************************************************)
EXTENDS Wire

MCSeqNums == {0, 1, 255, 256, 65535, 66051, 2147483647}
=============================================================================
