------------------------------ MODULE MCPackets ------------------------------
(***************************************************************************)
(* Values for Packets: values of a feature that differ in one byte or are  *)
(* all zero, fragments of no, one and two bytes and one with bytes of the  *)
(* protocol in it.                                                         *)
(***************************************************************************)
EXTENDS Packets

MCValues    == {<<0, 100, 0, 50>>, <<0, 100, 0, 51>>, <<0, 0, 0, 0>>, <<255, 255, 110, 136>>}
MCFragments == {<<>>, <<0>>, <<40, 41>>, <<110, 128, 190>>}
=============================================================================
