---------------------------- MODULE MCVcpAccess ----------------------------
(***************************************************************************)
(* Values for VcpAccess: tables of no, one and five bytes, two of which    *)
(* differ in the middle fragment only, and a capabilities string with a    *)
(* blank inside and two at its end.                                        *)
(***************************************************************************)
EXTENDS VcpAccess

CONSTANTS a, b

MCTables       == {<<>>, <<b>>, <<a, b, b, a, a>>, <<a, b, a, a, a>>}
MCCapabilities == <<a, Blank, b, Blank, Blank>>
============================================================================
