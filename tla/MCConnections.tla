--------------------------- MODULE MCConnections ---------------------------
(***************************************************************************)
(* Connections on a small instance: one account owns every token and wrote *)
(* every report, and all belong to one organisation.                       *)
(***************************************************************************)
EXTENDS Connections

CONSTANTS member, org

MCOwnerOf == [k \in Token |-> member]
MCAuthorOf == [r \in Report |-> member]
MCOrgOf == [u \in Account |-> org]
=============================================================================
