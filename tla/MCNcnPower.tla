----------------------------- MODULE MCNcnPower ------------------------------
(* A manager and a worker; all storage nodes are excluded.                 *)
EXTENDS NcnPower
CONSTANTS m2, w1
MCHosts == {m2, w1}
MCGroups == <<{m2}, {}, {w1}>>
=============================================================================
