--------------------------- MODULE MCDeployerScan ---------------------------
(* Small instances of DeployerScan for TLC.                                *)
EXTENDS DeployerScan

\* A worker each at the start, one for every phone that comes back, and one each
\* for the scan that the stop overtakes: in host mode the bound is never met.
Workers == [m \in Modes |-> IF m = "host" THEN 2 * Cardinality(Serial) + MaxUnplugs ELSE 3]
=============================================================================
