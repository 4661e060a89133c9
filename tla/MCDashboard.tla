---------------------------- MODULE MCDashboard ----------------------------
(* Small instances of DashboardHistory. *)
EXTENDS DashboardHistory, TLC

CONSTANTS r1, r2, x, y, d1

MCGenerated == {<<>>, <<x, y>>, <<y, x>>}
Symmetry == Permutations({r1, r2}) \cup Permutations({x, y})
=============================================================================
