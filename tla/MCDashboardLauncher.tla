------------------------ MODULE MCDashboardLauncher ------------------------
(* DashboardLauncher with invocations that are interchangeable.            *)
EXTENDS DashboardLauncher, TLC

MCSymmetry == Permutations(Invocation)

=============================================================================
