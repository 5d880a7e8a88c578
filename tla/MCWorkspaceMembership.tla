----------------------- MODULE MCWorkspaceMembership -----------------------
(* Instances of WorkspaceMembership for TLC.                               *)
EXTENDS WorkspaceMembership, TLC

\* Users, documents and requests are interchangeable; no property is temporal
\* beyond a single step.
Symmetry == Permutations(Users) \cup Permutations(DocIds)
              \cup Permutations(Requests) \cup Permutations(Workspaces)
=============================================================================
