------------------------- MODULE MCSessionWorkspace -------------------------
(* A repository of a pinned and a source file; graph runs and an SDK caller;  *)
(* a patch of one file, and one that ends with a path outside the workspace.  *)
EXTENDS SessionWorkspace, TLC

Write(f, text) == [file |-> f, text |-> text]
MCPatches == {<<Write("main", "fix")>>,
              <<Write("main", "fix"), Write(Outside, "fix")>>}
Directory(lake, main) == ("lake" :> lake) @@ ("main" :> main)
MCDirectories == {Directory("v1", "old"), Directory("v1", "new")}
MCContents == {"v1", "old", "new", "fix"}
SessionSymmetry == Permutations(GraphRuns) \cup Permutations(Clients \ GraphRuns)
=============================================================================
