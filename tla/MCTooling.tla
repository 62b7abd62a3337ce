----------------------------- MODULE MCTooling -----------------------------
(* A small checkout: one file of each of three layers -- arch_rules         *)
(* tolerates one import between two of them, and one is a package --, two   *)
(* writers of the log and two runs of the tools.                            *)
EXTENDS Tooling

TheFiles == {"engine/playback/controller.py", "cache/__init__.py", "server/app.py"}

TheLayers == [f \in TheFiles |->
  CASE f = "engine/playback/controller.py" -> "engine"
    [] f = "cache/__init__.py" -> "cache"
    [] f = "server/app.py"     -> "server"]

TheNames == [f \in TheFiles |->
  CASE f = "engine/playback/controller.py" -> "controller.py"
    [] f = "cache/__init__.py" -> "__init__.py"
    [] f = "server/app.py"     -> "app.py"]

TheKnown == {<<"engine/playback/controller.py", "cache">>}

Symmetry == Permutations(Writers) \union Permutations(Tools)

=============================================================================
