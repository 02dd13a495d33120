--------------------------- MODULE MCSceneStream ---------------------------
(* Instance of SceneStream for TLC: the nodes as model values.              *)
EXTENDS SceneStream, TLC
CONSTANTS n1, n2
=============================================================================
