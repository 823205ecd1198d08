------------------------ MODULE MCArtifactPublication ------------------------
(* Two operations after one another, so that a request of the first can    *)
(* take effect during the second.                                          *)
EXTENDS ArtifactPublication
==============================================================================
