---------------------------- MODULE MCCommercials ----------------------------
(* Commercials with a few requests that share fields and tables in part.    *)
EXTENDS Commercials

\* A body that names nothing, one that names everything, and bodies in between.
SomeBodies ==
    {{}, Field \cup Child, {"manual"}, {"resources"} \cap Child,
     {"terms"} \cup ({"sdlc"} \cap Child)}
=============================================================================
