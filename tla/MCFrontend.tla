------------------------------ MODULE MCFrontend ------------------------------
(* Two fetch windows of two instructions; any instruction may be predicted *)
(* to jump into the middle of a window.                                    *)
EXTENDS Frontend

MCPredictions == {NotTaken, 1}
=============================================================================
