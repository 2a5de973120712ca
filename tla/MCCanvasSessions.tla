-------------------------- MODULE MCCanvasSessions --------------------------
(* Model checking of CanvasSessions: tabs are interchangeable, which the    *)
(* safety properties may use.                                               *)
EXTENDS CanvasSessionsProps, TLC

Symmetry == Permutations(Tabs)
=============================================================================
