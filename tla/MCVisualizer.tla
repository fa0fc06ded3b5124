----------------------------- MODULE MCVisualizer -----------------------------
(* Instances of Visualizer for TLC.                                        *)
EXTENDS Visualizer, TLC

CONSTANTS e1, e2, o1, o2, c1, c2
==============================================================================
