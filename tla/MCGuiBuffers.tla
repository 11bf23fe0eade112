---------------------------- MODULE MCGuiBuffers ----------------------------
(***************************************************************************)
(* Instances of GuiBuffers: the main buffer and others, and two of them    *)
(* merged in the layout.                                                   *)
(***************************************************************************)
EXTENDS GuiBuffers, TLC

CONSTANTS core, b1, b2, w1, w2

ThreeBuffers == {core, b1, b2}
OneWindow == {w1}
TwoWindows == {w1, w2}
\* Windows have no order in the module.
WindowSymmetry == Permutations(TwoWindows)
\* The layout has the main buffer with b1 after it, at number 2, and not b2.
LayoutNumbers == [b \in Buffer |-> IF b = b2 THEN 0 ELSE 2]
LayoutOrders == [b \in Buffer |-> IF b = b1 THEN 1 ELSE 0]
OneHidden == {b1}
AllCommands == {"zoom", "layout", "split", "options"}
=============================================================================
