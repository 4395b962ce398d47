-------------------------- MODULE MCStreamHistory --------------------------
(* Ops that undo, refuse and depend on each other. *)
EXTENDS StreamHistory

r == <<1>>
a == <<2>>
b == <<3>>
c == <<4>>

MCStart == Box(r, <<Box(a, << >>), Leaf(b)>>)
MCOps == [add    |-> [tag |-> "InsertChild", parent |-> a, child |-> Leaf(c)],
          remove |-> [tag |-> "RemoveNode", target |-> c],
          move   |-> [tag |-> "MoveNode", target |-> b, parent |-> a],
          drop   |-> [tag |-> "RemoveNode", target |-> a],
          set    |-> [tag |-> "UpdateProp", target |-> b, value |-> 1]]
=============================================================================
