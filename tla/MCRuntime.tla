----------------------------- MODULE MCRuntime -----------------------------
EXTENDS Runtime

r == <<1>>
a == <<2>>
b == <<3>>
c == <<4>>
d == <<5>>

Row(t, p) == [t EXCEPT ![p].prop = 1]
Plain == Row(Box(r, <<Box(a, <<Leaf(b)>>), Leaf(c)>>), <<2>>)
WithSwitch == Box(r, <<Switch(a, <<Leaf(b), Leaf(c)>>)>>)
Both == {Plain, WithSwitch}

MCOps == {[tag |-> "RemoveNode", target |-> b],
          [tag |-> "InsertChild", parent |-> a, child |-> Leaf(d)],
          [tag |-> "UpdateProp", target |-> b, value |-> 1],
          [tag |-> "ReplaceRoot", node |-> Box(d, <<Leaf(b), Leaf(c)>>)],
          [tag |-> "Batch", ops |-> <<[tag |-> "UpdateProp", target |-> b, value |-> 1],
                                      [tag |-> "RemoveNode", target |-> d]>>]}
=============================================================================
