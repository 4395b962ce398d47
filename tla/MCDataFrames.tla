--------------------------- MODULE MCDataFrames ---------------------------
(* A keyed table of five types, edits that meet at its cells, a pipeline per verb, and     *)
(* expressions that reach every rule of the typing and of the unit check.                   *)
EXTENDS DataFrames

I(n) == IntCell(n)
F(n, d) == FloatCell(n, d)
D(n, s) == DecimalCell(Render(n, s))
S(s) == StrCell(s)
Column(name, type, cells) == [name |-> name, type |-> type, cells |-> cells]

\* Metres, centimetres and seconds.
MCAtoms == {"m", "cm", "s"}
MCRatio == [m |-> <<1, 1>>, cm |-> <<1, 100>>, s |-> <<1, 1>>]
MCDimensions == {"length", "time"}
MCDims == [m |-> [length |-> 1, time |-> 0], cm |-> [length |-> 1, time |-> 0], s |-> [length |-> 0, time |-> 1]]
UnitOf(atom) == [x \in MCAtoms |-> IF x = atom THEN 1 ELSE 0]
MCTargets == {UnitOf("m"), UnitOf("s")}

MCStrings == <<"", "-1", "0", "1", "10", "2", "3", "4", "k", "p", "x", "y">>

Lengths(cells) == Column("a", "float", cells)
MCStart == {[cols |-> <<Column("k", "int", <<I(1), I(2)>>), Column("g", "string", <<S("x"), S("x")>>),
                        Lengths(<<F(1, 1), Null>>), Column("t", "float", <<F(2, 1), F(0, 1)>>),
                        Column("p", "decimal", <<D(15, 1), D(-5, 1)>>)>>,
             meta |-> [a |-> [unit |-> {UnitOf("cm")}, label |-> "length"],
                       t |-> [unit |-> {UnitOf("s")}, label |-> ""]]]}
MCOther == [cols |-> <<Column("k", "int", <<I(2), I(3), I(2)>>)>>, meta |-> << >>]

-----------------------------------------------------------------------------
Lit(cell) == [tag |-> "Lit", cell |-> cell, args |-> << >>]
Binary(op, a, b) == [tag |-> "Binary", op |-> op, args |-> <<a, b>>]
Apply(fn, args) == [tag |-> "ApplyFn", fn |-> fn, args |-> args]
Over(l, r, node) == <<ColNode(l), ColNode(r), node>>
Both(op, l, r) == Over(l, r, Binary(op, 1, 2))
WithLit(op, l, cell) == <<ColNode(l), Lit(cell), Binary(op, 1, 2)>>
Rounding(tag, args) == [tag |-> tag, mode |-> "half-even", scale |-> 0, param |-> {}, args |-> args]

Measures ==
    <<Both("mul", "a", "t"), Both("div", "a", "t"), Both("add", "a", "a"), Both("lt", "a", "a"),
      Over("a", "t", Apply("greatest", <<1, 1>>)),
      <<ColNode("a"), Lit(I(2)), Apply("pow", <<1, 2>>)>>,
      <<ColNode("a"), ConvertNode(1, UnitOf("cm")), ColNode("a"), ConvertNode(3, UnitOf("cm")), Binary("sub", 2, 4), Apply("abs", <<5>>)>>,
      <<ColNode("a"), ColNode("t"), Binary("div", 1, 2), Binary("mul", 3, 2), Binary("le", 4, 1)>>>>
Decisions ==
    <<Both("mul", "k", "p"), Both("add", "p", "k"), Both("lt", "k", "p"),
      Over("p", "k", Rounding("Quotient", <<1, 2>>)),
      <<ColNode("p"), Apply("round", <<1>>)>>, <<ColNode("k"), Apply("floor", <<1>>)>>,
      <<ColNode("p"), [tag |-> "Cast", type |-> "int", args |-> <<1>>]>>,
      Over("k", "k", Apply("pow", <<1, 2>>)), WithLit("mod", "k", I(2)),
      <<ColNode("a"), Lit(Null), Node("Coalesce", <<2, 2>>)>>,
      <<ColNode("k"), Lit(I(1)), Lit(Null), Node("InList", <<1, 2, 3>>)>>,
      <<ColNode("k"), Lit(I(1)), Binary("gt", 1, 2), ColNode("g"), Lit(S("y")), Node("Case", <<3, 4, 5>>)>>,
      <<ColNode("a"), Node("IsNull", <<1>>), Lit(Null), Binary("and", 2, 3)>>,
      <<ColNode("g"), ColNode("k"), Apply("concat", <<1, 2>>), Apply("length", <<3>>)>>>>
MCExprs == Measures \o Decisions
MCPreds == <<WithLit("gt", "k", I(1)), WithLit("ge", "a", F(1, 2)), Both("eq", "k", "p"), Both("lt", "g", "k"),
             <<ColNode("a"), Lit(F(1, 1)), Binary("gt", 1, 2), ColNode("t"), Node("IsNull", <<4>>), Binary("or", 3, 5)>>>>

Step(verb) == [verb |-> verb]
DeriveStep(name, e) == [verb |-> "Derive", name |-> name, expr |-> e]
MCPipelines ==
    [metres   |-> <<DeriveStep("a", <<ColNode("a"), ConvertNode(1, UnitOf("m"))>>)>>,
     area     |-> <<DeriveStep("t", Both("mul", "a", "a")), [verb |-> "Filter", pred |-> WithLit("gt", "k", I(1))]>>,
     shares   |-> <<DeriveStep("p", Over("p", "k", Rounding("Quotient", <<1, 2>>))),
                    [verb |-> "Limit", n |-> 2, offset |-> 1]>>,
     groups   |-> <<[verb |-> "GroupBy", keys |-> <<"g">>,
                     aggs |-> <<[name |-> "k", fn |-> "count", of |-> "k"], [name |-> "a", fn |-> "mean", of |-> "a"],
                                [name |-> "p", fn |-> "sum", of |-> "p"]>>]>>,
     latest   |-> <<[verb |-> "Sort", by |-> <<[name |-> "a", asc |-> FALSE], [name |-> "k", asc |-> FALSE]>>], Step("Distinct"),
                    [verb |-> "Window", spec |-> [fn |-> "lag", of |-> "p", partition |-> <<"g">>, order |-> << >>, as |-> "q"]],
                    [verb |-> "Project", cols |-> <<[src |-> "k", out |-> "k"], [src |-> "g", out |-> "g"], [src |-> "q", out |-> "p"]>>]>>,
     melted   |-> <<[verb |-> "Unpivot", ids |-> <<"k">>, values |-> <<"p", "k">>]>>,
     joined   |-> <<[verb |-> "Join", table |-> MCOther, on |-> <<[left |-> "k", right |-> "k"]>>, how |-> "left"],
                    [verb |-> "Project", cols |-> <<[src |-> "k", out |-> "k"], [src |-> "k_right", out |-> "g"]>>]>>,
     stacked  |-> <<[verb |-> "Project", cols |-> <<[src |-> "k", out |-> "k"]>>], [verb |-> "Union", table |-> MCOther],
                    [verb |-> "Except", table |-> [MCOther EXCEPT !.cols[1].cells = <<I(3)>>]]>>,
     pivoted  |-> <<[verb |-> "Pivot", spec |-> [index |-> <<"g">>, on |-> "k", values |-> "p", agg |-> "max"]]>>,
     mixed    |-> <<DeriveStep("p", Over("p", "a", Node("Coalesce", <<1, 2>>)))>>,
     tangled  |-> <<[verb |-> "Filter", pred |-> Both("lt", "a", "t")]>>,
     sourced  |-> <<[verb |-> "Intersect", table |-> MCOther], Step("Ref")>>]

Transform(name) == [tag |-> "ApplyTransform", pipeline |-> name]
MCOps ==
    {[tag |-> "SetCell", col |-> "a", row |-> 1, value |-> I(2)],
     [tag |-> "SetCell", col |-> "k", row |-> 2, value |-> I(3)],
     [tag |-> "SetCell", col |-> "a", row |-> 3, value |-> F(1, 1)],
     [tag |-> "SetColumn", column |-> Lengths(<<F(1, 2), Null>>)],
     [tag |-> "SetColumn", column |-> Column("a", "int", <<I(2), I(2)>>)],
     [tag |-> "InsertColumn", index |-> 0, column |-> Column("a", "int", <<I(1), I(1)>>)],
     [tag |-> "InsertColumn", index |-> 9, column |-> Column("b", "int", <<I(1)>>)],
     [tag |-> "RemoveColumn", name |-> "a"],
     [tag |-> "AppendRows", rows |-> <<{[col |-> "k", value |-> I(3)]}>>],
     [tag |-> "AppendRows", rows |-> <<{[col |-> "k", value |-> I(2)]}, {}>>]}
    \union {Transform(name) : name \in DOMAIN MCPipelines}

MCDecimals == {Render(n, 1) : n \in {-25, -15, -5, -3, 0, 2, 5, 15, 20, 25}} \union {Render(n, 2) : n \in {-125, 49, 50, 51, 250}}
\* Kinds that compare with the columns' and kinds that do not, a null among them.
MCChosen == <<<< >>, <<I(1)>>, <<I(2), I(1)>>, <<S("x"), S("y")>>, <<F(1, 1), Null>>, <<I(2), S("x")>>, <<D(15, 1), D(-5, 1)>>>>
=============================================================================
