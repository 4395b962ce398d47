------------------------------ MODULE Compute ------------------------------
(***************************************************************************)
(* The compute graph (compute/evaluate.py): the parameters of a pipeline   *)
(* bound to what the host has stored, written into it, and the pipeline    *)
(* run over its source.                                                    *)
(*                                                                         *)
(* A value is a scalar, a list of scalars, a row or a table.  A binding is *)
(* [from, key, field, carried]: carried is the value of a Static and the   *)
(* default of the others, field the column a Selection reads, each a set   *)
(* of at most one.  The store is a function from keys to values.           *)
(***************************************************************************)
EXTENDS Frames

ScalarValue(cell) == [shape |-> "scalar", cells |-> <<cell>>]
ListValue(cells)  == [shape |-> "list", cells |-> cells]
RowValue(row)     == [shape |-> "row", row |-> row]
TableValue(t)     == [shape |-> "table", table |-> t]
EmptyTable        == TableValue([cols |-> << >>, meta |-> << >>])

\* What a parameter resolves to.
Resolution(kind, cells) == [kind |-> kind, cells |-> cells]
Unset == Resolution("unbound", << >>)

\* An empty list is no choice, and no choice is no constraint.
ScalarToCell(v) ==
    CASE v.shape = "scalar" -> Resolution("resolved", v.cells)
      [] v.shape = "list" -> IF v.cells = << >> THEN Unset ELSE Resolution("resolvedList", v.cells)
      [] OTHER -> Resolution("nonScalar", << >>)

ProjectSelection(v, field) ==
    LET cell(name) == IF name \in DOMAIN v.row THEN v.row[name] ELSE Null
    IN  IF v.shape = "row" /\ field # {} THEN ScalarValue(cell(CHOOSE name \in field : TRUE)) ELSE v

DeclaredDefault(b, otherwise) ==
    IF b.carried = {} THEN otherwise ELSE ScalarToCell(CHOOSE v \in b.carried : TRUE)

ResolveParamBinding(b, store) ==
    CASE b.from = "Static" -> DeclaredDefault(b, Resolution("resolved", <<Null>>))
      [] b.from = "Query" -> Unset
      [] b.from = "Selection" /\ b.key \in DOMAIN store -> ScalarToCell(ProjectSelection(store[b.key], b.field))
      [] b.from \in {"Filter", "State"} /\ b.key \in DOMAIN store -> ScalarToCell(store[b.key])
      [] OTHER -> DeclaredDefault(b, Unset)

\* The parameters of a transform, [name, binding] in order, by how they resolved; of a name
\* declared twice the last counts.
Environment(params, store) ==
    LET resolved == [i \in DOMAIN params |-> ResolveParamBinding(params[i].binding, store)]
        those(kind) == {i \in DOMAIN params : resolved[i].kind = kind}
        names(kind) == {params[i].name : i \in those(kind)}
        cells(kind, name) == resolved[Max({i \in those(kind) : params[i].name = name})].cells
    IN  [scalars   |-> [name \in names("resolved") |-> Head(cells("resolved", name))],
         lists     |-> [name \in names("resolvedList") |-> cells("resolvedList", name)],
         unbound   |-> names("unbound"),
         nonScalar |-> names("nonScalar")]

-----------------------------------------------------------------------------
ExprParamNames(e) ==
    {e[i].name : i \in {j \in DOMAIN e : e[j].tag \in {"Param", "InParam"}}}
      \union UNION {e[i].param : i \in {j \in DOMAIN e : Unscaled(e[j])}}

\* A list is written where the membership test names it, a scalar where a Param does, and as
\* a rounding's scale only where it is an int.
ListsWritten(e, lists) ==
    [i \in DOMAIN e |->
       IF e[i].tag = "InParam" /\ e[i].name \in DOMAIN lists
       THEN [tag |-> "InCells", args |-> e[i].args, cells |-> lists[e[i].name]]
       ELSE e[i]]

BindScale(node, scalars) ==
    LET cells == {scalars[p] : p \in node.param \intersect DOMAIN scalars}
    IN  IF \E c \in cells : c.kind = "int"
        THEN [node EXCEPT !.scale = (CHOOSE c \in cells : TRUE).n, !.param = {}] ELSE node

ScalarsWritten(e, scalars) ==
    [i \in DOMAIN e |->
       CASE e[i].tag = "Param" /\ e[i].name \in DOMAIN scalars -> [tag |-> "Lit", cell |-> scalars[e[i].name], args |-> << >>]
         [] Unscaled(e[i]) -> BindScale(e[i], scalars)
         [] OTHER -> e[i]]

\* The pipeline with the expressions of its steps rewritten.
Rewriting(steps, Rewrite(_)) ==
    [k \in DOMAIN steps |->
       CASE steps[k].verb = "Filter" -> [steps[k] EXCEPT !.pred = Rewrite(@)]
         [] steps[k].verb = "Derive" -> [steps[k] EXCEPT !.expr = Rewrite(@)]
         [] OTHER -> steps[k]]

SubstituteListParams(steps, lists) == Rewriting(steps, LAMBDA e : ListsWritten(e, lists))

\* Mutant: a filter that names whatever is not bound is dropped.
PruneUnbound(steps, env) ==
    LET bound == DOMAIN env.scalars \union DOMAIN env.lists
        constrains(step) == step.verb = "Filter" => ExprParamNames(step.pred) \subseteq bound
    IN  Rewriting(SelectSeq(SubstituteListParams(steps, env.lists), constrains),
                  LAMBDA e : ScalarsWritten(e, env.scalars))

\* The lists first, so that a filter left naming a parameter names one that did not resolve as
\* it is read: dropped if it was declared and is unset, refused by the evaluator if not.
PruneAndSubstitute(steps, env) ==
    LET constrains(step) == step.verb = "Filter" => ExprParamNames(step.pred) \intersect env.unbound = {}
    IN  Rewriting(SelectSeq(SubstituteListParams(steps, env.lists), constrains),
                  LAMBDA e : ScalarsWritten(e, env.scalars))

-----------------------------------------------------------------------------
\* What a source holds now: a live one what is stored, else what it carries, else nothing.
\* Data that comes in rows is taken as the table the codec makes of it.
LiveSource(s, store) ==
    IF s.key \in DOMAIN store /\ store[s.key] # ScalarValue(Null) THEN store[s.key]
    ELSE IF s.carried # {} THEN CHOOSE v \in s.carried : TRUE ELSE EmptyTable

Refusing(err) == [err |-> err, table |-> EmptyTable.table]

\* evaluate_transform: the source is read before the parameters.
EvaluateTransform(t, store) ==
    LET data == IF t.source.from = "Embedded" THEN CHOOSE v \in t.source.carried : TRUE ELSE LiveSource(t.source, store)
        env == Environment(t.params, store)
    IN  CASE t.source.from = "Ref" -> Refusing("UNRESOLVED_SOURCE")
          [] t.source.from # "Ref" /\ data.shape # "table" -> Refusing(IF data.shape = "row" THEN "MISSING_FIELD" ELSE "MALFORMED_SHAPE")
          [] OTHER -> IF env.nonScalar # {} THEN Refusing("TYPE_ERROR")
                      ELSE Pipeline(PruneAndSubstitute(t.pipeline, env), data.table)
=============================================================================
