-------------------------- MODULE MCSupervisedRun --------------------------
(***************************************************************************)
(* SupervisedRun for every valid definition of a few steps: all acyclic    *)
(* dependencies in every array order, all modes, conditions and handlers,  *)
(* with steps that all need approval or all do not.  Bindings are left     *)
(* out: whether they resolve is a free choice of the specification.        *)
(***************************************************************************)
EXTENDS SupervisedRun

Edges == {e \in [Steps -> SUBSET Steps] : \A s \in Steps : s \notin e[s]}

\* For each choice of dependencies, the modes, conditions and handlers allowed by it.
With(e) ==
    { [ dependsOn |-> e, dependsMode |-> m, when |-> w, onFailureOf |-> h,
        reads |-> [s \in Steps |-> {}], risk |-> [s \in Steps |-> level],
        permissions |-> [s \in Steps |-> {}] ] :
      level \in {"LOW", "HIGH"},
      m \in [Steps -> {"all", "settled"}],
      w \in {w \in [Steps -> {NoWhen} \cup [step : Steps, on : {"yes"}]] :
                \A s \in Steps : w[s] = NoWhen \/ w[s].step \in e[s]},
      h \in {h \in [Steps -> {NoStep} \cup Steps] :
                \A s \in Steps : h[s] = NoStep \/ h[s] \in e[s]} }

AllDefinitions ==
    UNION {{d \in With(e) : ValidDefinition(d)} :
             e \in {e \in Edges : \E rank \in [Steps -> Steps] :
                      \A s \in Steps : \A p \in e[s] : rank[p] < rank[s]}}
============================================================================
