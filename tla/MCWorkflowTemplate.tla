-------------------------- MODULE MCWorkflowTemplate --------------------------
(* The graphs over a few edges of six nodes, for TLC. *)
EXTENDS WorkflowTemplate, TLC

MCNodes == {"s", "a", "g", "h", "c", "e"}
MCKind == [n \in MCNodes |->
  CASE n = "s" -> "start" [] n = "a" -> "agent" [] n \in {"g", "h"} -> "human"
    [] n = "c" -> "condition" [] n = "e" -> "end"]

Lines(from, to, labels) == {[from |-> from, to |-> to, when |-> w] : w \in labels}

\* a -> h closes a cycle with h -> a and h -> c -> a.
Candidates ==
  UNION {Lines(p[1], p[2], {Always}) :
           p \in {<<"s", "g">>, <<"g", "a">>, <<"g", "e">>, <<"a", "e">>, <<"a", "h">>}}
  \cup UNION {Lines("h", n, {Always, {"yes"}}) : n \in {"a", "c"}}
  \cup Lines("c", "a", {Always, {"yes"}})
  \cup Lines("c", "e", {Always, {"yes"}, {"plain"}})

\* s -> h and at most one edge between two other nodes.
MCGraphs ==
  {Lines("s", "h", {Always}) \cup G : G \in
     {H \in SUBSET Candidates :
        \A d, e \in H : d.from = e.from /\ d.to = e.to => d = e}}
=============================================================================
