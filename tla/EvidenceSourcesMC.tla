--------------------------- MODULE EvidenceSourcesMC ---------------------------
(***************************************************************************)
(* Small instances for TLC of where evidence comes from: the checkout page *)
(* that publishes it, a visit of the browser runner that records it, the   *)
(* gym adapter that reads it from the fixture, and the import of an eval   *)
(* report.  They share no state: a behaviour is one of one part.           *)
(***************************************************************************)
EXTENDS GymAudit, BrowserRecorder, CheckoutPage, EvalBridge

CONSTANTS l1, d1, d2, q1, q2, e0, c1, c2

VARIABLE part

Leaf(accepts, optional) == [kind |-> "call", accepts |-> accepts, optional |-> optional]
Leaves == {Leaf({c1}, FALSE), Leaf({c2}, FALSE), Leaf({c1, c2}, FALSE), Leaf({c1}, TRUE)}
Group(kind, members) == [kind |-> kind, members |-> members]

\* Groups of two leaves, alone or in an unordered group with a leaf.
MCPairs == {Group("ordered", <<x, y>>) : x, y \in Leaves}
MCUnordered == {Group("unordered", <<x, y>>) : x, y \in Leaves} \cup {Group("unordered", <<x, y>>) : x \in MCPairs, y \in Leaves}
MCNode == Leaves \cup MCPairs \cup MCUnordered
MCNesting == [node \in MCNode |-> IF node \in Leaves THEN 0 ELSE IF node \in MCPairs THEN 1 ELSE 2]

\* No call, no node, groups within a group, and a leaf before a group.
MCTrajectory ==
  {[kind |-> "null"], Group("ordered", <<>>)}
    \cup {Group("ordered", <<Group("unordered", <<Group("ordered", <<x, y>>), z>>)>>) : x, y, z \in Leaves}
    \cup {Group("ordered", <<x, Group("unordered", <<y, z>>)>>) : x, y, z \in Leaves}

sourcesVars == <<part, gymVars, recorderVars, pageVars, evalVars>>

SourcesInit ==
  /\ part \in {"gym", "visit", "page", "evals"}
  /\ GymInit /\ RecorderInit /\ PageInit /\ EvalInit
  /\ part # "visit" => /\ visit.mode = "native" /\ visit.kind = "human" /\ page.open = {} /\ ~page.forged
                       /\ \A f \in Frame : page.live[f] = NoTool
  /\ part # "page" => ui.context /\ url = "fixed"
  /\ part # "evals" => expected.kind = "null"

SourcesNext ==
  /\ UNCHANGED part
  /\ \/ part = "gym" /\ GymNext /\ UNCHANGED <<recorderVars, pageVars, evalVars>>
     \/ part = "visit" /\ RecorderNext /\ UNCHANGED <<gymVars, pageVars, evalVars>>
     \/ part = "page" /\ PageNext /\ UNCHANGED <<gymVars, recorderVars, evalVars>>
     \/ part = "evals" /\ EvalNext /\ UNCHANGED <<gymVars, recorderVars, pageVars>>

SourcesSpec ==
  SourcesInit /\ [][SourcesNext]_sourcesVars /\ RecorderFairness

\* A visit whose page answers what it is asked ends, whatever else happens in it: VisitEnds
\* of BrowserRecorder, where there is a visit.
EveryVisitEnds == part = "visit" => VisitEnds
=============================================================================
