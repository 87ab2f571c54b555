------------------------------ MODULE EvalBridge ------------------------------
(***************************************************************************)
(* Recomputing the verdict of an imported eval report, src/webmcp-evals.js.*)
(* An authored case expects a trajectory of calls: a sequence of nodes,    *)
(* each a call, maybe optional, or a group whose members come in their     *)
(* order or in any order.  Rows of a report arrive in any order, for       *)
(* several runs of the case, with or without a step; Arena groups them by  *)
(* run, sorts them by step and matches each run with the trajectory.       *)
(*                                                                         *)
(* One case.  A call stands for a function name with its arguments; a leaf *)
(* for the calls that its name and constraints accept.  Not represented:   *)
(* the syntax of suites, reports and constraints, and how the guidance and *)
(* behaviour layers come to their verdicts.                                *)
(***************************************************************************)
EXTENDS Naturals, Sequences, FiniteSets, Functions

CONSTANTS
  Call,                \* calls an agent makes
  NoCall,              \* the response of a row without one
  Node,                \* the nodes an author may write, the members of groups with them
  Nesting,             \* how deep a node nests: a suite is a finite document
  Trajectory,          \* the trajectories an author may expect
  EvalRun, EvalStep,   \* run and step indexes of rows: positive integers
  NoStep,              \* a row without a step index
  MaxRows              \* bound: rows of a report

\* parseExpectedNode: a call with its constraints, or a group of at least one node.
WellFormed(node) ==
  \/ node.kind = "call" /\ node.accepts \subseteq Call /\ node.optional \in BOOLEAN
  \/ /\ node.kind \in {"ordered", "unordered"}
     /\ node.members \in Seq(Node) /\ node.members # <<>>
     /\ node.kind = "unordered" => Len(node.members) <= 15
     /\ \A p \in 1 .. Len(node.members) : Nesting[node.members[p]] < Nesting[node]

ASSUME NodeAssumption ==
  /\ Nesting \in [Node -> Nat]
  /\ \A node \in Node : WellFormed(node)

\* The outermost nodes are in order; there may be none.  No trajectory: no call is expected.
ASSUME TrajectoryAssumption ==
  \A trajectory \in Trajectory :
    \/ trajectory.kind = "null"
    \/ trajectory.kind = "ordered" /\ trajectory.members \in Seq(Node)

ASSUME EvalAssumption ==
  /\ NoCall \notin Call /\ NoStep \notin EvalStep
  /\ EvalRun \subseteq Nat \ {0} /\ EvalStep \subseteq Nat \ {0} /\ MaxRows \in Nat

VARIABLES
  expected,            \* the trajectory of the case
  report,              \* the rows read so far: set of [run, step, response]
  stranger,            \* the report has rows of another case
  evaluation           \* its step, "open", "refused" or "done", and then the verdicts

evalVars == <<expected, report, stranger, evaluation>>

EvalInit ==
  /\ expected \in Trajectory
  /\ report = {} /\ stranger = FALSE
  /\ evaluation = [step |-> "open"]

-----------------------------------------------------------------------------
(* Matching a trajectory: the positions a node may end at *)

\* callMatches: an optional call may be missing.
MatchCall(leaf, actual, index) ==
  (IF leaf.optional THEN {index} ELSE {})
    \cup (IF index < Len(actual) /\ actual[index + 1] \in leaf.accepts THEN {index + 1} ELSE {})

\* One node after the other; match is the matching of each node by itself.
MatchOrdered(nodes, match, start) ==
  LET indexes[done \in 0 .. Len(nodes)] ==
        IF done = 0 THEN {start}
        ELSE UNION {match[nodes[done]][index] : index \in indexes[done - 1]}
  IN indexes[Len(nodes)]

\* Mutant: members are tried in their order, and the first that fits is taken.
FirstFit(nodes, match, actual, start) ==
  LET visit[mask \in SUBSET (1 .. Len(nodes))] ==
        [index \in 0 .. Len(actual) |->
           IF mask = {} THEN {index}
           ELSE {end \in 0 .. Len(actual) :
                   \E position \in mask : \E after \in match[nodes[position]][index] :
                     /\ \A earlier \in mask : earlier < position => match[nodes[earlier]][index] = {}
                     /\ end \in visit[mask \ {position}][after]}]
  IN visit[1 .. Len(nodes)][start]

\* visit: the mask is the members that are left, and any of them may come next.
MatchUnordered(nodes, match, actual, start) ==
  LET visit[mask \in SUBSET (1 .. Len(nodes))] ==
        [index \in 0 .. Len(actual) |->
           IF mask = {} THEN {index}
           ELSE {end \in 0 .. Len(actual) :
                   \E position \in mask : \E after \in match[nodes[position]][index] :
                     end \in visit[mask \ {position}][after]}]
  IN visit[1 .. Len(nodes)][start]

\* matchNode for every node and position.
Matching(actual) ==
  LET match[node \in Node] ==
        [index \in 0 .. Len(actual) |->
           IF node.kind = "ordered" THEN MatchOrdered(node.members, match, index)
           ELSE IF node.kind = "unordered" THEN MatchUnordered(node.members, match, actual, index)
           ELSE MatchCall(node, actual, index)]
  IN match

\* expectedCall null: no call at all.
TrajectoryMatches(trajectory, actual) ==
  IF trajectory.kind = "null" THEN actual = <<>>
  ELSE Len(actual) \in MatchOrdered(trajectory.members, Matching(actual), 0)

-----------------------------------------------------------------------------
(* Importing a report *)

\* Of the next row in the whole report.
Position == Cardinality(report) + (IF stranger THEN 2 ELSE 1)

\* parseUpstreamReport: a row without a step takes its position in the report; a step that
\* the run already has refuses the report.
ImportRow(run, step, response) ==
  /\ evaluation.step = "open" /\ Cardinality(report) < MaxRows
  /\ LET row == [run |-> run, step |-> IF step = NoStep THEN Position ELSE step,
                 response |-> response] IN
     IF \E other \in report : other.run = row.run /\ other.step = row.step
     THEN evaluation' = [step |-> "refused"] /\ UNCHANGED report
     ELSE report' = report \cup {row} /\ UNCHANGED evaluation
  /\ UNCHANGED <<expected, stranger>>

\* A row of a case that is not in the suite.
ImportStranger ==
  /\ evaluation.step = "open" /\ ~stranger
  /\ stranger' = TRUE
  /\ UNCHANGED <<expected, report, evaluation>>

RowsOf(run) == {row \in report : row.run = run}

\* By step; a run has each step once.
Sorted(rows) ==
  CHOOSE order \in [1 .. Cardinality(rows) -> rows] :
    \A i, j \in 1 .. Cardinality(rows) : i < j => order[i].step < order[j].step

\* The calls of the sorted rows, rows without one left out.
Actual(run) ==
  LET sorted == Sorted(RowsOf(run))
      calls[n \in 0 .. Cardinality(RowsOf(run))] ==
        IF n = 0 THEN <<>>
        ELSE IF sorted[n].response = NoCall THEN calls[n - 1] ELSE Append(calls[n - 1], sorted[n].response)
  IN calls[Cardinality(RowsOf(run))]

RunsInReport == {row.run : row \in report}

\* evaluateSelection: a case without rows counts as a run without calls.
Selection ==
  LET groups == IF RunsInReport = {} THEN {1} ELSE RunsInReport IN
  IF stranger \/ \E run \in groups : ~TrajectoryMatches(expected, Actual(run)) THEN "fail" ELSE "pass"

Worst(statuses) ==
  IF "fail" \in statuses THEN "fail" ELSE IF "inconclusive" \in statuses THEN "inconclusive" ELSE "pass"

\* other: the worse of the verdicts of the other two layers; guidance may only warn.
AuditReport(other) ==
  /\ evaluation.step = "open"
  /\ evaluation' = [step |-> "done", selection |-> Selection, other |-> other, verdict |-> Worst({Selection, other})]
  /\ UNCHANGED <<expected, report, stranger>>

EvalNext ==
  \/ ImportStranger
  \/ \E run \in EvalRun, step \in EvalStep \cup {NoStep}, response \in Call \cup {NoCall} : ImportRow(run, step, response)
  \/ \E other \in {"pass", "warn", "inconclusive", "fail"} : AuditReport(other)

EvalSpec == EvalInit /\ [][EvalNext]_evalVars

-----------------------------------------------------------------------------
(* Properties *)

\* The sequences of calls that can be cut into one of each language, in their order.
Concatenation(languages) ==
  {calls \in Seq(Call) :
     \E cut \in [0 .. Len(languages) -> 0 .. Len(calls)] :
       /\ cut[0] = 0 /\ cut[Len(languages)] = Len(calls)
       /\ \A p \in 1 .. Len(languages) :
            /\ cut[p - 1] <= cut[p]
            /\ SubSeq(calls, cut[p - 1] + 1, cut[p]) \in languages[p]}

\* The sequences of calls that a node describes.
Words[node \in Node] ==
  IF node.kind = "ordered"
  THEN Concatenation([p \in 1 .. Len(node.members) |-> Words[node.members[p]]])
  ELSE IF node.kind = "unordered"
  THEN {calls \in Seq(Call) :
          \E order \in Injection(1 .. Len(node.members), 1 .. Len(node.members)) :
            calls \in Concatenation([p \in 1 .. Len(node.members) |-> Words[node.members[order[p]]]])}
  ELSE {<<c>> : c \in node.accepts} \cup (IF node.optional THEN {<<>>} ELSE {})

Described(trajectory) ==
  IF trajectory.kind = "null" THEN {<<>>}
  ELSE Concatenation([p \in 1 .. Len(trajectory.members) |-> Words[trajectory.members[p]]])

\* The calls that rows of a run report are, by step, a sequence that the author described.
RunIsDescribed(run) ==
  LET called == {row \in report : row.run = run /\ row.response # NoCall} IN
  \E order \in [1 .. Cardinality(called) -> called] :
    /\ \A i, j \in 1 .. Cardinality(called) : i < j => order[i].step < order[j].step
    /\ [i \in 1 .. Cardinality(called) |-> order[i].response] \in Described(expected)

\* A report passes only if the calls of each of its runs, in the order of the steps and not
\* of the rows, are a sequence that the authored trajectory describes, and no verdict of
\* another layer is worse; and whatever describes the calls, matching finds it.
TrajectoryAgrees ==
  evaluation.step = "done" =>
    LET groups == IF report = {} THEN {1} ELSE {row.run : row \in report} IN
    /\ evaluation.selection = "pass" <=> ~stranger /\ \A run \in groups : RunIsDescribed(run)
    /\ evaluation.verdict = "pass" <=> evaluation.selection = "pass" /\ evaluation.other \in {"pass", "warn"}
    /\ evaluation.verdict = "fail" <=> "fail" \in {evaluation.selection, evaluation.other}
=============================================================================
