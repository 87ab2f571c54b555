---------------------------- MODULE ContractReview ----------------------------
(***************************************************************************)
(* The `test' command of the command line, src/arena-cli.js: a first       *)
(* invocation prepares the contract of a target and writes it to a file,   *)
(* a human reviews the file and approves it in place, and a later          *)
(* invocation, which prepares the target again, lets the agent route run.  *)
(* A human may also approve the hash that an invocation reported.          *)
(*                                                                         *)
(* Invocations overlap and may be killed, the target may change, and       *)
(* preparing, which drives a browser, takes time.                          *)
(*                                                                         *)
(* A contract stands for all that the artifact and the preparation have in *)
(* common: target, tool, arguments, effects, baseline, invariants.  Not    *)
(* represented: malformed files, output formats, and a file whose hashes   *)
(* are computed anew: the artifact says itself that it authenticates no    *)
(* reviewer.                                                               *)
(***************************************************************************)
EXTENDS Naturals

CONSTANTS
  Invocation,          \* invocations of the command
  Offer,               \* contracts that the target may lead to
  Absent,              \* no file, no reading, no approval
  PlanTtl,             \* planTtlMs of the auditor
  ReviewEnd            \* bound: time

\* A reviewable artifact; its seal is the hash that it says its contract has.
Artifact == [contract : Offer, sealed : Offer, created : Nat, expires : Nat, approvedAt : Nat \cup {Absent}]

ASSUME ReviewAssumption == Absent \notin Offer \cup Nat \cup Artifact /\ PlanTtl \in Nat \ {0} /\ ReviewEnd \in Nat

VARIABLES
  file,                \* the artifact at the reviewed path, or Absent
  cli,                 \* [Invocation -> what it has come to]
  offer,               \* what preparing the target leads to now
  reading,             \* what the reviewer has read, or Absent
  reported,            \* contracts that invocations reported
  reviewed,            \* contracts that a human read before approving
  reviewTime

reviewVars == <<file, cli, offer, reading, reported, reviewed, reviewTime>>

\* An invocation that has come to a step and has nothing in hand.
At(step) == [step |-> step, option |-> "none", approved |-> Absent, contract |-> Absent, created |-> Absent, expires |-> Absent]

ReviewInit ==
  /\ file = Absent /\ reading = Absent
  /\ cli = [i \in Invocation |-> At("idle")]
  /\ offer \in Offer
  /\ reported = {} /\ reviewed = {}
  /\ reviewTime = 0

\* The invocation ends without an agent.
CliEnds(i) == cli' = [cli EXCEPT ![i] = At("ended")]

-----------------------------------------------------------------------------
(* The command *)

\* validateApprovedArtifact
ValidArtifact(artifact, now) ==
  /\ artifact # Absent
  /\ artifact.sealed = artifact.contract
  /\ artifact.created < artifact.expires /\ now <= artifact.expires
  /\ artifact.approvedAt # Absent
  /\ artifact.created <= artifact.approvedAt /\ artifact.approvedAt <= now

\* The options exclude one another.
Propose(i, option) ==
  /\ cli[i].step = "idle"
  /\ cli' = [cli EXCEPT ![i].step = "preparing", ![i].option = option]
  /\ UNCHANGED <<file, offer, reading, reported, reviewed, reviewTime>>

\* --approve-contract: the human approves the hash of a contract that was reported.
StartWithHash(i, contract) ==
  /\ cli[i].step = "idle" /\ contract \in reported
  /\ cli' = [cli EXCEPT ![i].step = "preparing", ![i].option = "hash", ![i].approved = contract]
  /\ reviewed' = reviewed \cup {contract}
  /\ UNCHANGED <<file, offer, reading, reported, reviewTime>>

\* --approved-contract: the file is read and validated before anything else.
StartWithArtifact(i) ==
  /\ cli[i].step = "idle" /\ file # Absent
  /\ IF ValidArtifact(file, reviewTime)
     THEN cli' = [cli EXCEPT ![i].step = "preparing", ![i].option = "artifact", ![i].approved = file.contract]
     ELSE CliEnds(i)
  /\ UNCHANGED <<file, offer, reading, reported, reviewed, reviewTime>>

PrepareContract(i) ==
  /\ cli[i].step = "preparing"
  /\ cli' = [cli EXCEPT ![i].step = "prepared", ![i].contract = offer, ![i].expires = reviewTime + PlanTtl]
  /\ UNCHANGED <<file, offer, reading, reported, reviewed, reviewTime>>

PrepareFails(i) ==
  /\ cli[i].step = "preparing"
  /\ CliEnds(i)
  /\ UNCHANGED <<file, offer, reading, reported, reviewed, reviewTime>>

\* Without an approval the proposal is reported, and no agent runs.
Report(i) ==
  /\ cli[i].step = "prepared" /\ cli[i].option = "plain"
  /\ CliEnds(i)
  /\ reported' = reported \cup {cli[i].contract}
  /\ UNCHANGED <<file, offer, reading, reviewed, reviewTime>>

\* buildReviewableContractArtifact, and the temporary file of writeNewJsonArtifact.
BuildArtifact(i) ==
  /\ cli[i].step = "prepared" /\ cli[i].option = "write"
  /\ IF cli[i].expires <= reviewTime
     THEN CliEnds(i)
     ELSE cli' = [cli EXCEPT ![i].step = "linking", ![i].created = reviewTime]
  /\ UNCHANGED <<file, offer, reading, reported, reviewed, reviewTime>>

\* link() fails where there is a file.
PathIsFree == file = Absent

LinkArtifact(i) ==
  /\ cli[i].step = "linking"
  /\ IF PathIsFree
     THEN /\ file' = [contract |-> cli[i].contract, sealed |-> cli[i].contract, created |-> cli[i].created,
                      expires |-> cli[i].expires, approvedAt |-> Absent]
          /\ CliEnds(i)
          /\ reported' = reported \cup {cli[i].contract}
     ELSE CliEnds(i) /\ UNCHANGED <<file, reported>>
  /\ UNCHANGED <<offer, reading, reviewed, reviewTime>>

\* Mutant: the approval is not compared with what was prepared.
Trusting(i) == TRUE
\* assertArtifactMatchesPreparation, or the comparison of the hashes.
MatchesPreparation(i) == cli[i].approved = cli[i].contract

\* auditor.run: the plan must not have expired.
RunAgent(i) ==
  /\ cli[i].step = "prepared" /\ cli[i].option \in {"hash", "artifact"}
  /\ IF MatchesPreparation(i) /\ reviewTime <= cli[i].expires
     THEN cli' = [cli EXCEPT ![i].step = "ran"]
     ELSE CliEnds(i)
  /\ UNCHANGED <<file, offer, reading, reported, reviewed, reviewTime>>

Kill(i) ==
  /\ cli[i].step \in {"preparing", "prepared", "linking"}
  /\ CliEnds(i)
  /\ UNCHANGED <<file, offer, reading, reported, reviewed, reviewTime>>

-----------------------------------------------------------------------------
(* The human, the target and time *)

ReadArtifact ==
  /\ file # Absent /\ reading = Absent
  /\ reading' = file.contract
  /\ UNCHANGED <<file, cli, offer, reported, reviewed, reviewTime>>

\* The approval is filled in, with a date that may be wrong.
ApproveArtifact(date) ==
  /\ reading # Absent /\ file.approvedAt = Absent
  /\ file' = [file EXCEPT !.approvedAt = date]
  /\ reviewed' = reviewed \cup {reading}
  /\ reading' = Absent
  /\ UNCHANGED <<cli, offer, reported, reviewTime>>

\* The body is edited, the hashes are not; nobody edits it back, which no hash could show.
AmendArtifact(contract) ==
  /\ file # Absent /\ file.contract = file.sealed
  /\ file' = [file EXCEPT !.contract = contract]
  /\ UNCHANGED <<cli, offer, reading, reported, reviewed, reviewTime>>

TargetChanges(contract) ==
  /\ offer' = contract
  /\ UNCHANGED <<file, cli, reading, reported, reviewed, reviewTime>>

ReviewTick ==
  /\ reviewTime < ReviewEnd
  /\ reviewTime' = reviewTime + 1
  /\ UNCHANGED <<file, cli, offer, reading, reported, reviewed>>

ReviewNext ==
  \/ ReviewTick \/ ReadArtifact
  \/ \E date \in 0 .. ReviewEnd : ApproveArtifact(date)
  \/ \E contract \in Offer : AmendArtifact(contract) \/ TargetChanges(contract)
  \/ \E i \in Invocation :
       \/ \E option \in {"plain", "write"} : Propose(i, option)
       \/ \E contract \in Offer : StartWithHash(i, contract)
       \/ StartWithArtifact(i) \/ PrepareContract(i) \/ PrepareFails(i) \/ Report(i) \/ BuildArtifact(i)
       \/ LinkArtifact(i) \/ RunAgent(i) \/ Kill(i)

ReviewSpec == ReviewInit /\ [][ReviewNext]_reviewVars

-----------------------------------------------------------------------------
(* Properties *)

\* The agent route runs only on a contract that a human read before approving it, and only
\* if preparing the target in this very invocation led to that contract again: not on what
\* another invocation put in the file meanwhile, nor on a file changed after the approval.
RunsWhatWasReviewed ==
  \A i \in Invocation : cli[i].step = "ran" => cli[i].contract \in reviewed /\ cli[i].approved = cli[i].contract
=============================================================================
