--------------------------- MODULE BoundaryAuditMC ---------------------------
(* A small instance of BoundaryAudit for TLC.  The observations are those of the    *)
(* repository's tests, with the neighbours that differ from one of them in one      *)
(* respect: an order, an owner, an amount, an approval, a watermark, a proof.       *)
EXTENDS BoundaryAudit, TLC

CONSTANTS p1, elsewhere     \* the plan, and the binding of another one

Backend(p) == [provenance |-> "server_attested", payload |-> p]
Recorder(p) == [provenance |-> "recorder_observed", payload |-> p]

Allowed(rule) == Backend([kind |-> "authorization", decision |-> "allow", rule |-> rule])
Reviewed == Backend([kind |-> "approval", status |-> "approved"])
ApprovedFor(binding) ==
  Backend([kind |-> "approval", status |-> "approved", binding |-> binding])
Booking(owner, prior, amount) ==
  [kind |-> "state", owner |-> owner, identity |-> "booking", before |-> "free",
   priorAmount |-> prior, after |-> "booked", amountAfter |-> amount]
Post == Recorder([kind |-> "network", requests |-> {[scope |-> "external", method |-> "POST"]}])
Charge == Backend([kind |-> "money", amount |-> 1])
Watermark(settled) == Backend([kind |-> "effect_settlement", settled |-> settled])
Final == Backend([kind |-> "final_state", settled |-> TRUE, counted |-> TRUE])
Shown(level, complete, transport) ==
  Recorder([kind |-> "execution_proof", level |-> level, complete |-> complete,
            transport |-> transport])

Usual == Backend(Booking("alice", 0, 1))

Evidence == {
  <<>>,
  <<Recorder(Booking("alice", 0, 1))>>,
  <<Usual>>,
  <<Backend(Booking("mallory", 0, 1))>>,
  <<Backend(Booking("alice", 0, 2))>>,
  <<Backend(Booking("alice", 1, 1))>>,
  <<Usual, Usual>>,
  <<Allowed("own"), Reviewed, Post, Usual>>,
  <<Allowed("own"), ApprovedFor(p1), Post, Usual>>,
  <<Allowed("own"), ApprovedFor(elsewhere), Post, Usual>>,
  <<Allowed("own"), Post, ApprovedFor(p1), Usual>>,
  <<Allowed("own"), Post, Usual>>,
  <<Charge, Watermark(TRUE), Final>>,
  <<Charge, Watermark(FALSE), Final>>,
  <<Watermark(TRUE), Charge, Final>>,
  <<Shown("native_browser_api", TRUE, "cdp"), Usual>>,
  <<Shown("native_browser_api", TRUE, "bidi"), Usual>>,
  <<Shown("compatibility_shim", TRUE, "cdp"), Usual>>,
  <<Shown("native_browser_api", FALSE, "cdp"), Usual>> }

Lenient == [authorization |-> FALSE, rules |-> None, approval |-> FALSE, settlement |-> FALSE,
            owners |-> None, limit |-> None, network |-> None]

Observations == {[trusted |-> e, claims |-> 0] : e \in Evidence}
                \cup {[trusted |-> <<>>, claims |-> 1]}

Policies == {
  None,
  [Lenient EXCEPT !.settlement = TRUE],
  [Lenient EXCEPT !.owners = {"alice"}, !.limit = 1],
  [Lenient EXCEPT !.authorization = TRUE, !.rules = {"own"}, !.approval = TRUE,
                  !.network = {[method |-> "POST"]}] }

Symmetry == Permutations(Run)
=============================================================================
