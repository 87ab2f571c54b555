------------------------------ MODULE ProofChain ------------------------------
(***************************************************************************)
(* The arena's chained attestations: src/arena-proof.js as                 *)
(* scripts/arena-server.js persists it (createPersistedProof), and the     *)
(* records that carry them: incident runs and reviewed contracts.          *)
(*                                                                         *)
(* Servers share one SQLite file.  Keys and the head of the chain are read *)
(* and written under its write lock, inside the gateway's transaction or   *)
(* alone; the records are read and written outside of it, afterwards.      *)
(* Servers crash at any point.                                             *)
(*                                                                         *)
(* Not represented: signatures (an attestation is signed with the key that *)
(* its server holds), the memory repository (one process, nothing rolled   *)
(* back), busy timeouts (a request that fails before it begins).           *)
(***************************************************************************)
EXTENDS Naturals, Sequences, FiniteSets

CONSTANTS
  Server,
  SecretOf,            \* [Server -> the signing secret of its configuration]
  SigningKey,
  NoKey, Free,         \* no key yet; the lock is free
  KeptRuns,            \* how many runs are kept
  MaxIssued            \* bound: attestations

ASSUME ChainAssumption ==
  /\ NoKey \notin SigningKey /\ Free \notin Server
  /\ KeptRuns \in Nat \ {0} /\ MaxIssued \in Nat

VARIABLES
  db,                  \* the file: keys, head, incident_runs, effect_contracts
  log,                 \* history: the attestations issued, committed or about to be
  lock,                \* who is in a write transaction
  before,              \* what its rollback restores
  server,              \* [Server -> its key and the request it serves]
  issued               \* history: how many were issued, rolled back or not

chainVars == <<db, log, lock, before, server, issued>>

\* proof_keys: none, in the clear as older versions left them, or sealed with a secret.
NoKeys == [form |-> "none", key |-> NoKey]
Plain(k) == [form |-> "plain", key |-> k]
Sealed(k, secret) == [form |-> "sealed", key |-> k, secret |-> secret]

NoHead == 0            \* attestations are numbered from 1, the number stands for the hash

\* A server: its key, the attestation that it issued, the records that it read.
Down == [step |-> "down", key |-> NoKey, kind |-> "receipt", about |-> NoHead, attestation |-> NoHead,
         runs |-> <<>>, contracts |-> {}]
Ready(k) == [Down EXCEPT !.step = "ready", !.key = k]

ChainInit ==
  /\ \E keys \in {NoKeys} \cup {Plain(k) : k \in SigningKey} :
       db = [keys |-> keys, head |-> NoHead, runs |-> <<>>, contracts |-> {}]
  /\ log = <<>>
  /\ lock = Free
  /\ before = [head |-> NoHead, log |-> <<>>]
  /\ server = [p \in Server |-> Down]
  /\ issued = 0

-----------------------------------------------------------------------------

\* createPersistedProof: generated once, sealed when found in the clear, opened with the
\* secret that sealed them; with another one the server does not start.
ServerStart(p) ==
  /\ server[p] = Down /\ lock = Free
  /\ \E k \in SigningKey :
       /\ \/ db.keys = NoKeys
          \/ db.keys = Plain(k)
          \/ db.keys = Sealed(k, SecretOf[p])
       /\ db' = [db EXCEPT !.keys = Sealed(k, SecretOf[p])]
       /\ server' = [server EXCEPT ![p] = Ready(k)]
  /\ UNCHANGED <<log, lock, before, issued>>

IssuedBy(p) == SelectSeq(log, LAMBDA a : a.by = p)

\* Mutant: a server goes on from the last attestation that it issued itself.
OwnHead(p) == IF IssuedBy(p) = <<>> THEN NoHead ELSE IssuedBy(p)[Len(IssuedBy(p))].id
HeadFor(p) == db.head

\* Under the lock: read the head, issue, write the head.
Issue(p, kind, about) ==
  /\ issued < MaxIssued
  /\ issued' = issued + 1
  /\ log' = Append(log, [id |-> issued + 1, previous |-> HeadFor(p), key |-> server[p].key, by |-> p,
                         kind |-> kind, about |-> about])

\* A request that issues on its own: a commit of its own.
IssueAlone(p, kind, about) ==
  /\ server[p].step = "ready" /\ lock = Free
  /\ Issue(p, kind, about)
  /\ db' = [db EXCEPT !.head = issued + 1]
  /\ server' = [server EXCEPT ![p] = [server[p] EXCEPT !.step = "read", !.kind = kind, !.about = about,
                                                       !.attestation = issued + 1]]
  /\ UNCHANGED <<lock, before>>

\* POST /api/scenarios/:id/run
RunScenario(p) == IssueAlone(p, "run", NoHead)

\* Mutant: any contract can be reviewed.
AnyContract(run) == run \in 1 .. issued
\* The contract is one that a kept run of this arena produced.
Registered(run) == \E i \in 1 .. Len(db.runs) : db.runs[i] = run

\* POST /api/contracts/approve
ReviewContract(p, run) ==
  /\ Registered(run)
  /\ IssueAlone(p, "review", run)

\* The record is added to a copy that was read, ...
ReadRecords(p) ==
  /\ server[p].step = "read"
  /\ server' = [server EXCEPT ![p] = [server[p] EXCEPT !.step = "write", !.runs = db.runs,
                                                       !.contracts = db.contracts]]
  /\ UNCHANGED <<db, log, lock, before, issued>>

LastOf(s, n) == SubSeq(s, IF Len(s) > n THEN Len(s) - n + 1 ELSE 1, Len(s))

\* ... which then replaces what is stored; a contract replaces one for the same tool.
WriteRecords(p) ==
  LET s == server[p] IN
  /\ s.step = "write" /\ lock = Free
  /\ db' = IF s.kind = "run" THEN [db EXCEPT !.runs = LastOf(Append(s.runs, s.attestation), KeptRuns)]
           ELSE [db EXCEPT !.contracts = {c \in s.contracts : c.run # s.about}
                                         \cup {[run |-> s.about, attestation |-> s.attestation]}]
  /\ server' = [server EXCEPT ![p] = Ready(s.key)]
  /\ UNCHANGED <<log, lock, before, issued>>

-----------------------------------------------------------------------------
(* A receipt of the gateway is issued inside the gateway's transaction *)

IssueReceipt(p) ==
  /\ server[p].step = "ready" /\ lock = Free
  /\ Issue(p, "receipt", NoHead)
  /\ before' = [head |-> db.head, log |-> log]
  /\ db' = [db EXCEPT !.head = issued + 1]
  /\ lock' = p
  /\ server' = [server EXCEPT ![p].step = "transaction"]

CommitReceipt(p) ==
  /\ lock = p
  /\ lock' = Free
  /\ server' = [server EXCEPT ![p].step = "ready"]
  /\ UNCHANGED <<db, log, before, issued>>

Undo ==
  /\ db' = [db EXCEPT !.head = before.head]
  /\ log' = before.log
  /\ lock' = Free

\* The gateway throws after it has issued: the head goes back, the receipt is not handed out.
RollBackReceipt(p) ==
  /\ lock = p
  /\ Undo
  /\ server' = [server EXCEPT ![p].step = "ready"]
  /\ UNCHANGED <<before, issued>>

CrashServer(p) ==
  /\ server[p] # Down
  /\ server' = [server EXCEPT ![p] = Down]
  /\ IF lock = p THEN Undo ELSE UNCHANGED <<db, log, lock>>
  /\ UNCHANGED <<before, issued>>

ChainNext == \E p \in Server :
  \/ ServerStart(p) \/ CrashServer(p)
  \/ RunScenario(p) \/ \E run \in 1 .. MaxIssued : ReviewContract(p, run)
  \/ ReadRecords(p) \/ WriteRecords(p)
  \/ IssueReceipt(p) \/ CommitReceipt(p) \/ RollBackReceipt(p)

ChainSpec == ChainInit /\ [][ChainNext]_chainVars

-----------------------------------------------------------------------------
(* Properties *)

\* verifyChain of everything that was handed out, with the key of any server that runs: the
\* servers, whenever they started or crashed, extend one chain with one key, and the head
\* that is stored is its end.
ChainUnbroken ==
  /\ \A i \in 1 .. Len(log) : log[i].previous = IF i = 1 THEN NoHead ELSE log[i - 1].id
  /\ db.head = IF log = <<>> THEN NoHead ELSE log[Len(log)].id
  /\ \A i \in 1 .. Len(log), p \in Server : server[p] # Down => log[i].key = server[p].key

Attested(id, kind, about) ==
  \E i \in 1 .. Len(log) : log[i].id = id /\ log[i].kind = kind /\ log[i].about = about

\* A stored record carries an attestation of the chain that says what it is, although it is
\* written after the attestation and from a copy that may be old; and only a contract of a
\* run that was attested before is ever reviewed.
RecordsAreBacked ==
  /\ \A i \in 1 .. Len(db.runs) : Attested(db.runs[i], "run", NoHead)
  /\ \A c \in db.contracts :
       /\ Attested(c.attestation, "review", c.run)
       /\ Attested(c.run, "run", NoHead) /\ c.run < c.attestation
=============================================================================
