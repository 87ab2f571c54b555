---------------------------- MODULE DatabaseInit ----------------------------
(***************************************************************************)
(* Lazy initialisation of the hosted audit database: db/runtime.ts.        *)
(*                                                                         *)
(* Every isolate creates or migrates the schema on its first request and   *)
(* shares one promise among the requests that arrive meanwhile.  Isolates  *)
(* do not know of each other, so the statements of several initialisations *)
(* interleave; each statement may throw, before or after it took effect.   *)
(*                                                                         *)
(* Not represented: the columns of a row (a row is a current one, one of   *)
(* the schema without retention, or one that is not JSON) and the separate *)
(* statements that create the indexes.  A deployment that still wrote      *)
(* rows of the old schema has ended.                                       *)
(***************************************************************************)
EXTENDS Naturals, FiniteSets

CONSTANTS
  DbIsolate,
  Visitor,             \* requests that may wait at once
  ServedBy,            \* [Visitor -> DbIsolate]
  MaxFaults            \* bound: statements that throw

ASSUME DatabaseAssumption ==
  /\ ServedBy \in [Visitor -> DbIsolate]
  /\ MaxFaults \in Nat
  /\ Visitor \cap {"legacy", "corrupt"} = {}

VARIABLES
  schema,              \* the audits table: absent, without the retention column, or current
  limits,              \* does audit_start_limits exist
  audits,              \* rows: "legacy", "corrupt", or the visitor that inserted it
  promise,             \* [DbIsolate -> initializationPromise]
  statement,           \* [DbIsolate -> the statement that its initialisation executes next]
  visit,               \* [Visitor -> its state and the failures there had been when it arrived]
  faults,              \* statements that have thrown for no reason of their own
  failures,            \* initialisations that have thrown
  inserted             \* history: visitors that inserted a row

dbVars == <<schema, limits, audits, promise, statement, visit, faults, failures, inserted>>

OldRow == {"legacy", "corrupt"}
Statement == {"create", "columns", "alter", "recheck", "purgeJson", "purgeOld", "index", "none"}

DatabaseTypeOK ==
  /\ schema \in {"absent", "old", "current"}
  /\ limits \in BOOLEAN
  /\ audits \subseteq OldRow \cup Visitor
  /\ promise \in [DbIsolate -> {"null", "pending", "resolved"}]
  /\ statement \in [DbIsolate -> Statement]
  /\ visit \in [Visitor -> [state : {"idle", "waiting", "serving", "rejected"}, seen : Nat]]
  /\ faults \in 0 .. MaxFaults
  /\ failures \in Nat
  /\ inserted \subseteq Visitor

Away == [state |-> "idle", seen |-> 0]

\* A new database, or one that the schema without retention left behind.
DatabaseInit ==
  /\ \/ schema = "absent" /\ audits = {}
     \/ schema = "old" /\ audits \in SUBSET OldRow
  /\ limits = FALSE
  /\ promise = [i \in DbIsolate |-> "null"]
  /\ statement = [i \in DbIsolate |-> "none"]
  /\ visit = [v \in Visitor |-> Away]
  /\ faults = 0
  /\ failures = 0
  /\ inserted = {}

-----------------------------------------------------------------------------
(* createAuditDatabaseProvider *)

\* What a request that awaits a promise in this state becomes.
Awaiting(p) == CASE p = "pending" -> "waiting" [] p = "resolved" -> "serving" [] OTHER -> "rejected"

\* Visitors of isolate i that wait continue in the given state.
Continue(i, state) ==
  visit' = [v \in Visitor |-> IF ServedBy[v] = i /\ visit[v].state = "waiting"
                              THEN [visit[v] EXCEPT !.state = state] ELSE visit[v]]

\* getAuditDb: the first request starts the initialisation, the others join it.
GetDb(v) ==
  LET i == ServedBy[v]
      p == IF promise[i] = "null" THEN "pending" ELSE promise[i] IN
  /\ visit[v].state = "idle"
  /\ promise' = [promise EXCEPT ![i] = p]
  /\ statement' = IF promise[i] = "null" THEN [statement EXCEPT ![i] = "create"] ELSE statement
  /\ visit' = [visit EXCEPT ![v] = [state |-> Awaiting(p), seen |-> failures]]
  /\ UNCHANGED <<schema, limits, audits, faults, failures, inserted>>

\* Mutant: a promise that was rejected is kept.
KeptPromise == "rejected"
AfterFailure == "null"

\* The initialisation of i throws: the provider forgets its promise and the waiting
\* requests fail.
Reject(i) ==
  /\ promise' = [promise EXCEPT ![i] = AfterFailure]
  /\ statement' = [statement EXCEPT ![i] = "none"]
  /\ failures' = failures + 1
  /\ Continue(i, "rejected")

GoTo(i, s) ==
  /\ statement' = [statement EXCEPT ![i] = s]
  /\ UNCHANGED <<promise, visit, failures>>

-----------------------------------------------------------------------------
(* initializeAuditDatabase *)

Outdated(rows) == rows \cap {"legacy"}

\* The state of the database after statement s.
Executed(s) ==
  /\ schema' = CASE s = "create" /\ schema = "absent" -> "current"
                 [] s = "alter" -> "current"
                 [] OTHER -> schema
  /\ audits' = CASE s = "purgeJson" -> audits \ {"corrupt"}
                 [] s = "purgeOld" -> audits \ Outdated(audits)
                 [] OTHER -> audits
  /\ limits' = (limits \/ s = "index")

\* Statements that the database refuses: a second column of the name, a column that does
\* not exist, json_type of what is not JSON.
Refused(s) ==
  \/ s = "alter" /\ schema = "current"
  \/ s = "purgeOld" /\ (schema # "current" \/ "corrupt" \in audits)

After(s) ==
  CASE s = "create" -> "columns"
    [] s \in {"columns", "recheck"} -> IF schema = "current" THEN "purgeJson" ELSE "alter"
    [] s = "alter" -> "purgeJson"
    [] s = "purgeJson" -> "purgeOld"
    [] s = "purgeOld" -> "index"

\* A statement that succeeds.
Execute(i) ==
  LET s == statement[i] IN
  /\ s \notin {"none", "index"} /\ ~Refused(s)
  /\ s = "recheck" => schema = "current"
  /\ Executed(s)
  /\ GoTo(i, After(s))
  /\ UNCHANGED <<faults, inserted>>

\* The last one resolves the promise.
Complete(i) ==
  /\ statement[i] = "index"
  /\ Executed("index")
  /\ promise' = [promise EXCEPT ![i] = "resolved"]
  /\ statement' = [statement EXCEPT ![i] = "none"]
  /\ Continue(i, "serving")
  /\ UNCHANGED <<faults, failures, inserted>>

\* An error of the ALTER is looked into; any other ends the initialisation.
OnError(i) == IF statement[i] = "alter" THEN GoTo(i, "recheck") ELSE Reject(i)

Refuse(i) ==
  /\ Refused(statement[i])
  /\ OnError(i)
  /\ UNCHANGED <<schema, limits, audits, faults, inserted>>

\* The column is still missing: the error of the ALTER is thrown after all.
Rethrow(i) ==
  /\ statement[i] = "recheck" /\ schema # "current"
  /\ Reject(i)
  /\ UNCHANGED <<schema, limits, audits, faults, inserted>>

\* The storage fails before the statement took effect, or its answer is lost.
Fault(i) ==
  /\ statement[i] # "none" /\ faults < MaxFaults
  /\ faults' = faults + 1
  /\ \/ UNCHANGED <<schema, limits, audits>>
     \/ ~Refused(statement[i]) /\ Executed(statement[i])
  /\ OnError(i)
  /\ UNCHANGED inserted

-----------------------------------------------------------------------------
(* Requests and isolates *)

\* A request that was served inserts an audit with a retention and leaves.
InsertRow(v) ==
  /\ visit[v].state = "serving"
  /\ audits' = audits \cup {v}
  /\ inserted' = inserted \cup {v}
  /\ visit' = [visit EXCEPT ![v] = Away]
  /\ UNCHANGED <<schema, limits, promise, statement, faults, failures>>

AnswerUnavailable(v) ==
  /\ visit[v].state = "rejected"
  /\ visit' = [visit EXCEPT ![v] = Away]
  /\ UNCHANGED <<schema, limits, audits, promise, statement, faults, failures, inserted>>

\* An isolate ends, in the middle of an initialisation or later.
Evict(i) ==
  /\ promise[i] # "null"
  /\ promise' = [promise EXCEPT ![i] = "null"]
  /\ statement' = [statement EXCEPT ![i] = "none"]
  /\ visit' = [v \in Visitor |-> IF ServedBy[v] = i THEN Away ELSE visit[v]]
  /\ UNCHANGED <<schema, limits, audits, faults, failures, inserted>>

DatabaseNext ==
  \/ \E i \in DbIsolate : Execute(i) \/ Complete(i) \/ Refuse(i) \/ Rethrow(i) \/ Fault(i) \/ Evict(i)
  \/ \E v \in Visitor : GetDb(v) \/ InsertRow(v) \/ AnswerUnavailable(v)

-----------------------------------------------------------------------------
(* Properties *)

\* Whatever isolates race, fail and end, a request gets the database only once it has the
\* current schema without a row of the old one, and no initialisation deletes a row that
\* such a request inserted.  A failed initialisation is nobody's but its own requests': a
\* request is refused only because an initialisation failed after it had arrived.
ServesMigrated ==
  /\ (\E v \in Visitor : visit[v].state = "serving") => schema = "current" /\ limits /\ audits \subseteq Visitor
  /\ inserted \subseteq audits
  /\ \A v \in Visitor : visit[v].state = "rejected" => failures > visit[v].seen
=============================================================================
