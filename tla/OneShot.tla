------------------------------- MODULE OneShot -------------------------------
(***************************************************************************)
(* What every authority of the arena promises about one consequential     *)
(* action, whatever stores it and however many processes serve it: it is   *)
(* submitted once, either refused or authorised, and performed at most     *)
(* once, only between its authorisation and its closing.  The trust        *)
(* gateway (approvals and direct executions), the hosted audit store and   *)
(* the local audit service each implement it under a mapping of their own. *)
(***************************************************************************)
EXTENDS Naturals

CONSTANT Job                \* the consequential actions

VARIABLES phase,            \* where each action is in its life
          performed         \* how often its effect was started

vars == <<phase, performed>>

Phase == {"new", "waiting", "refused", "authorised", "closed"}

TypeOK == /\ phase \in [Job -> Phase]
          /\ performed \in [Job -> Nat]

Init == /\ phase = [j \in Job |-> "new"]
        /\ performed = [j \in Job |-> 0]

\* Submitted for somebody's approval, or authorised on submission.  The step may
\* also refuse waiting actions that have lapsed.
Submit(S, j) ==
  /\ \A i \in S : phase[i] = "waiting"
  /\ phase[j] = "new"
  /\ \E to \in {"waiting", "authorised"} :
       phase' = [i \in Job |-> IF i \in S THEN "refused"
                               ELSE IF i = j THEN to ELSE phase[i]]
  /\ UNCHANGED performed

\* Waiting actions are refused, one by one or in a sweep; authorised ones are closed,
\* settled or given up: a crash may close several, before or after the effect, and a
\* recovery may do both.
Settle(S, T) ==
  /\ \A j \in S : phase[j] = "waiting"
  /\ \A j \in T : phase[j] = "authorised"
  /\ phase' = [j \in Job |-> IF j \in S THEN "refused"
                            ELSE IF j \in T THEN "closed" ELSE phase[j]]
  /\ UNCHANGED performed

Authorise(j) == /\ phase[j] = "waiting"
                /\ phase' = [phase EXCEPT ![j] = "authorised"]
                /\ UNCHANGED performed

Perform(j) == /\ phase[j] = "authorised"
              /\ performed[j] = 0
              /\ performed' = [performed EXCEPT ![j] = 1]
              /\ UNCHANGED phase

Next == \/ \E j \in Job : Authorise(j) \/ Perform(j)
        \/ \E S, T \in SUBSET Job : Settle(S, T)
        \/ \E S \in SUBSET Job, j \in Job : Submit(S, j)

Spec == Init /\ [][Next]_vars
=============================================================================
