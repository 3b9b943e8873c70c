----------------------------- MODULE JobLedger ------------------------------
(***************************************************************************)
(* What the orchestrator promises about a marketplace job: it is taken by  *)
(* one execution, each of its targets is called at most once, only while   *)
(* it is taken, and once closed it is never reopened and calls nothing.    *)
(* No workers, messages, publications or crashes appear here.              *)
(***************************************************************************)
EXTENDS Naturals

CONSTANTS Jobs, Targets

VARIABLES
  state,  \* absent, waiting, taken or closed
  calls   \* how often each job called the marketplace for each target

vars == <<state, calls>>

States == {"absent", "waiting", "taken", "closed"}

Init ==
  /\ state = [j \in Jobs |-> "absent"]
  /\ calls = [j \in Jobs |-> [t \in Targets |-> 0]]

Move(js, from, to) ==
  /\ \A j \in js : state[j] = from
  /\ state' = [j \in Jobs |-> IF j \in js THEN to ELSE state[j]]
  /\ UNCHANGED calls

(* Requests arrive, some of them settled on the spot. *)
Submit(js) == Move(js, "absent", "waiting")
Settle(js) == Move(js, "absent", "closed")
Take(js)   == Move(js, "waiting", "taken")
Close(js)  == Move(js, "taken", "closed")

Call(j, t) ==
  /\ state[j] = "taken"
  /\ calls[j][t] = 0
  /\ calls' = [calls EXCEPT ![j][t] = 1]
  /\ UNCHANGED state

Next ==
  \/ \E js \in SUBSET Jobs : Submit(js) \/ Settle(js) \/ Take(js) \/ Close(js)
  \/ \E j \in Jobs, t \in Targets : Call(j, t)

Spec == Init /\ [][Next]_vars
=============================================================================
