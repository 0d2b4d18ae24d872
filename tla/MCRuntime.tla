------------------------------ MODULE MCRuntime ------------------------------
(* The two classes of src/src/runtime.cpp, the executor and the scheduler,    *)
(* checked one beside the other: they share no variable, so each behaviour is *)
(* a behaviour of one of them, while the other stays in its initial state.    *)
EXTENDS BoundedExecutor, RuntimeScheduler

(* A deadline in the past, which is clamped, and one in the future.           *)
MCDelays == {-1, 1}

VARIABLE part

runtimeVars == <<executorVars, vars, part>>

RuntimeInit == part \in {"executor", "scheduler"} /\ ExecutorInit /\ Init

RuntimeNext ==
  /\ UNCHANGED part
  /\ \/ part = "executor" /\ ExecutorNext /\ UNCHANGED vars
     \/ part = "scheduler" /\ Next /\ UNCHANGED executorVars

(* The fairness of each module, for the part that runs.                       *)
RuntimeFairness ==
  /\ \A t \in Pool \union Clients : WF_executorVars(part = "executor" /\ Calling(t))
  /\ \A w \in Pool : WF_executorVars(part = "executor" /\ Working(w))
  /\ WF_vars(part = "scheduler" /\ Worker) /\ WF_vars(part = "scheduler" /\ Tick)
  /\ WF_vars(part = "scheduler" /\ StopReturn)

RuntimeSpec == RuntimeInit /\ [][RuntimeNext]_runtimeVars /\ RuntimeFairness
=============================================================================
