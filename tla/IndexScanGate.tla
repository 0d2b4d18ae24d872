---------------------------- MODULE IndexScanGate ----------------------------
(***************************************************************************)
(* IndexScanGate (src/src/index_scan_gate.cpp): what became of each scan   *)
(* of the file index, for threads that wait for one.                       *)
(*                                                                         *)
(* launch_scan() begins a generation, the scan completes or cancels it, a  *)
(* newer begin() supersedes it, and only the newest outcomes are retained. *)
(* Every method holds the gate's mutex, so each is one action; a waiter    *)
(* sleeps between WaitBegin and its answer.                                *)
(***************************************************************************)
EXTENDS Integers, Sequences, SequencesExt

CONSTANTS Retained,        \* retained_outcomes_
          Waiters,         \* threads that call wait()
          MaxGenerations   \* bound: scans begun

ASSUME RetainedAssumption == Retained \in Nat \ {0}
ASSUME MaxGenerationsAssumption == MaxGenerations \in Nat

Resolved == {"succeeded", "failed", "superseded"}
State == {"pending"} \cup Resolved
Outcome == [generation : Nat, state : State]
Answer == Resolved \cup {"stopped", "unknown_generation"}

VARIABLES
  begun,      \* next_generation_: the generation begun last
  outcomes,  \* outcomes_, oldest first
  waiting,   \* per thread: the generation it waits for, or asked about last
  answer,    \* per thread: what wait() returned, "none" while it sleeps
  verdict    \* ghost: what became of every generation

gateVars == <<begun, outcomes, waiting, answer, verdict>>

GateInit ==
  /\ begun = 0
  /\ outcomes = <<>>
  /\ waiting = [w \in Waiters |-> 0]
  /\ answer = [w \in Waiters |-> "stopped"]
  /\ verdict = <<>>

-----------------------------------------------------------------------------
Known(g) == \E i \in DOMAIN outcomes : outcomes[i].generation = g
StateOf(g) ==
  outcomes[CHOOSE i \in DOMAIN outcomes : outcomes[i].generation = g].state

(* Mutant: a newer scan leaves the older one pending. *)
SupersedeMut(s) == s

(* An unresolved generation at the back gives way to a newer one. *)
Supersede(s) ==
  IF s # <<>> /\ Last(s).state = "pending"
    THEN [s EXCEPT ![Len(s)].state = "superseded"]
    ELSE s

(* trim_locked(): resolved outcomes go from the front.  One append follows  *)
(* each trim, so one removal is enough.                                    *)
Trim(s) ==
  IF Len(s) > Retained /\ Head(s).state # "pending" THEN Tail(s) ELSE s

Begin ==
  /\ begun < MaxGenerations
  /\ begun' = begun + 1
  /\ outcomes' = Trim(Append(Supersede(outcomes),
                             [generation |-> begun + 1, state |-> "pending"]))
  /\ verdict' =
       Append([g \in DOMAIN verdict |->
                 IF verdict[g] = "pending" THEN "superseded" ELSE verdict[g]],
              "pending")
  /\ UNCHANGED <<waiting, answer>>

(* Mutant: a late completion overwrites what a newer scan decided. *)
MayResolveMut(g) == Known(g)

MayResolve(g) == Known(g) /\ StateOf(g) = "pending"

Settle(g, s) ==
  outcomes' = [i \in DOMAIN outcomes |->
                 IF outcomes[i].generation = g
                   THEN [outcomes[i] EXCEPT !.state = s] ELSE outcomes[i]]

Decide(g, s) ==
  /\ MayResolve(g)
  /\ Settle(g, s)
  /\ verdict' = [verdict EXCEPT ![g] = IF @ = "pending" THEN s ELSE @]
  /\ UNCHANGED <<begun, waiting, answer>>

(* A scan may call this when it is long superseded or forgotten. *)
Complete(g, success) == Decide(g, IF success THEN "succeeded" ELSE "failed")
CancelScan(g) == Decide(g, "superseded")

WaitBegin(w, g) ==
  /\ answer[w] # "none"
  /\ waiting' = [waiting EXCEPT ![w] = g]
  /\ answer' = [answer EXCEPT ![w] = "none"]
  /\ UNCHANGED <<begun, outcomes, verdict>>

Decided(g) == Known(g) => StateOf(g) # "pending"

AnswerFor(g) == IF Known(g) THEN StateOf(g) ELSE "unknown_generation"

WaitReturn(w) ==
  /\ answer[w] = "none"
  /\ Decided(waiting[w])
  /\ answer' = [answer EXCEPT ![w] = AnswerFor(waiting[w])]
  /\ UNCHANGED <<begun, outcomes, waiting, verdict>>

(* The waiter's stop token is triggered while the outcome is pending. *)
WaitStopped(w) ==
  /\ answer[w] = "none"
  /\ ~Decided(waiting[w])
  /\ answer' = [answer EXCEPT ![w] = "stopped"]
  /\ UNCHANGED <<begun, outcomes, waiting, verdict>>

GateNext ==
  \/ Begin
  \/ \E g \in 1..begun :
       \/ \E success \in BOOLEAN : Complete(g, success)
       \/ CancelScan(g)
       \/ \E w \in Waiters : WaitBegin(w, g)
  \/ \E w \in Waiters : WaitReturn(w) \/ WaitStopped(w)

GateSpec == GateInit /\ [][GateNext]_gateVars

(* A sleeping waiter is woken; the newest scan ends one way or the other.  *)
(* Nothing forces a new scan or a new wait.                                *)
GateFairness ==
  /\ \A w \in Waiters : WF_gateVars(WaitReturn(w))
  /\ WF_gateVars(\E success \in BOOLEAN : Complete(begun, success))

GateFairSpec == GateSpec /\ GateFairness

-----------------------------------------------------------------------------
GateTypeOK ==
  /\ begun \in Nat
  /\ outcomes \in Seq(Outcome)
  /\ waiting \in [Waiters -> Nat]
  /\ answer \in [Waiters -> Answer \cup {"none"}]
  /\ verdict \in Seq(State) /\ Len(verdict) = begun

(* The retained outcomes are those of the newest generations, in order, so *)
(* a generation is found if and only if it is young enough.                *)
NewestRetained ==
  \A i \in DOMAIN outcomes : outcomes[i].generation = begun - Len(outcomes) + i

(* Only the newest scan can be pending: that is what makes trimming, which *)
(* stops at a pending front, keep the list within its limit.               *)
OnlyNewestPending ==
  /\ \A i \in DOMAIN outcomes : outcomes[i].state = "pending" => i = Len(outcomes)
  /\ Len(outcomes) <= Retained

(* What is retained are the newest outcomes, never more than the limit.    *)
Retention == NewestRetained /\ OnlyNewestPending

(* The gate never misreports: what it holds of a generation is what became *)
(* of it, and "succeeded" in particular is told of no scan that a newer    *)
(* one superseded first, however late its complete() comes.                *)
OutcomesTruthful ==
  \A i \in DOMAIN outcomes :
    outcomes[i].state = verdict[outcomes[i].generation]

(* What wait() said stays true: a verdict never changes afterwards. *)
AnswersTruthful ==
  \A w \in Waiters :
    answer[w] \in Resolved /\ waiting[w] # 0 =>
      verdict[waiting[w]] = answer[w]

(* "unknown" is said only of a generation that newer ones pushed out. *)
UnknownMeansOld ==
  \A w \in Waiters :
    answer[w] = "unknown_generation" => waiting[w] <= begun - Retained

(* A waiter is told what became of the scan it asked about, unless that    *)
(* scan is too old to be known.                                            *)
WaitersToldTruth == AnswersTruthful /\ UnknownMeansOld

(* However late scans complete and whatever is pruned, the gate remembers  *)
(* the newest scans, holds of each what became of it, and tells that.      *)
GateTruthful == Retention /\ OutcomesTruthful /\ WaitersToldTruth

(* Nobody waits for ever. *)
WaitersReturn == \A w \in Waiters : (answer[w] = "none") ~> (answer[w] # "none")
=============================================================================
