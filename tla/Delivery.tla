------------------------------ MODULE Delivery ------------------------------
(***************************************************************************)
(* What the program promises whoever gives it a command, without plans,    *)
(* files or verification: targets are delivered one after the other, each  *)
(* delivery finds every earlier one held again, and work comes to an end.  *)
(* What is held is whole, unless a part of the work was lost unnoticed.    *)
(* Work on the next target may spoil what was delivered before; after an   *)
(* error or a kill nothing is said of it.                                  *)
(***************************************************************************)
EXTENDS Naturals, Sequences

CONSTANT Goals     \* commands: sequences of targets

VARIABLES goal,    \* the command
          count,   \* targets delivered in this run
          held,    \* which of them are in the root under every name
          whole,   \* which of those lack no part
          lossy,   \* a part of this run's work was lost unnoticed
          state    \* "running", "success", "error" or "killed"

deliveryVars == <<goal, count, held, whole, lossy, state>>

DeliveryInit ==
  /\ goal \in Goals /\ count = 0 /\ state = "running"
  /\ held = {} /\ whole = {} /\ lossy = FALSE

Work ==
  /\ state = "running"
  /\ \E kept \in SUBSET (1..count) : held' = kept /\ whole' \in SUBSET kept
  /\ lossy' \in {lossy, TRUE}
  /\ UNCHANGED <<goal, count, state>>

Deliver ==
  /\ state = "running" /\ count < Len(goal)
  /\ count' = count + 1 /\ held' = 1..(count + 1)
  /\ \E part \in SUBSET (1..(count + 1)) :
       (lossy \/ part = 1..(count + 1)) /\ whole' = part
  /\ state' = IF count + 1 = Len(goal) THEN "success" ELSE "running"
  /\ UNCHANGED <<goal, lossy>>

Fail ==
  /\ state = "running" /\ state' = "error"
  /\ held' = {} /\ whole' = {}
  /\ UNCHANGED <<goal, count, lossy>>

Kill ==
  /\ state = "running" /\ state' = "killed"
  /\ count' = 0 /\ held' = {} /\ whole' = {} /\ lossy' = FALSE
  /\ UNCHANGED goal

Again ==
  /\ state # "running" /\ state' = "running"
  /\ count' = 0 /\ held' = {} /\ whole' = {} /\ lossy' = FALSE
  /\ UNCHANGED goal

DeliveryNext == Work \/ Deliver \/ Fail \/ Kill \/ Again
DeliverySpec ==
  DeliveryInit /\ [][DeliveryNext]_deliveryVars /\ WF_deliveryVars(Deliver \/ Fail)

=============================================================================
