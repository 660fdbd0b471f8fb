------------------------------ MODULE Dispenser ------------------------------
(***************************************************************************)
(* What the feeder motor promises to the rest of the firmware: a hopper of *)
(* Bins compartments that serves one request at a time and, when it is     *)
(* through with a request for n slots, stands exactly n compartments       *)
(* further.  FeederMotor implements it.                                    *)
(***************************************************************************)
EXTENDS Naturals

CONSTANTS Bins,      \* compartments of the hopper
          MaxSlots   \* the largest request that is served

VARIABLES serving,   \* the number of slots being served, 0 when at rest
          slot       \* the compartment above the outlet

vars == <<serving, slot>>

TypeOK == serving \in 0..MaxSlots /\ slot \in 0..(Bins - 1)

Init == serving = 0 /\ slot = 0

Accept(n) ==
  /\ serving = 0
  /\ serving' = n
  /\ UNCHANGED slot

Deliver ==
  /\ serving # 0
  /\ slot' = (slot + serving) % Bins
  /\ serving' = 0

Next == Deliver \/ \E n \in 1..MaxSlots : Accept(n)

Spec == Init /\ [][Next]_vars /\ WF_vars(Deliver)
=============================================================================
