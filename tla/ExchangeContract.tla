--------------------------- MODULE ExchangeContract ---------------------------
(***************************************************************************)
(* What a restore promises to the programs that use the two databases,     *)
(* whatever step of it throws and whenever the container dies: the pair is *)
(* exchanged in one piece and only while the programs are stopped, a       *)
(* restore that is done stays done, and one that is dropped leaves the old *)
(* pair for good.                                                          *)
(***************************************************************************)

VARIABLES
  serving,    \* the pair the programs run on: "old", "restored", "nothing"
  fate        \* of the restore: "open", "done", "dropped"

contractVars == <<serving, fate>>

ContractInit == serving = "old" /\ fate = "open"

\* The pairs the programs may be started on.
Startable ==
  [open |-> {"old", "restored"}, done |-> {"restored"}, dropped |-> {"old"}]

Stop  == serving # "nothing" /\ serving' = "nothing" /\ UNCHANGED fate
Start == serving = "nothing" /\ serving' \in Startable[fate] /\ UNCHANGED fate

\* The restore is done while the programs run on what it restored.
Commit == /\ fate = "open" /\ fate' = "done"
          /\ serving = "restored" /\ UNCHANGED serving

\* It is dropped, the old pair in place again or never touched.
Drop   == /\ fate = "open" /\ fate' = "dropped"
          /\ serving # "restored" /\ UNCHANGED serving

ContractNext == Stop \/ Start \/ Commit \/ Drop

ContractSpec == ContractInit /\ [][ContractNext]_contractVars
=============================================================================
