-------------------------------- MODULE Intake --------------------------------
(***************************************************************************)
(* The two ways into DMem: documents (Reading) and messages (Extraction).   *)
(* They share no state; a behaviour takes one of them.  Documents are read  *)
(* under one configuration of predicates, which they do not depend on.      *)
(***************************************************************************)
EXTENDS Reading, Extraction

IntakeInit == Init /\ HearInit

IntakeNext ==
    \/ /\ believed = [p \in Predicates |-> {}] /\ ear = "idle"
       /\ overrides = CHOOSE o \in Overrides : TRUE
       /\ Next
       /\ UNCHANGED hearing
    \/ phase = "submit" /\ HearNext /\ UNCHANGED vars

IntakeSpec == IntakeInit /\ [][IntakeNext]_<<vars, hearing>>

==============================================================================
