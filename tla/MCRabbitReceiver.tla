------------------------- MODULE MCRabbitReceiver ---------------------------
(***************************************************************************)
(* Small instances of the receiver for TLC: of a module that has booted,   *)
(* and, with no fault left, of one that boots undisturbed.  Boots that are *)
(* disturbed are in MCEventPipeline.                                       *)
(***************************************************************************)
EXTENDS RabbitReceiver

Booting == INSTANCE RabbitReceiver WITH Booted <- FALSE, faults <- 0

UpInit == \/ Init
          \/ Booting!Init /\ faults = MaxFaults

UpSpec == UpInit /\ [][Next]_vars /\ WF_vars(Own)
=============================================================================
