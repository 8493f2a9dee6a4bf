--------------------------- MODULE MCEventPipeline ---------------------------
(***************************************************************************)
(* For TLC: the pipeline behind a booted receiver; the receiver of a       *)
(* module that still subscribes; and the triggers and functions of the     *)
(* database while migrations are applied and undone (ChangeCapture).  The  *)
(* router starts after all modules have, and a change is seen by the       *)
(* triggers of a moment: an execution is one of one of the three.          *)
(***************************************************************************)
EXTENDS EventPipeline, ChangeCapture

Booting == INSTANCE RabbitReceiver WITH Booted <- FALSE

CONSTANTS s1, s2
MCAbout == <<s1, s1>>

VARIABLE part
partVars == <<allVars, captureVars, part>>

PartInit == /\ PipeInit /\ CaptureInit
            /\ \/ part \in {"pipeline", "capture"} /\ Init
               \/ part = "boot" /\ Booting!Init

Running == part = "pipeline" /\ PipeNext /\ UNCHANGED <<captureVars, part>>
Boots == part = "boot" /\ ReceiverStep /\ UNCHANGED <<captureVars, part>>
Captures == part = "capture" /\ CaptureNext /\ UNCHANGED <<allVars, part>>

PartSpec == PartInit /\ [][Running \/ Boots \/ Captures]_partVars /\ PipeFairness
-----------------------------------------------------------------------------
\* What is waited for comes: a module that subscribes while connections break ends its boot, and
\* an event that happens while all is sound reaches its handler.
WhatIsWaitedForComes == BootEnds /\ SoundEventsAreHandled
=============================================================================
