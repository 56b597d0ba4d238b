------------------------------- MODULE MCSonar -------------------------------
(* Instances of Sonar for TLC: one sonar that the program fires and one of  *)
(* a controller, on ports in the order of the handler or against it.        *)
EXTENDS Sonar, TLC

CONSTANTS fired, controlled

MCOne == {fired}
MCTwo == {fired, controlled}
MCControlled == {controlled}
MCPins == 0..3
MCTrigger == fired :> 0 @@ controlled :> 2
MCEcho == fired :> 1 @@ controlled :> 3
MCTriggerOne == fired :> 0
MCEchoOne == fired :> 1
MCTriggerLast == fired :> 1
MCEchoFirst == fired :> 0
MCPinsOne == 0..1
=============================================================================
