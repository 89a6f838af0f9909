------------------------------- MODULE CoreIO -------------------------------
(***************************************************************************)
(* What passes between the frontend and the guest beside the picture, and  *)
(* between the frontend and the core beside the game: keys, time, and the  *)
(* states the frontend saves.  retro_run polls the keys and lets the guest *)
(* run, which asks for keys and time as it likes; between two frames the   *)
(* frontend resets, saves and loads.                                       *)
(***************************************************************************)
EXTENDS SaveState, Keypad, Clock

VARIABLE in_frame       \* the guest is running, inside retro_run

ioVars == <<saveVars, keyVars, clockVars, in_frame>>

IOInit == SaveInit /\ KeyInit /\ ClockInit /\ in_frame = FALSE

RetroRun ==
  /\ ~in_frame /\ in_frame' = TRUE
  /\ UpdateInput
  /\ UNCHANGED <<saveVars, clockVars>>

FrameEnds ==
  /\ in_frame /\ in_frame' = FALSE
  /\ UNCHANGED <<saveVars, keyVars, clockVars>>

GuestReadsKeys ==
  /\ in_frame
  /\ KbdGetStatus
  /\ UNCHANGED <<saveVars, clockVars, in_frame>>

GuestReadsTime ==
  /\ in_frame
  /\ OSTimeGet
  /\ UNCHANGED <<saveVars, keyVars, in_frame>>

GuestSleeps ==
  /\ in_frame
  /\ OSTimeDly
  /\ UNCHANGED <<saveVars, keyVars, in_frame>>

ProcessRuns ==
  /\ Work
  /\ UNCHANGED <<saveVars, keyVars, in_frame>>

FrontendSaves ==
  /\ ~in_frame
  /\ SaveNext
  /\ UNCHANGED <<keyVars, clockVars, in_frame>>

IONext ==
  \/ RetroRun
  \/ FrameEnds
  \/ GuestReadsKeys
  \/ GuestReadsTime
  \/ GuestSleeps
  \/ ProcessRuns
  \/ FrontendSaves

IOSpec == IOInit /\ [][IONext]_ioVars

-----------------------------------------------------------------------------
\* Coordinates, keys and time keep their types.
IOTypeOK == SaveTypeOK /\ KeyTypeOK /\ ClockTypeOK /\ in_frame \in BOOLEAN

=============================================================================
