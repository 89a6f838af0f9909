---------------------------- MODULE LibretroCore ----------------------------
(***************************************************************************)
(* src/libretro-main.cpp on top of src/ccdl.cpp: the life of the core in a *)
(* libretro frontend.  The frontend is the environment; it calls the       *)
(* retro_* functions one at a time, in every order include/libretro.h      *)
(* allows.  retro_load_game and retro_run are two actions each, one up to  *)
(* the call into ccdl.cpp and one from its return on, because the guest    *)
(* runs in between; the other functions are one.                           *)
(*                                                                         *)
(* retro_reset, retro_serialize and retro_unserialize touch only the       *)
(* coordinates of SaveState.tla.                                           *)
(***************************************************************************)
EXTENDS Ccdl

CONSTANT NoFrame      \* a NULL frame buffer, no picture yet

ASSUME CoreAssumption == NoFrame \notin Pixels

VARIABLES
  session,      \* how far the frontend is: "off", "env", "init" or "game"
  api,          \* the retro_* function in progress, or "none"
  cbs,          \* the callbacks registered by the retro_set_* functions
  verdict,      \* what the last retro_load_game returned, or "none"
  frame_buf,    \* the static frame buffer
  shown         \* the picture the last video_cb was given

coreVars == <<session, api, cbs, verdict, frame_buf, shown>>
vars     == <<ccdlVars, coreVars>>

\* Those that may still be unset when retro_load_game is called.
Callbacks == {"video_refresh", "audio_sample", "audio_sample_batch",
              "input_poll", "input_state"}

Init ==
  /\ CcdlInit
  /\ session = "off" /\ api = "none"
  /\ cbs = {}
  /\ verdict = "none"
  /\ frame_buf = NoFrame /\ shown = NoFrame

\* The core is loaded, alive, and no function of it is being executed.
Idle == crash = "none" /\ api = "none"

-----------------------------------------------------------------------------
\* Registers the environment callback and, in any case, a log callback.
RetroSetEnvironment ==
  /\ Idle /\ session = "off"
  /\ session' = "env"
  /\ UNCHANGED <<ccdlVars, api, cbs, verdict, frame_buf, shown>>

\* retro_set_video_refresh and the other four.
RetroSet(c) ==
  /\ Idle /\ session # "off" /\ c \notin cbs
  /\ cbs' = cbs \cup {c}
  /\ UNCHANGED <<ccdlVars, session, api, verdict, frame_buf, shown>>

RetroInit ==
  /\ Idle /\ session = "env"
  /\ session' = "init"
  /\ frame_buf' = Blank
  /\ UNCHANGED <<ccdlVars, api, cbs, verdict, shown>>

RetroDeinit ==
  /\ Idle /\ session = "init"
  /\ session' = "env"
  /\ frame_buf' = NoFrame
  /\ UNCHANGED <<ccdlVars, api, cbs, verdict, shown>>

\* The frontend does not support RGB565: no game is loaded.
RetroLoadGameRefused ==
  /\ Idle /\ session = "init"
  /\ verdict' = "false"
  /\ UNCHANGED <<ccdlVars, session, api, cbs, frame_buf, shown>>

RetroLoadGame(path) ==
  /\ Idle /\ session = "init"
  /\ LoadRom(path)
  /\ api' = "load_game"
  /\ UNCHANGED <<session, cbs, verdict, frame_buf, shown>>

\* Mutant: a load that failed is waited for.
RetroLoadGameReturnsIfGood ==
  /\ crash = "none" /\ api = "load_game" /\ at = "client" /\ rc = 0
  /\ api' = "none"
  /\ session' = "game" /\ verdict' = "true"
  /\ UNCHANGED <<ccdlVars, cbs, frame_buf, shown>>

\* Loads nothing but for the type and the number of another system, and then
\* reads the path through a null pointer.
RetroLoadGameSpecial(type, num) ==
  IF type = 512 /\ num = 2 THEN RetroLoadGame("null") ELSE RetroLoadGameRefused

\* load_rom has returned; its result is not looked at.
RetroLoadGameReturns ==
  /\ crash = "none" /\ api = "load_game" /\ at = "client"
  /\ api' = "none"
  /\ session' = "game" /\ verdict' = "true"
  /\ UNCHANGED <<ccdlVars, cbs, frame_buf, shown>>

\* retro_run: update_input, whose keys are those of Keypad.tla, then
\* ccdl_run_frame.  The frontend has set all the callbacks by now.
RetroRun ==
  /\ Idle /\ session = "game" /\ cbs = Callbacks
  /\ RunFrame
  /\ api' = "run"
  /\ UNCHANGED <<session, cbs, verdict, frame_buf, shown>>

\* Mutant: the picture is shown before it is fetched.
RetroRunReturnsStale ==
  /\ crash = "none" /\ api = "run" /\ at = "client"
  /\ shown' = frame_buf
  /\ frame_buf' = ccdl_get_framebuffer(frame_buf)
  /\ api' = "none"
  /\ UNCHANGED <<ccdlVars, session, cbs, verdict>>

\* ccdl_run_frame has returned: fetch the picture, pass it to video_cb, and
\* give a silent sample to audio_cb.
RetroRunReturns ==
  /\ crash = "none" /\ api = "run" /\ at = "client"
  /\ frame_buf' = ccdl_get_framebuffer(frame_buf)
  /\ shown' = frame_buf'
  /\ api' = "none"
  /\ UNCHANGED <<ccdlVars, session, cbs, verdict>>

\* Mutant: `aborted' is cleared, the dead engine kept.
RetroUnloadGameClears ==
  /\ Idle /\ session = "game"
  /\ session' = "init" /\ aborted' = FALSE
  /\ UNCHANGED <<uc, engines, at, caller, step, rc, crash, api, cbs, verdict,
                 frame_buf, shown>>

\* retro_unload_game has an empty body.
RetroUnloadGame ==
  /\ Idle /\ session = "game"
  /\ session' = "init"
  /\ UNCHANGED <<ccdlVars, api, cbs, verdict, frame_buf, shown>>

-----------------------------------------------------------------------------
\* get_keypad_state asks input_state_cb for every button.
GetKeypadState ==
  /\ GuestGetsKeyPad("input_state" \in cbs)
  /\ UNCHANGED coreVars

\* The guest takes the frontend's process with it.
HostDies ==
  /\ \E how \in Fatal : GuestKillsHost(how)
  /\ UNCHANGED coreVars

\* need_fullpath is false: the path in retro_game_info may be NULL.
GamePaths == {"good", "missing", "null"}

Frontend ==
  \/ RetroSetEnvironment
  \/ \E c \in Callbacks : RetroSet(c)
  \/ RetroInit
  \/ RetroDeinit
  \/ RetroLoadGameRefused
  \/ \E path \in GamePaths : RetroLoadGame(path)
  \/ \E type \in {0, 512}, num \in 0..2 : RetroLoadGameSpecial(type, num)
  \/ RetroRun
  \/ RetroUnloadGame

\* What the host thread does by itself once it is in a retro_* function.
CoreStep ==
  \/ HostStep /\ UNCHANGED coreVars
  \/ RetroLoadGameReturns
  \/ RetroRunReturns

Next ==
  \/ Frontend
  \/ CoreStep
  \/ Guest /\ UNCHANGED coreVars
  \/ GetKeypadState
  \/ HostDies

Spec == Init /\ [][Next]_vars

\* The host thread runs; neither the frontend nor the guest has to do
\* anything.
FairSpec == Spec /\ WF_vars(CoreStep)

-----------------------------------------------------------------------------
(***************************************************************************)
(* Properties that hold.                                                   *)
(***************************************************************************)

\* The statics of libretro-main.cpp keep their types.
CoreTypeOK ==
  /\ CcdlTypeOK
  /\ session \in {"off", "env", "init", "game"}
  /\ api \in {"none", "load_game", "run"}
  /\ cbs \subseteq Callbacks
  /\ verdict \in {"none", "true", "false"}
  /\ frame_buf \in Pixels \cup {NoFrame}
  /\ shown \in Pixels \cup {NoFrame}

\* Every retro_run that returns has shown the framebuffer of the newest
\* engine as the guest left it, also when the engine is dead and nothing was
\* executed; only an engine that never got its framebuffer is not shown.
RunShowsFramebuffer ==
  [][api = "run" /\ api' = "none" /\ "map_framebuf" \in engines[uc].ready
       => shown' = engines'[uc].fb]_vars

\* When the last load_rom returned 0, only the guest can bring the frontend
\* down in a retro_run, by a request in Fatal: the null engine and the null
\* callback are met only when load_rom failed, or during it.
OnlyGuestCrashesGoodGame ==
  api = "run" /\ crash # "none" =>
    rc = -1 \/ (at = "emu" /\ crash \in Fatal)

\* The frontend's calls reach ccdl.cpp only as load_rom and ccdl_run_frame,
\* so that all that holds of it alone holds of it here.
CoreImplementsCcdl == CcdlSpec

\* Every retro_run and retro_load_game returns, unless the process dies or
\* the guest runs forever without a frame.
CallsReturn ==
  api # "none" ~> (api = "none" \/ crash # "none" \/ [](at = "emu"))

-----------------------------------------------------------------------------
(***************************************************************************)
(* What is documented of the program and is not so.                        *)
(***************************************************************************)

\* minisys/emu.h:18 declares GemeiEmu_panic noreturn: once the guest has
\* executed it, no instruction of the guest runs any more.
PanicNeverReturns == at = "emu" => ~engines[uc].panicked

\* include/libretro.h:2855: retro_load_game returns true to indicate
\* successful loading.  A game that has been loaded has a complete engine.
LoadVerdictIsTrue ==
  session = "game" => uc # 0 /\ Required \subseteq engines[uc].ready

\* include/libretro.h:2779: the callbacks are guaranteed to have been set
\* only before the first retro_run, so nothing may be called before.
NoNullCallback == crash # "null_callback"

\* include/libretro.h:2828: retro_run runs the game.  When load_rom has just
\* loaded a game without error, an earlier game's abort does not stop it.
LoadedGameRuns ==
  session = "game" /\ rc = 0 /\ aborted => engines[uc].dead

=============================================================================
