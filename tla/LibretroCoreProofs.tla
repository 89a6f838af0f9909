------------------------- MODULE LibretroCoreProofs -------------------------
(***************************************************************************)
(* What LibretroCore.tla keeps for every number of loads.  The frontend    *)
(* only ever calls load_rom and ccdl_run_frame, so that the core inherits  *)
(* all that CcdlProofs.tla proves of ccdl.cpp; what is left to prove is    *)
(* about the core's own statics.                                           *)
(***************************************************************************)
EXTENDS LibretroCore, CcdlProofs

\* The actions of the core by what they do to ccdl.cpp.
LEMMA CoreStepIsCcdlStep == [Next]_vars => [CcdlNext]_ccdlVars
<1> SUFFICES ASSUME Next PROVE CcdlNext \/ UNCHANGED ccdlVars
  BY DEF vars
<1>1. CASE Frontend
  <2>1. ASSUME NEW path \in GamePaths, RetroLoadGame(path) PROVE CcdlNext
    BY <2>1 DEF RetroLoadGame, CcdlNext, GamePaths, Paths
  <2>2. CASE RetroRun
    BY <2>2 DEF RetroRun, CcdlNext
  <2>3. ASSUME NEW c \in Callbacks, RetroSet(c) PROVE UNCHANGED ccdlVars
    BY <2>3 DEF RetroSet
  <2>4. ASSUME NEW type, NEW num, RetroLoadGameSpecial(type, num)
        PROVE  CcdlNext \/ UNCHANGED ccdlVars
    BY <2>1, <2>4 DEF RetroLoadGameSpecial, RetroLoadGameRefused, GamePaths
  <2> QED
    BY <1>1, <2>1, <2>2, <2>3, <2>4
       DEF Frontend, RetroSetEnvironment, RetroInit, RetroDeinit,
           RetroLoadGameRefused, RetroUnloadGame
<1>2. CASE CoreStep
  BY <1>2 DEF CoreStep, RetroLoadGameReturns, RetroRunReturns, CcdlNext
<1>3. CASE Guest /\ UNCHANGED coreVars
  BY <1>3 DEF CcdlNext
<1>4. CASE GetKeypadState
  <2>1. CASE "input_state" \in cbs
    <3>1. GuestGetsKeyPad(TRUE)
      BY <1>4, <2>1 DEF GetKeypadState, GuestGetsKeyPad
    <3> QED
      BY <3>1 DEF CcdlNext
  <2>2. CASE "input_state" \notin cbs
    <3>1. GuestGetsKeyPad(FALSE)
      BY <1>4, <2>2 DEF GetKeypadState, GuestGetsKeyPad
    <3> QED
      BY <3>1 DEF CcdlNext
  <2> QED
    BY <2>1, <2>2
<1>5. CASE HostDies
  BY <1>5 DEF HostDies, CcdlNext
<1> QED
  BY <1>1, <1>2, <1>3, <1>4, <1>5 DEF Next

\* The core uses ccdl.cpp only through its two functions.
THEOREM CoreUsesCcdl == Spec => CoreImplementsCcdl
<1>1. Init => CcdlInit
  BY DEF Init
<1> QED
  BY <1>1, CoreStepIsCcdlStep, PTL DEF Spec, CcdlSpec, CoreImplementsCcdl

\* Whatever the frontend calls in which order, no guest instruction runs in
\* an engine that load_rom gave up on, and a dead engine stays as it is.
THEOREM CoreKeepsEngines ==
  Spec => /\ []RunsOnlyBuilt /\ []AbortedByDeath
          /\ DeadEngineFrozen /\ ImplementsEngineLife
BY CoreUsesCcdl, OnlyBuiltEnginesRun, AbortsHaveCause, DeadEnginesStayFrozen,
   KeepsEngineLife, PTL DEF CoreImplementsCcdl

-----------------------------------------------------------------------------
\* Where the host thread can be in each retro_* function.
CallsMatch ==
  /\ api = "none" => at = "client"
  /\ api = "load_game" => session = "init"
  /\ api = "run" => session = "game" /\ cbs = Callbacks

\* A game that has been loaded without an engine has failed to load.
NoEngineNoGame ==
  (crash = "none" /\ uc = 0) =>
    ((session = "game" \/ (api = "load_game" /\ at = "client")) => rc = -1)

CoreInv ==
  /\ CallsMatch
  /\ NoEngineNoGame
  /\ OnlyGuestCrashesGoodGame

\* The frontend's calls.
LEMMA FrontendStep ==
  ASSUME IInv, CoreInv, Frontend
  PROVE  CoreInv'
<1> USE DEF CoreInv, CallsMatch, NoEngineNoGame, OnlyGuestCrashesGoodGame, Idle
<1>1. CASE RetroSetEnvironment
  BY <1>1 DEF RetroSetEnvironment, ccdlVars
<1>2. ASSUME NEW c \in Callbacks, RetroSet(c) PROVE CoreInv'
  BY <1>2 DEF RetroSet, ccdlVars
<1>3. CASE RetroInit
  BY <1>3 DEF RetroInit, ccdlVars
<1>4. CASE RetroDeinit
  BY <1>4 DEF RetroDeinit, ccdlVars
<1>5. CASE RetroLoadGameRefused
  BY <1>5 DEF RetroLoadGameRefused, ccdlVars
<1>6. ASSUME NEW path \in GamePaths, RetroLoadGame(path) PROVE CoreInv'
  BY <1>6 DEF RetroLoadGame, LoadRom, GamePaths
<1>7. CASE RetroRun
  BY <1>7 DEF RetroRun, RunFrame, RunAborted, RunNull, RunAtZero, RunResumes
<1>8. CASE RetroUnloadGame
  BY <1>8 DEF RetroUnloadGame, ccdlVars
<1>9. ASSUME NEW type, NEW num, RetroLoadGameSpecial(type, num) PROVE CoreInv'
  BY <1>5, <1>6, <1>9 DEF RetroLoadGameSpecial, GamePaths
<1> QED
  BY <1>1, <1>2, <1>3, <1>4, <1>5, <1>6, <1>7, <1>8, <1>9 DEF Frontend

\* The core's own steps, and the guest's.
LEMMA InnerStep ==
  ASSUME IInv, CoreInv,
         \/ CoreStep \/ (Guest /\ UNCHANGED coreVars)
         \/ GetKeypadState \/ HostDies
  PROVE  CoreInv'
<1> USE DEF CoreInv, CallsMatch, NoEngineNoGame, OnlyGuestCrashesGoodGame
<1>1. CASE HostStep /\ UNCHANGED coreVars
  <2>1. /\ at \in {"open", "setup", "start"} /\ crash' = crash
        /\ at' = "client" => rc' = -1
        /\ rc' \in {rc, -1}
        /\ uc' = 0 => uc = 0
    BY <1>1 DEF HostStep, UcOpen, UcOpenFails, SetupSucceeds, SetupFails,
                SetupFailsUnchecked, StartMinisys, GiveUp, NextSetup, IInv,
                CcdlTypeOK
  <2> QED
    BY <1>1, <2>1 DEF coreVars
<1>2. CASE RetroLoadGameReturns
  BY <1>2 DEF RetroLoadGameReturns, ccdlVars
<1>3. CASE RetroRunReturns
  BY <1>3 DEF RetroRunReturns, ccdlVars
<1>4. CASE Guest /\ UNCHANGED coreVars
  <2>1. at = "emu" /\ uc' = uc /\ uc # 0 /\ crash' = crash
    BY <1>4 DEF Guest, GuestDraws, GuestNewFrame, GuestPanics, GuestFinishes,
                GuestFaults, InGuest, EmuReturns, IInv, Busy
  <2> QED
    BY <1>4, <2>1 DEF coreVars, Guest, GuestDraws, GuestNewFrame, GuestPanics,
                      GuestFinishes, GuestFaults, InGuest
<1>5. CASE GetKeypadState
  <2>1. at = "emu" /\ UNCHANGED <<uc, at, rc, coreVars>>
    BY <1>5 DEF GetKeypadState, GuestGetsKeyPad, InGuest
  <2>2. api = "run" => crash' = "none"
    BY <1>5 DEF GetKeypadState, GuestGetsKeyPad, Callbacks
  <2> QED
    BY <2>1, <2>2 DEF coreVars, IInv, Busy
<1>6. CASE HostDies
  <2>1. /\ at = "emu" /\ crash' \in Fatal /\ crash' # "none"
        /\ UNCHANGED <<uc, at, rc, coreVars>>
    BY <1>6 DEF HostDies, GuestKillsHost, InGuest, Fatal
  <2> QED
    BY <2>1 DEF coreVars
<1> QED
  BY <1>1, <1>2, <1>3, <1>4, <1>5, <1>6 DEF CoreStep

\* The core's invariant holds in every state the frontend can bring it to.
THEOREM CoreInvariance == Spec => []CoreInv
<1>1. Init => CoreInv
  BY DEF Init, CcdlInit, CoreInv, CallsMatch, NoEngineNoGame,
         OnlyGuestCrashesGoodGame
<1>2. IInv /\ CoreInv /\ [Next]_vars => CoreInv'
  <2> SUFFICES ASSUME IInv, CoreInv, [Next]_vars PROVE CoreInv'
    OBVIOUS
  <2>1. CASE UNCHANGED vars
    BY <2>1 DEF vars, ccdlVars, coreVars, CoreInv, CallsMatch, NoEngineNoGame,
                OnlyGuestCrashesGoodGame
  <2> QED
    BY <2>1, FrontendStep, InnerStep DEF Next
<1> QED
  BY <1>1, <1>2, CoreUsesCcdl, Invariance, PTL DEF Spec, CoreImplementsCcdl

\* A retro_run of a game that load_rom has loaded brings the frontend down
\* only by a request of the guest that the host cannot serve, whatever the
\* frontend has called before.
THEOREM OnlyGuestsCrashGoodGames == Spec => []OnlyGuestCrashesGoodGame
<1>1. CoreInv => OnlyGuestCrashesGoodGame
  BY DEF CoreInv
<1> QED
  BY <1>1, CoreInvariance, PTL

-----------------------------------------------------------------------------
\* The core's statics, and: nothing has been aborted, and no frame begun,
\* without an engine.
StaticsOK ==
  /\ session \in {"off", "env", "init", "game"}
  /\ api \in {"none", "load_game", "run"}
  /\ cbs \subseteq Callbacks
  /\ verdict \in {"none", "true", "false"}
  /\ frame_buf \in Pixels \cup {NoFrame}
  /\ shown \in Pixels \cup {NoFrame}
  /\ aborted => uc # 0
  /\ api = "run" /\ crash = "none" => uc # 0

\* ccdl.cpp's own steps take no engine away, and mark none that is not there.
LEMMA EngineStays ==
  ASSUME IInv, [CcdlNext]_ccdlVars
  PROVE  /\ uc # 0 => uc' # 0
         /\ aborted' /\ ~aborted => uc' # 0
<1>1. uc \in Nat
  BY CcdlAssumption DEF IInv, CcdlTypeOK
<1>2. ASSUME NEW path, LoadRom(path) PROVE UNCHANGED <<uc, aborted>>
  BY <1>2 DEF LoadRom
<1>3. CASE RunFrame
  BY <1>3 DEF RunFrame, RunAborted, RunNull, RunAtZero, RunResumes
<1>4. CASE HostStep
  BY <1>1, <1>4 DEF HostStep, UcOpen, UcOpenFails, SetupSucceeds, SetupFails,
                    SetupFailsUnchecked, StartMinisys, GiveUp
<1>5. CASE Guest
  BY <1>5 DEF Guest, GuestDraws, GuestNewFrame, GuestPanics, GuestFinishes,
              GuestFaults, InGuest, EmuReturns, IInv, Busy
<1>6. ASSUME NEW callable, GuestGetsKeyPad(callable) PROVE UNCHANGED <<uc, aborted>>
  BY <1>6 DEF GuestGetsKeyPad
<1>7. ASSUME NEW how, GuestKillsHost(how) PROVE UNCHANGED <<uc, aborted>>
  BY <1>7 DEF GuestKillsHost
<1>8. CASE UNCHANGED ccdlVars
  BY <1>8 DEF ccdlVars
<1> QED
  BY <1>2, <1>3, <1>4, <1>5, <1>6, <1>7, <1>8 DEF CcdlNext

\* The picture fetched from an engine is a picture.
LEMMA FramebufferType ==
  ASSUME IInv, uc # 0, frame_buf \in Pixels \cup {NoFrame}
  PROVE  ccdl_get_framebuffer(frame_buf) \in Pixels \cup {NoFrame}
<1>1. engines[uc] \in Engine
  BY CcdlAssumption DEF IInv, CcdlTypeOK, Engines
<1>2. engines[uc].fb \in Pixels
  BY <1>1 DEF Engine
<1> QED
  BY <1>2 DEF ccdl_get_framebuffer

\* Each function of the core keeps the types.
LEMMA StaticsStep ==
  ASSUME IInv, StaticsOK, [Next]_vars
  PROVE  StaticsOK'
<1> USE DEF StaticsOK, Idle
<1>1. /\ uc # 0 => uc' # 0
      /\ aborted' => uc' # 0
  BY CoreStepIsCcdlStep, EngineStays
<1>2. CASE RetroSetEnvironment
  BY <1>1, <1>2 DEF RetroSetEnvironment
<1>3. ASSUME NEW c \in Callbacks, RetroSet(c) PROVE StaticsOK'
  BY <1>1, <1>3 DEF RetroSet
<1>4. CASE RetroInit
  BY <1>1, <1>4, CcdlAssumption DEF RetroInit
<1>5. CASE RetroDeinit
  BY <1>1, <1>5 DEF RetroDeinit
<1>6. CASE RetroLoadGameRefused
  BY <1>1, <1>6 DEF RetroLoadGameRefused
<1>7. ASSUME NEW path, RetroLoadGame(path) PROVE StaticsOK'
  BY <1>1, <1>7 DEF RetroLoadGame
<1>8. ASSUME NEW type, NEW num, RetroLoadGameSpecial(type, num) PROVE StaticsOK'
  BY <1>6, <1>7, <1>8 DEF RetroLoadGameSpecial
<1>9. CASE RetroRun
  BY <1>1, <1>9 DEF RetroRun, RunFrame, RunAborted, RunNull, RunAtZero, RunResumes
<1>10. CASE RetroUnloadGame
  BY <1>1, <1>10 DEF RetroUnloadGame
<1>11. CASE RetroLoadGameReturns
  BY <1>1, <1>11 DEF RetroLoadGameReturns
<1>12. CASE RetroRunReturns
  <2>1. ccdl_get_framebuffer(frame_buf) \in Pixels \cup {NoFrame}
    BY <1>12, FramebufferType DEF RetroRunReturns
  <2> QED
    BY <1>1, <1>12, <2>1 DEF RetroRunReturns
<1>13. CASE UNCHANGED coreVars /\ (HostStep \/ Guest \/ UNCHANGED ccdlVars)
  <2>1. crash' = crash
    BY <1>13 DEF HostStep, UcOpen, UcOpenFails, SetupSucceeds, SetupFails,
                 SetupFailsUnchecked, StartMinisys, GiveUp, Guest, GuestDraws,
                 GuestNewFrame, GuestPanics, GuestFinishes, GuestFaults,
                 EmuReturns, ccdlVars
  <2> QED
    BY <1>1, <1>13, <2>1 DEF coreVars
<1>14. CASE GetKeypadState
  BY <1>1, <1>14 DEF GetKeypadState, GuestGetsKeyPad, InGuest, coreVars
<1>15. CASE UNCHANGED vars
  BY <1>13, <1>15 DEF vars
<1>16. CASE HostDies
  BY <1>1, <1>16 DEF HostDies, GuestKillsHost, InGuest, Fatal, coreVars
<1> QED
  BY <1>2, <1>3, <1>4, <1>5, <1>6, <1>7, <1>8, <1>9, <1>10, <1>11, <1>12,
     <1>13, <1>14, <1>15, <1>16 DEF Next, Frontend, CoreStep

\* The statics of libretro-main.cpp keep their types, and so do those of
\* ccdl.cpp under it.
THEOREM CoreTypes == Spec => []CoreTypeOK
<1>1. Init => StaticsOK
  BY DEF Init, CcdlInit, StaticsOK, Callbacks
<1>2. IInv /\ StaticsOK /\ [Next]_vars => StaticsOK'
  BY StaticsStep
<1>3. IInv /\ StaticsOK => CoreTypeOK
  BY DEF IInv, StaticsOK, CoreTypeOK
<1> QED
  BY <1>1, <1>2, <1>3, CoreUsesCcdl, Invariance, PTL DEF Spec, CoreImplementsCcdl

\* A retro_run that returns has shown the framebuffer of the newest engine as
\* the guest left it, whether the engine has run or not.
THEOREM RunsShowTheFramebuffer == Spec => RunShowsFramebuffer
<1>1. ASSUME [Next]_vars, api = "run", api' = "none"
      PROVE  RetroRunReturns
  BY <1>1 DEF Next, Frontend, CoreStep, vars, coreVars, Idle,
     RetroSetEnvironment, RetroSet, RetroInit, RetroDeinit,
     RetroLoadGameRefused, RetroLoadGame, RetroLoadGameSpecial, RetroRun,
     RetroUnloadGame, RetroLoadGameReturns, GetKeypadState, HostDies
<1>2. ASSUME RetroRunReturns, "map_framebuf" \in engines[uc].ready
      PROVE  shown' = engines'[uc].fb
  BY <1>2 DEF RetroRunReturns, ccdl_get_framebuffer, ccdlVars
<1>3. [Next]_vars =>
        [api = "run" /\ api' = "none" /\ "map_framebuf" \in engines[uc].ready
           => shown' = engines'[uc].fb]_vars
  BY <1>1, <1>2
<1> QED
  BY <1>3, PTL DEF Spec, RunShowsFramebuffer

=============================================================================
