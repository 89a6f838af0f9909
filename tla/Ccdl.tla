-------------------------------- MODULE Ccdl --------------------------------
(***************************************************************************)
(* src/ccdl.cpp: load_rom builds a Unicorn engine and runs miniSYS in it   *)
(* up to the first frame; ccdl_run_frame resumes it for one frame more.    *)
(* One host thread runs everything: `at' is where it is, and uc_emu_start  *)
(* is the one call that does not return at once, so the steps of the guest *)
(* are actions of their own.                                               *)
(*                                                                         *)
(* The engine of load_rom is never closed (uc_close is a TODO in the code),*)
(* so the model keeps every engine ever opened, numbered from 1.  Each     *)
(* successful uc_open overwrites uc, so uc is always the newest engine.    *)
(***************************************************************************)
EXTENDS Integers, Sequences

CONSTANTS
  MaxLoads,     \* bound: engines that can be opened
  Pixels,       \* framebuffer contents told apart
  Blank         \* the zeroed framebuffer of a fresh engine

ASSUME CcdlAssumption == MaxLoads \in Nat /\ Blank \in Pixels

VARIABLES
  uc,           \* the static engine pointer: 0 is NULL
  engines,      \* engine number |-> its state
  aborted,      \* the static flag
  at,           \* where the host thread is
  caller,       \* which function called uc_emu_start
  step,         \* the next call of load_rom's set-up
  rc,           \* what the last load_rom returned
  crash         \* why the host process died, "none" while it lives

ccdlVars == <<uc, engines, aborted, at, caller, step, rc, crash>>

(***************************************************************************)
(* The calls load_rom makes on the engine, in its order.  All but the map  *)
(* of the I/O page (line 124) are followed by ERR_CHECK.                   *)
(***************************************************************************)
Setup == << "map_minisys", "write_minisys", "map_stack", "map_ram",
            "map_framebuf", "map_app", "write_app", "map_mmio",
            "hook_mem_invalid", "hook_intr" >>

SetupCalls == {Setup[i] : i \in DOMAIN Setup}
Unchecked  == {"map_mmio"}
Required   == SetupCalls \ Unchecked

\* What the maps of the set-up cover, in pages of 4 KiB: the call, the first
\* page and the last.
Regions ==
  { <<"map_minisys",  131072, 131135>>,     \* MINISYS_ADDR
    <<"map_stack",    130816, 131071>>,     \* STACK_BOTTOM to STACK_TOP
    <<"map_ram",       65536,  81919>>,     \* RAM_START
    <<"map_framebuf", 524288, 524325>>,     \* FRAMEBUF_ADDR
    <<"map_app",      196608, 212991>>,     \* APP_LOAD_ADDRESS
    <<"map_mmio",      16520,  16520>> }

\* The pages the guest uses without being told where they are: its code and
\* its data (minisys/minisys.ld:3-4), the top of its stack (ccdl.cpp:146), the
\* start of the heap (minisys/syscalls.c:23), the file (ccdl.cpp:153), and the
\* picture from its first byte to its last (minisys/minisys.c:77-100).
Assumed == {131072, 131071, 65536, 69632, 196608, 524288, 524325}

Mapped(page, ready) ==
  \E r \in Regions : r[1] \in ready /\ r[2] <= page /\ page <= r[3]

\* A write into a region that has just been mapped has no way to fail.
CanFail == SetupCalls \ {"write_minisys", "write_app"}

(***************************************************************************)
(* An engine: the set-up calls that succeeded on it; its program counter   *)
(* (0, as uc_open leaves it, or in code); its framebuffer; and two facts   *)
(* of its past: uc_emu_start returned an error on it, the guest executed   *)
(* the panic SVC.                                                          *)
(***************************************************************************)
Engines == 1..MaxLoads

Engine == [ready : SUBSET SetupCalls, pc : {"zero", "code"},
           fb : Pixels, dead : BOOLEAN, panicked : BOOLEAN]

NewEngine == [ready |-> {}, pc |-> "zero", fb |-> Blank,
              dead |-> FALSE, panicked |-> FALSE]

CcdlInit ==
  /\ uc = 0
  /\ engines = [e \in Engines |-> NewEngine]
  /\ aborted = FALSE
  /\ at = "client" /\ caller = "load_rom" /\ step = 1
  /\ rc = 0
  /\ crash = "none"

-----------------------------------------------------------------------------
(***************************************************************************)
(* load_rom.                                                               *)
(***************************************************************************)

\* What can be behind `path' and MINISYS_BIN.
Paths == {"good", "missing", "null"}

\* Both files are read before the engine is touched; neither fopen is
\* checked, so a missing file is read through a null FILE*.
LoadRom(path) ==
  /\ crash = "none" /\ at = "client"
  /\ caller' = "load_rom"
  /\ IF path = "good"
     THEN at' = "open" /\ UNCHANGED crash
     ELSE /\ crash' = IF path = "null" THEN "null_path" ELSE "null_file"
          /\ UNCHANGED at
  /\ UNCHANGED <<uc, engines, aborted, step, rc>>

\* uc_open stores through its argument only when it succeeds.
UcOpen ==
  /\ at = "open"
  /\ uc < MaxLoads
  /\ uc' = uc + 1
  /\ at' = "setup" /\ step' = 1
  /\ UNCHANGED <<engines, aborted, caller, rc, crash>>

\* Mutant: the result of load_rom does not tell that it gave up.
GiveUpSilently ==
  /\ at' = "client" /\ rc' = 0
  /\ UNCHANGED <<uc, engines, aborted, caller, step, crash>>

\* ERR_CHECK: load_rom gives up with -1; what was done so far stays.
GiveUp ==
  /\ at' = "client" /\ rc' = -1
  /\ UNCHANGED <<uc, engines, aborted, caller, step, crash>>

UcOpenFails == at = "open" /\ GiveUp

\* Mutants: the list is left one call late, or begun again.
NextSetupPastEnd == step' = step + 1 /\ UNCHANGED at

NextSetupWraps ==
  step' = (IF step = Len(Setup) THEN 1 ELSE step + 1) /\ UNCHANGED at

NextSetup ==
  IF step = Len(Setup)
  THEN at' = "start" /\ UNCHANGED step
  ELSE step' = step + 1 /\ UNCHANGED at

SetupSucceeds ==
  /\ at = "setup"
  /\ engines' = [engines EXCEPT ![uc].ready = @ \cup {Setup[step]}]
  /\ NextSetup
  /\ UNCHANGED <<uc, aborted, caller, rc, crash>>

\* Mutant: ERR_CHECK is missing.
SetupFailsIgnored ==
  /\ at = "setup"
  /\ Setup[step] \in CanFail \ Unchecked
  /\ NextSetup
  /\ UNCHANGED <<uc, engines, aborted, caller, rc, crash>>

SetupFails ==
  /\ at = "setup"
  /\ Setup[step] \in CanFail \ Unchecked
  /\ GiveUp

SetupFailsUnchecked ==
  /\ at = "setup"
  /\ Setup[step] \in Unchecked
  /\ NextSetup
  /\ UNCHANGED <<uc, engines, aborted, caller, rc, crash>>

\* Set SP, R0 and R1, and enter uc_emu_start at MINISYS_ADDR.
StartMinisys ==
  /\ at = "start"
  /\ at' = "emu"
  /\ engines' = [engines EXCEPT ![uc].pc = "code"]
  /\ UNCHANGED <<uc, aborted, caller, step, rc, crash>>

-----------------------------------------------------------------------------
(***************************************************************************)
(* ccdl_run_frame, up to its uc_emu_start.  An engine at pc 0 is at the    *)
(* `until' address it is given, so no instruction runs: Unicorn either     *)
(* stops at once or reports the fetch from unmapped memory.                *)
(***************************************************************************)
RunAborted == aborted /\ UNCHANGED <<engines, aborted, at, crash>>

RunNull ==
  /\ ~aborted /\ uc = 0
  /\ crash' = "null_engine"
  /\ UNCHANGED <<engines, aborted, at>>

RunAtZero ==
  /\ ~aborted /\ uc # 0 /\ engines[uc].pc = "zero"
  /\ \E err \in BOOLEAN :
       /\ engines' = [engines EXCEPT ![uc].dead = err]
       /\ aborted' = err
  /\ UNCHANGED <<at, crash>>

\* Mutant: `aborted' is not looked at.
RunResumesAborted ==
  /\ uc # 0 /\ engines[uc].pc # "zero"
  /\ at' = "emu"
  /\ UNCHANGED <<engines, aborted, crash>>

RunResumes ==
  /\ ~aborted /\ uc # 0 /\ engines[uc].pc # "zero"
  /\ at' = "emu"
  /\ UNCHANGED <<engines, aborted, crash>>

RunFrame ==
  /\ crash = "none" /\ at = "client"
  /\ caller' = "ccdl_run_frame"
  /\ RunAborted \/ RunNull \/ RunAtZero \/ RunResumes
  /\ UNCHANGED <<uc, step, rc>>

-----------------------------------------------------------------------------
(***************************************************************************)
(* The guest inside uc_emu_start.  It is any program, with any SVC in it;  *)
(* the SVCs that leave the state of this module alone are not steps of it. *)
(***************************************************************************)
InGuest == crash = "none" /\ at = "emu"

\* Mutant: an error of uc_emu_start does not set `aborted'.
EmuReturnsUnmarked(err) ==
  /\ at' = "client"
  /\ rc' = IF caller = "load_rom" THEN (IF err THEN -1 ELSE 0) ELSE rc
  /\ UNCHANGED <<uc, aborted, caller, step, crash>>

\* uc_emu_start returns, and with it its caller.
EmuReturns(err) ==
  /\ at' = "client"
  /\ aborted' = (aborted \/ err)
  /\ rc' = IF caller = "load_rom" THEN (IF err THEN -1 ELSE 0) ELSE rc
  /\ UNCHANGED <<uc, caller, step, crash>>

GuestDraws(p) ==
  /\ InGuest
  /\ engines' = [engines EXCEPT ![uc].fb = p]
  /\ UNCHANGED <<uc, aborted, at, caller, step, rc, crash>>

\* sys_judge_event: SVC newFrame, whose handler calls uc_emu_stop.
GuestNewFrame ==
  /\ InGuest
  /\ UNCHANGED engines
  /\ EmuReturns(FALSE)

\* SVC panic: the stack is printed and the engine stopped, like a frame.
GuestPanics ==
  /\ InGuest
  /\ engines' = [engines EXCEPT ![uc].panicked = TRUE]
  /\ EmuReturns(FALSE)

\* AppMain returns, and _start with it, to the address 0 in LR: the engine
\* stops cleanly there, or dies of the fetch (see ccdl_run_frame).
GuestFinishes ==
  /\ InGuest
  /\ engines' = [engines EXCEPT ![uc].pc = "zero"]
  /\ EmuReturns(FALSE)

\* An access that hook_mem_invalid turns down.
GuestFaults ==
  /\ InGuest
  /\ engines' = [engines EXCEPT ![uc].dead = TRUE]
  /\ EmuReturns(TRUE)

\* SVC getKeyPad: the get_keypad_state the program is linked with may call
\* a frontend callback, which is callable or a null pointer.
GuestGetsKeyPad(callable) ==
  /\ InGuest
  /\ crash' = IF callable THEN "none" ELSE "null_callback"
  /\ UNCHANGED <<uc, engines, aborted, at, caller, step, rc>>

\* What a guest can ask for that the host process does not survive: fread or
\* fwrite with size 0, by which the handler divides; the same with a span the
\* host has no memory for; an SVC whose number svc_handler_table, indexed
\* unchecked, does not go up to.
Fatal == {"division", "no_memory", "no_handler"}

GuestKillsHost(how) ==
  /\ InGuest
  /\ crash' = how
  /\ UNCHANGED <<uc, engines, aborted, at, caller, step, rc>>

Guest ==
  \/ \E p \in Pixels : GuestDraws(p)
  \/ GuestNewFrame
  \/ GuestPanics
  \/ GuestFinishes
  \/ GuestFaults

-----------------------------------------------------------------------------
\* The host's own steps inside load_rom; none waits for anybody.
HostStep ==
  \/ UcOpen \/ UcOpenFails
  \/ SetupSucceeds \/ SetupFails \/ SetupFailsUnchecked
  \/ StartMinisys

\* The client calls the two functions of ccdl.hpp in any order.
CcdlNext ==
  \/ \E path \in Paths : LoadRom(path)
  \/ RunFrame
  \/ HostStep
  \/ Guest
  \/ \E callable \in BOOLEAN : GuestGetsKeyPad(callable)
  \/ \E how \in Fatal : GuestKillsHost(how)

CcdlSpec == CcdlInit /\ [][CcdlNext]_ccdlVars

\* The host thread runs: only the guest may take forever.
CcdlFairSpec == CcdlSpec /\ WF_ccdlVars(HostStep)

\* ccdl_get_framebuffer(old): the error of reading an unmapped framebuffer
\* is ignored, and the caller's buffer keeps what it had.
ccdl_get_framebuffer(old) ==
  IF "map_framebuf" \in engines[uc].ready THEN engines[uc].fb ELSE old

-----------------------------------------------------------------------------
(***************************************************************************)
(* Properties.                                                             *)
(***************************************************************************)

\* Every variable of ccdl.cpp keeps its type in every reachable state.
CcdlTypeOK ==
  /\ uc \in 0..MaxLoads
  /\ engines \in [Engines -> Engine]
  /\ aborted \in BOOLEAN
  /\ at \in {"client", "open", "setup", "start", "emu"}
  /\ caller \in {"load_rom", "ccdl_run_frame"}
  /\ step \in 1..Len(Setup)
  /\ rc \in {0, -1}
  /\ crash \in {"none", "null_file", "null_path", "null_engine", "null_callback"}
               \cup Fatal

\* No guest instruction runs in an engine on which a checked set-up call of
\* load_rom failed or was not made: although its callers ignore load_rom's
\* result and go on to ccdl_run_frame, the program counter of such an engine
\* is still 0, which is where uc_emu_start is told to stop.  Every page that
\* miniSYS takes for granted is mapped then.
RunsOnlyBuilt ==
  at = "emu" =>
    /\ uc # 0 /\ Required \subseteq engines[uc].ready
    /\ \A page \in Assumed : Mapped(page, engines[uc].ready)

\* After uc_emu_start has failed on an engine, nothing about the engine ever
\* changes: `aborted' keeps ccdl_run_frame off it, also when a later load_rom
\* fails before it has replaced uc.
DeadEngineFrozen ==
  [][\A e \in Engines : engines[e].dead => engines'[e] = engines[e]]_ccdlVars

\* ccdl_run_frame refuses to run only because uc_emu_start has failed on an
\* engine of this process, and always once it has: a set-up that gives up, a
\* panic, a game that comes to its end and a null callback abort nothing.
AbortedByDeath == aborted <=> \E e \in Engines : engines[e].dead

\* Between calls, a result 0 of load_rom is never about a broken engine: the
\* engine the next ccdl_run_frame uses has been built completely.
ResultIsTruthful ==
  at = "client" /\ rc = 0 /\ uc # 0 => Required \subseteq engines[uc].ready

\* Every call of load_rom or ccdl_run_frame returns, unless the host process
\* dies or the guest runs on forever without drawing a frame.
HostReturns ==
  at # "client" ~> (at = "client" \/ crash # "none" \/ [](at = "emu"))

\* The calls load_rom has yet to make before its uc_emu_start.
SetupWork ==
  CASE at = "open"  -> Len(Setup) + 2
    [] at = "setup" -> Len(Setup) + 2 - step
    [] at = "start" -> 1
    [] OTHER        -> 0

\* load_rom comes to its uc_emu_start, or gives up, in so many steps at most:
\* nothing the set-up does is done twice, and nobody else gets in between.
SetupWorkFalls ==
  [][(at \in {"open", "setup", "start"}) =>
       SetupWork \in Nat /\ SetupWork' < SetupWork]_ccdlVars

-----------------------------------------------------------------------------
(***************************************************************************)
(* The stage of life each engine is in, for EngineLife.                    *)
(***************************************************************************)
BeingBuilt(e) == e = uc /\ at \in {"setup", "start"}

LifeOf(e) ==
  IF e > uc                     THEN "unborn"
  ELSE IF e = uc /\ at = "emu"  THEN "running"
  ELSE IF engines[e].dead       THEN "dead"
  ELSE IF engines[e].pc # "zero" THEN "paused"
  ELSE IF BeingBuilt(e) \/ ~(Required \subseteq engines[e].ready)
                                THEN "building"
  ELSE "halted"

Life == INSTANCE EngineLife WITH life <- [e \in Engines |-> LifeOf(e)]

\* load_rom and ccdl_run_frame together keep the promise of EngineLife: no
\* engine runs after it halted or died, only the newest runs, and each boots
\* at most once and only when it is built.
ImplementsEngineLife == Life!Spec

=============================================================================
