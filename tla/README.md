# A formal model of GA330-libretro

GA330-libretro is a libretro core that runs applications of the GA330
handheld. The host side (C++) builds a Unicorn engine, loads a small
replacement system, miniSYS, into it and resumes it once per video frame. The
guest side (C) consists of miniSYS and the portable library libccos: they load
the application, link its imports and turn its system calls into SVC
instructions, which the host answers.

This directory holds TLA+ modules for the parts of the program that keep state,
the TLC configurations that check them on small instances, and TLAPS proofs of
most of the properties for every value of the constants. `PROJECT.json` is the
machine-readable index: components, runs, the lines every definition models,
hazards, findings and theorems. Paths below are relative to the repository.

## 1. Inventory

| component | state it keeps | operations | hard behaviour | what makes it correct |
|---|---|---|---|---|
| Emulator, `src/ccdl.cpp` | `uc`, `aborted`; in Unicorn: maps, hooks, registers, memory of each engine | `load_rom`, `ccdl_run_frame`, `ccdl_get_framebuffer`, `hook_intr`, `hook_mem_invalid` | 11 calls that can fail half way; an engine that is never closed; a flag that outlives its engine; the guest runs inside `uc_emu_start`; addresses written down in several files | only complete engines run, with all the memory miniSYS counts on; dead engines stay dead; the result is true; every call returns |
| Libretro core, `src/libretro-main.cpp` | callbacks, `frame_buf`, `x_coord`, `y_coord` | the `retro_*` functions, `get_keypad_state` | the frontend's order of calls; the guest calls back into the frontend, also during loading | keys told apart, the right picture, no crash of the frontend that the guest has not asked for |
| Reset and save states, ibid. | the two coordinates | `retro_reset`, `retro_serialize`, `retro_unserialize` | cut to a byte, mask, states from elsewhere | what was saved comes back |
| Files, `src/filesystem.cpp` | `next_handle`, `open_files`, the streams, the host's files | open, close, read, write, seek, tell | lookups that create entries; handles used after close; sticky stream errors; buffered writes that the host may refuse; two seeks for one | a handle leads to its own file or to none, and stands where C has it |
| SVC handlers, `src/api.cpp` | `file_buffer` | one handler per EMU row of `api.csv` | unchecked guest memory, 32-bit products, division by a guest's 0, panic that stops like a frame, processor time that wraps and overflows | a handler answers the call that was made, with the bytes of that call |
| Stack walk, `src/debug.cpp` | none | `aarch32_walk_stack` | bound, unmapped memory, wrap of `sp` | it ends, and reports the stack |
| Thunk generator, `make-thunks.py`, `api.csv` | `next_svc`, `all_`, the two tables | three walks over the rows | numbers given in one walk and used by the order of another | the tables agree with the thunks |
| miniSYS, `minisys/` | `my_dl`, the heap, the cells of `fsys_fopen`, the C library's output buffer | `_start`, `ccos_get_builtin_proc`, `ccos_panic_at`, `fsys_*`, `sys_judge_event`, `kbd_get_status`, `OSTimeGet`, `_sbrk`, `_write`, `_fstat`, `_isatty` | panics that are expected not to return; a search with no bound but a sentinel; a heap with no upper bound that also shrinks; output buffered in the guest | every import is linked to a function that exists; panics are seen; blocks do not overlap |
| Loader and resources, `libccos/src/dl.c` | `DL_t`, `DL_res_t` | `ccdl_from_memory`, `dl_get_proc`, `dl_res_*` | the application's entry point runs before `DL_t` is filled in; a decoding loop that counts elements where bytes were copied | imports are linked before the application runs; the entry point is that of the code; resources arrive decoded |
| Stubs, `libccos/src/malloc.c`, `ucos_ii.c` | none | `OSMalloc`, `OSFree`, semaphores that do nothing | none | - |
| Standalone emulator, `src/standalone-main.cpp` | none | `main` | stops at the first frame | - |
| Vendored: `include/libretro.h`, GSL, Unicorn | - | - | `libretro.h` is the contract of the frontend | - |

How they interact. The frontend calls `retro_load_game` and `retro_run` in one
thread; they call `load_rom` and `ccdl_run_frame`, which enter `uc_emu_start`.
From there the guest runs. An SVC instruction of a miniSYS thunk brings it to
`hook_intr`, which calls the handler with the instruction's number: `newFrame`
and `panic` stop the engine, `getKeyPad` calls a callback of the frontend, the
file handlers call the one `Filesystem`, `putc` passes on one character of what
the guest's C library has buffered. There are no threads: what makes the order
of things hard is that the guest, the frontend and the failures of the set-up
interleave at the calls.

`PROJECT.json` lists under `hazards` what in this code is hard to test, with
the line and the property that watches it.

## 2. Modules and the code they stand for

| module | code | state | actions |
|---|---|---|---|
| `EngineLife` | the promise of `ccdl.cpp` | `life`: the stage of every engine | `Open`, `Boot`, `Pause`, `Resume`, `Halt`, `Die` |
| `Ccdl` | `src/ccdl.cpp`, the SVCs that stop the engine | `uc`, `aborted` as in the code; `engines`, what Unicorn keeps; `at`, `caller`, `step`, where the host thread is; `rc`, `load_rom`'s last result; `crash` | see below |
| `LibretroCore` | `src/libretro-main.cpp`; EXTENDS `Ccdl` | the callbacks set, `frame_buf`, what was shown, how far the frontend is | one per `retro_*` function; `retro_load_game` and `retro_run` are two, one before and one after the guest ran |
| `SaveState` | `retro_reset`, `retro_serialize`, `retro_unserialize` | the two coordinates, the frontend's buffer | one per function |
| `Keypad` | `get_keypad_state`, `update_input`, `kbd_get_status` | the buttons polled, the words the guest got | `UpdateInput`, `KbdGetStatus` |
| `Clock` | `Svc_GemeiEmu_getTimeMs`, `sleepMs`, `OSTimeGet`, `OSTimeDly` | processor ticks, those left until `clock_t` overflows, the last answer | `Work`, `OSTimeGet`, `OSTimeDly` |
| `CoreIO` | `SaveState`, `Keypad` and `Clock` around `retro_run` | whether a frame is in progress | keys and time during a frame, states between frames |
| `Fstream` | `std::fstream` (external) | none, operators on stream records | `AfterRead`, `AfterWrite`, `SeekOnce` |
| `Filesystem` | `src/filesystem.cpp`; EXTENDS `Fstream` | `next_handle`, `open_files`, sizes of the host's files; `guessed`, what was passed as a handle before it was issued | one per method, two for `open_file`, and `seek_file` on a full disk |
| `FileApi` | the file handlers of `src/api.cpp`, `fsys_*` of `minisys.c`; EXTENDS `Filesystem` | the cells, `file_buffer` and its capacity, what C says of each cell | one per `fsys_*` function, with its handler |
| `Thunks` | `make-thunks.py`, `ccos_get_builtin_proc`, `hook_intr` | the generator's variables and outputs, the scan, what is linked | `EmitThunk`, `EmitHandler`, `EmitFunction`, `EndWalk`; the scan; `CallEmu` |
| `CcdlFile` | the file `dl.c` reads, and the search for a section; `ccos_get_builtin_proc` | none, operators on files | - |
| `AppLife` | the promise of miniSYS to an application; EXTENDS `CcdlFile` | the stage of the application, its image, its entry point, what it asked for | `Load`, `Refuse`, `EntryReturns`, `CallMain`, `MainReturns`, `Ask` |
| `Loader` | `_start`, `ccos_get_builtin_proc`, `GetDLHandle` of `minisys.c`; `ccdl_from_memory`, `dl_get_proc` of `dl.c`; EXTENDS `CcdlFile` | the file, memory by words, `shdr_code`, `my_dl`, the next import, the entry point called, what was found for `AppMain` and for the application | `CheckHeader`, `CopyImage`, `LinkImport`, `LinkFails`, `CallEntryPoint`, `EntryPointReturns`, `CallAppMain`, `AppMainReturns`, `AppGetsProc` |
| `GuestHeap` | `_sbrk`, `OSMalloc`, `OSFree`; `malloc` of newlib (external) | `heap_end`, what the library has free, the blocks in use | `Malloc` (from what is free, or through `_sbrk`), `Free`, `Trim` |
| `Allocator` | the promise of the guest's heap | what each block holds, and whether for good | `Give`, `TakeBack` |
| `Resources` | `dl_res_open`, `dl_res_get_size`, `dl_res_get_data`; EXTENDS `GuestHeap` | the resource sections, the handles in the heap, the application's buffer | `DlResOpen` and its failures, `DlResGetSize`, `DlResGetData`, the application's own allocations |
| `Console` | `_write`, `_fstat`, `_isatty`, the SVC `putc`; stdio of newlib (external) | the library's buffer, what was printed, what the host has | `Printf`, `TakeChar`, `Putc`, `WriteReturns` |
| `StackWalk` | `src/debug.cpp` | `sp`, `i`, the addresses reported | `WalkStarts`, `WalkStep`, `WalkEnds` |
| `PanicReport` | `ccos_panic_at`, `Svc_GemeiEmu_panic`; EXTENDS `Console`, `StackWalk` | where the panic is | `CcosPanicAt`, `PanicSvc`, `Walking`, `EmuStops`, `Resumed` |

`MC*` modules instantiate these for TLC, `*Proofs` modules hold the theorems.

**Ccdl.** `load_rom` is `LoadRom` (both files are read; a missing one is a null
`FILE*`, a path that is NULL kills the process), `UcOpen` or `UcOpenFails`, then
one step for each call of the set-up, which succeeds, fails and makes `load_rom`
return -1 (`ERR_CHECK`), or, for the one unchecked call, fails and is passed
over; then `StartMinisys`. `ccdl_run_frame` is `RunFrame`: it returns at once
when `aborted`, dies on a null engine, finds an engine at program counter 0, or
resumes the guest. The guest is any program that makes its SVCs through the
thunks: it draws, ends the frame, panics, returns from `AppMain`, faults, reads
the keys, runs on forever, or makes one of the requests (`Fatal`) that kill the
host with it: a transfer of `size` 0, one the host has no memory for, an SVC
number behind the end of the table. Everything the program counter can be is
abstracted to *zero* or *code*: an engine that was never started is at 0, and so
is one whose `_start` returned, because `LR` is 0; since `uc_emu_start` is told
to stop at address 0, this is exactly what decides whether an instruction is
executed. Whether Unicorn stops there silently or reports a fetch error is left
open. `Regions` are the maps of `load_rom`, `Assumed` the pages that miniSYS,
its linker script and its startup code use without being told where they are:
`RunsOnlyBuilt` says that a running guest has all of them.

**LibretroCore.** The frontend may do what `include/libretro.h` allows: set the
environment, call the other `retro_set_*` functions at any time before the
first `retro_run`, initialise, load, run, unload, load again, deinitialise. It
loads with a good path, a path that cannot be opened, or none, and through
`retro_load_game_special`, which passes on a null pointer. That `path` may be
NULL is documented (`include/libretro.h:2553`) and not looked at by the code:
`LoadRom` then ends in the crash *null_path*.

**CoreIO.** `retro_run` polls the buttons, the guest asks for keys and time as it
likes, and between two frames the frontend resets, saves and loads, also states
from elsewhere. The coordinates are those the sample core of libretro came with:
nothing in the program reads them, and the game itself is in no state that is
saved. `get_keypad_state` is `KeyBits`, button by button. Time is ticks of
processor time in a register of `TimeWord` milliseconds, which wraps;
`sleepMs` does not advance it. `clock() * 1000` is computed in a `clock_t`, which
holds it for `Room` ticks of the process: about 36 minutes where `clock_t` has 32
bits, as in a build with MSVC. From then on the signed product overflows and an
answer is any word.

**Filesystem and FileApi.** Contents are abstracted to lengths: a stream is a
position, a flag and the position up to which its bytes are in the host file. A
write may be written out in part at once, or later, as libstdc++ decides, and the
host may refuse at any byte (a full disk) in a write, a seek or `fclose`, which
nothing reports. The functions of miniSYS take any pointer and look at nothing but
the word behind it, and no handle is validated, so a call is named by that word:
what one of the cells holds, closed ones too, or any word of `Stray`, which may be
another's handle or one that is still to be issued. A lookup of the latter leaves
an entry that `emplace` does not replace; `guessed` remembers which these are, and
`StreamOfCell` and `OpenDelivers` say that such a handle leads to its own file or to
none, never to another, and that
all others are not disturbed. `streams` is the comparison with C: where C's stdio
would have the file, for as long as the guest has kept to what the two agree on;
a short read, a write to a file open for reading or one that is refused, or a
`SEEK_CUR` with an offset (the code moves twice) ends the comparison, and only
`fclose` ends the cell. The bytes in `file_buffer` are told apart by whose they
are. `size` 0 kills the host or, where division by 0 does not trap, gives some
result; a string in unmapped memory may keep the host in its loop for good.

**Thunks.** The contents of `api.csv` is a sequence of rows of name, type and
the name the prototype declares, under which an EMU thunk is emitted;
each walk visits one row per step. What a function does is abstracted to its
kind and its SVC number. The handlers are compared by name.

**Loader.** A file is a sequence of sections, in any order and number; each loop
of the code over the sections ends at the first of its type, which is
`FirstSection`. Copying the image is one step, which leaves the header of the
code in `shdr_code`, from where its entry point is taken when all is linked; the
imports are linked one by one because each can panic. The application is any
program that, in its entry point and in `AppMain`, may ask `dl_get_proc` for any
name; `my_dl` has no sections before the entry point has returned. A panic ends
the loader here; that the emulator goes on behind one is modelled in `Ccdl`.
Files are assumed to be well formed as far as the code trusts them: an import's
two words are memory, and no other import's. `AppLife` is the same seen by the
application, in four stages: a load is one step there, however many the loader
takes, and a refusal has a reason in the file. `Loader` maps to it by hiding
memory until all of it is linked.

**GuestHeap and Resources.** Memory is counted in units. The library's `malloc`
takes any free stretch that is long enough or asks `_sbrk` for at least what it
needs, and gives free memory at the end back; nothing is assumed about how it
chooses. `_sbrk` has no upper bound: a handle that is stored above `RAM_END`
meets unmapped memory, which ends the engine (`faulted`). A byte of a resource
is the offset it comes from and whether it has been decoded, so that a byte
decoded twice, or not at all, shows. An entry of a table may point anywhere. Its
offset is stored in an `int` of `WordSize` values and added to the address of
the file, so that a read may come to other memory that is mapped (`Elsewhere`:
miniSYS, the stack, the RAM), before the file or behind it, and then succeeds
with bytes that are nobody's resource; where nothing is mapped it faults. A read
of no bytes does not, since `memcpy` then touches nothing. `Allocator` is what
is left of the heap when free memory, the end of the heap and the library's
choices are hidden.

**PanicReport.** The message of a panic goes through the guest's C library, which
decides once how it buffers, by `_fstat` and `_isatty`; `st_blksize` is left
uninitialised by `_fstat`, so any size of the buffer is possible. Then the SVC
walks the stack: any `pc`, `lr`, `sp` and memory, with holes anywhere. The next
`ccdl_run_frame` resumes the guest behind the panic, which may print and panic
again.

## 3. What the runs check

| run | instance | shows |
|---|---|---|
| `ccdl` | two engines, two pictures; 19 711 states | `RunsOnlyBuilt`, `ResultIsTruthful`, `DeadEngineFrozen`, `HostReturns`, and that `Ccdl` implements `EngineLife` |
| `core` | the same under the frontend; 581 267 states | `OnlyGuestCrashesGoodGame`, `RunShowsFramebuffer`, `CallsReturn`, and that the core uses `Ccdl` as `CcdlSpec` (`CoreImplementsCcdl`) |
| `core_io` | two buttons held at most, a clock that wraps at three milliseconds and overflows after nine ticks; 940 800 states | `RoundTrip`, `KeysTellApart`, `ElapsedIsTrue` |
| `files` | one host file, two opens, lengths to 2, a guest that guesses the second handle; 329 005 states | `StreamOfCell`, `PositionAsInC`, `BufferServesCall`, `OpenDelivers` |
| `thunks` | every `api.csv` of up to three rows | `DispatchesOwn`, `ScanInTable`, `SearchIsRight`, `LinkedIsDefined`, `KnownNamesLink` |
| `loader` | every file of up to three sections out of nine | `ImportsLinked`, `LoadEnds`, and that `Loader` implements `AppLife` |
| `resources` | four units of heap, three blocks, four tables of resources, one with entries outside of the file, other memory on both sides of it; 132 497 states | `BlocksApart`, `ResourceDelivers`, and that the heap implements `Allocator` |
| `panic_report` | five characters, buffers of 1, 2 and 4, three words of stack memory | `LinesAreOut`, `ReportIsStack`, `PanicIsReported` |

Each run also has the type invariant of its module. Four further runs state
what the repository documents of the program and TLC shows that the code does
otherwise (`findings` in `PROJECT.json` quotes the lines):

| run | documented | the code |
|---|---|---|
| `panic` | `GemeiEmu_panic` does not return | the next `retro_run` resumes the guest behind it |
| `verdict` | `retro_load_game` returns false on failure | it ignores the result of `load_rom` |
| `callback` | callbacks are set before the first `retro_run` | `retro_load_game` already calls one |
| `reload` | `retro_run` runs the game | `aborted` of an earlier game is never reset |

**Bounds.** `MaxLoads = 2`: two engines are the fewest where an engine can be
overwritten, where a failing `uc_open` leaves an old one, and where `aborted`
outlives its engine; a third adds nothing to the code's two statics, and the
proofs are for any number. `Pixels` has two values, the fewest that tell a fresh
picture from an old one. `StateBytes` are 32 and 255, the first byte the mask
changes and the last byte; `BufferSizes` one too short and one just right.
`MaxHeld = 2`: two buttons show whether two keys share a bit. `TimeWord = 3`
with `TicksPerMs = 2` and single steps of work reaches every place of a wrap;
`Room = 9` is more than one turn of the register, so that wraps come before the
overflow and behind it. `MaxOpens = 2`: two handles on one file, or one closed
and its successor. `Stray` is 2, the second handle: passed before it is issued,
it is a guess, and afterwards a pointer of the guest's own to another's handle.
`MaxLen = 2`, `Offsets = -1..1`, and requests of no byte, two bytes and nine
(one in a `Word` of 4): reads past the end, seeks before the start, writes that
overlap, and a product that wraps. `MaxRows = 3`: a row before, at and behind
every other, of all six types. `MaxSections = 3`: code, imports and exports in
every order, one of them missing, or two of a type, of which the second must be
ignored; eight words of memory let two code sections and the imports overlap. An
`int` of 16 values around a file of four bytes, with one mapped byte behind the
file and one before it, lets an entry lead into either and one end in the gap
between. RAM is units 1 to 3 and the heap may grow to 4, one past it; three
blocks allow a free hole between two in use and blocks to be given back and
taken again; a buffer of three bytes takes two requests of different lengths in
part. `MaxPrinted = 5` is a line that has not ended, a panic and one more line;
buffers smaller than a line, as long and longer. `WordAddrs = 3` and `WalkLimit
= 2` let the walk end by its limit, at a hole, and across the end of the address
space.

**Symmetry.** `Bytes` in `files` and `Blocks` in `resources` are permuted: both
are compared for equality only, neither is named in a property, and neither run
checks liveness. The other model values are told apart, or are under liveness
properties, and are not permuted.

**Deadlock.** `CHECK_DEADLOCK FALSE` is set only where the process can die or
hang (`ccdl`, `core`, `files`: a crashed host stops for good), the engine can
(`resources`), the program ends (`loader`: `_start` returns or panics), or the
bound on what is printed is reached (`panic_report`). In `core_io` and `thunks`
TLC checks that some step is always possible.

**Fairness.** `CcdlFairSpec` and `LibretroCore!FairSpec` have weak fairness of
the host thread's own steps only (`HostStep`, `CoreStep`): straight-line code
that waits for nobody. Nothing forces the guest to end a frame or the frontend
to make a call, so `HostReturns` and `CallsReturn` say *unless the guest runs on
forever*. `Thunks!FairSpec` lets the generator finish and a search go on.
`Loader!FairSpec` lets miniSYS run on as the straight-line code it is, and leaves
it to the application whether its entry point or `AppMain` ever returns.
`PanicReport!FairSpec` does the same for the C library, `ccos_panic_at` and the
handler, once a panic has begun.

## 4. What is proved

The proofs assume of the constants only what the modules' named assumptions say:
that bounds are natural numbers, that values which stand for *none* are not
among the others, and in particular `ThunksAssumption` (every name has one row,
and an EMU row declares its own, which the generator asserts),
`LoaderAssumption` (imports have words of their own), `FileApiAssumption` (the
product of a request, in the register's width, is a length considered),
`ResourcesAssumption` (the application's buffer is smaller than the address
space, and the file than the half of it that an `int` can name), and
`PanicAssumption` (a panic has a message).

* `CcdlProofs`. `RunsOnlyBuilt` is not inductive: that no guest runs in a half
  built engine follows from the program counter, and that from the order of the
  set-up. The invariant `IInv` says what is done at each place of the host
  thread (`Busy`, `Progress`), that an engine with code was built completely
  (`CodeIsBuilt`), that only the newest engine can be dead without `aborted`
  being set, and that it is the only one that changes. From it follow
  `TypeCorrectness`, `OnlyBuiltEnginesRun`, `ResultsAreTruthful`,
  `DeadEnginesStayFrozen`, and `KeepsEngineLife`: each step of `ccdl.cpp` is one
  step in the life of one engine, or none. `AbortsHaveCause` is what holds
  behind the finding `reload`: `aborted` is set if and only if an engine of the
  process has died. `SetupsAreShort` is the half of `HostReturns` that the
  prover can state: every step of the set-up leaves one call less to make.
* `LibretroCoreProofs`. `CoreUsesCcdl` shows that every step of the core is a
  step of `CcdlNext` or leaves its variables alone, so that all of the above
  holds under every frontend (`CoreKeepsEngines`). `CoreInv` adds how the
  `retro_*` call in progress and the place of the host thread belong together;
  it gives `OnlyGuestsCrashGoodGames`: the null engine and the null callback are
  met only when `load_rom` failed or during it. `StaticsOK` adds that an engine
  exists during `retro_run`, unless the process has died; it gives `CoreTypes`
  and `RunsShowTheFramebuffer`.
* `ThunksProofs`. For every `api.csv`: each part of the invariant describes one
  output up to the row its walk has reached. The number of an entry is described
  by that of the entry before it, so that no counting over the file (and no
  induction over data) is needed. It gives `CallsReachTheirHandlers`,
  `ScansEndInTable` and `ImportsAreDefined`. `ScanPlace` says where the search
  can be; with it `ThunksTypes` follows. `PassedOver`, that no row behind the
  search has the name it looks for, gives `SearchesEndRight`: what ends is a hit
  on the name, or a miss of a name that no row has.
* `LoaderProofs`. The invariant says how far each part has come at each place of
  the loader: what of the image is placed (`ImagePlaced`), which imports are
  linked (`LinkedSoFar`), whether `my_dl` is filled in (`FilledIn`), and what
  was found with it (`MainFound`, `AskedTrue`). That linking one import leaves
  the others linked rests on `SlotsAreApart`; that the searches find what is
  there rests on the least element of a set of naturals (`LeastNat`, from the
  library's well-foundedness of `<`). It gives `LoaderTypes`,
  `ApplicationsAreLinked`, `ImagesAreIntact`, `AppMainIsOwn`,
  `OwnNamesComeFirst` and `PanicsHaveReasons`, for every file. `KeepsAppLife` is
  the refinement: `LifeInv` adds what is in memory while the application runs,
  `Untouched`, that an import leaves what is not its slot as it was, and
  `FoundIsAnswer`, that a search finds what `AppLife` promises. `LoadsAreShort`
  bounds the loader by a measure, `LoadWork`, that every step of its own lowers.
* `FileApiProofs`. First the table of open files: the types and
  `TableBelowCounter`, that an entry nobody has opened is under a handle that
  was guessed, are inductive together; they give `FsTypes`, `NoHandleReuse`,
  `OpensDeliver` and `FailuresAreFinal`. These are about `Filesystem` alone,
  with any use of its methods. Then the guest's side. `CellsAreHandles`, that
  the k-th cell holds the k-th handle, is what keeps the cells apart; with the
  table's invariant it gives `CellsLeadToTheirStreams`. Every call is at most
  one call of the table (`ApiUsesFilesystem`), so that the theorems about
  `FsSpec` hold of every guest (`FopensDeliver`, `GuestsReuseNoHandle`,
  `GuestFailuresAreFinal`). `Stray` is any set of integers in all of them.
  `BufferServesItsCall` is about `file_buffer`. `PositionsAreC` needs more than
  the position: `AtPos` says that the stream has not failed and that one open
  for reading has nothing to write out, which is why the second seek of
  `seek_file` finds the same end of the file as the first.
* `CoreIOProofs`. `StatesRoundTrip` is inductive with the types, since a number
  below 32 survives cut and mask. `KeysAreToldApart` compares cardinalities
  through a bijection of buttons and bits. `TimeIsTrue`, for as long as
  `clock_t` holds the product, needs the invariant `AnsweredAt`: there is a tick
  count at which the last answer was right, and the register now is that count
  and what has passed since, modulo the wrap; the rest is arithmetic of
  quotients.
* `ResourcesProofs`. `Pool` describes the memory a block is taken from, whether
  it was free or has just come from `_sbrk`: that gives `BlocksStayApart`.
  `HandleOK` says of every handle in use that its memory still holds what was
  found for its name, and how far it has been read: that no application call
  overwrites it is `BlocksApart` again. It gives `ResourcesAreDelivered`, for
  every table, which again rests on the least element of a set of naturals.
  `TypesInv` adds where a handle that was read from stands, and gives
  `ResTypes`, also for tables whose entries lie outside of the file: what a
  handle and the buffer can hold when other memory was read. `KeepsAllocator`
  follows from `BlocksStayApart`: what `malloc` gives out is nobody's
  (`MallocGives`), what `free` takes back is the application's
  (`FreeTakesBack`), and no other step moves a block.
* `PanicReportProofs`. `LinesAreOut` is not inductive: that a line is out when
  `printf` returns follows from where the library stands between two characters,
  with room for one more and no ended line in its buffer (`Settled`). That
  nothing is lost or overtaken is the equation of sequences itself, preserved
  character by character (`TakeOne`, `PassOne`). It gives `PrintedLinesAreOut`
  and, with the bounds of the walk, `PanicTypes`. `WalkSoFar` says that the
  addresses reported are those of the words passed, which is stated by positions
  and needs no induction over the stack; with it `StackIsReported` says that at
  the end the report is complete and no longer. `PanicsAreShort` has the measure
  `PanicWork`.

Some theorems are about properties that no run checks, since one that is
checked says as much on a small instance: `ImageIntact`, `MainIsOwn`,
`OwnNamesFirst` and `NoNeedlessPanic` follow from `ImplementsAppLife`; the
measures `SetupWorkFalls`, `LoadWorkFalls` and `PanicWorkFalls` stand behind
`HostReturns`, `LoadEnds` and `PanicIsReported`; `ImplementsFilesystem`
and `ClosedStaysClosed` are what `StreamOfCell` rests on.
`AbortedByDeath` and `FailedIsInert` are proved alone.

Only model-checked: the liveness properties (`HostReturns`, `CallsReturn`,
`KnownNamesLink`, `LoadEnds`, `PanicIsReported`; liveness and ENABLED are outside
the prover, which has the measures behind three of them instead); and the four
disagreements with the documents, which are counterexamples.

## 5. What is not modelled

Logging, formatting and the traces; the queries of the libretro interface,
which return constants; `define_drive`, whose table nothing reads; the
sanitising of paths, which happens before the file is named here; the contents
of files, beyond whose bytes they are; `dl_res_close`, an empty function; the
stubs of `syscalls.c` no application reaches and those of `ucos_ii.c` that print
and return a constant; GSL; the build files. The standalone emulator makes a
single call of `load_rom`. Instructions of the guest are not interpreted: of an
application that executes SVC instructions of its own, only that a number behind
the end of the table kills the host is modelled; one that writes into memory it
was not given is outside the model. That a heap beyond RAM ends the engine is
a step of `Resources`; in `Ccdl` it is one of the reasons for `GuestFaults`.

Some hazards have no property: a missing file, a null path and an unreadable
string are outcomes of actions, but no document says what should happen, and an
engine that is leaked at every load shows only in memory. Nor is anything
promised of the bytes that a full disk refused, of a division by the guest's 0,
of the bytes written from an unmapped buffer, or of reads that a resource
decodes in part: each is a step of its module, and the properties name it as the
exception. `PROJECT.json` says so at each.

## 6. Plan

Done: all parts of the program that keep state, their compositions
(`LibretroCore` on `Ccdl`, `FileApi` on `Filesystem`, `CoreIO`, `PanicReport`,
`Resources` on `GuestHeap`), the refinements (`EngineLife`, `CcdlSpec`,
`FsSpec`, `AppLife`, `Allocator`), and a theorem for every property of a passing
run that is not a liveness property.

Left:

* A composition of `Loader` and `Resources`, which now share only the order in
  which `my_dl` is filled in.
* The cells of `fsys_fopen` as blocks of `GuestHeap`: `KeepsAllocator` says that
  they keep their memory, `FileApi` takes it for granted.
* An abstract specification of what a file is to a guest, which `FileApi`
  implements as long as the two agree, in place of `PositionAsInC` alone.
