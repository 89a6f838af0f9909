----------------------------- MODULE CcdlProofs -----------------------------
(***************************************************************************)
(* What Ccdl.tla keeps for every number of loads and every set of pictures.*)
(* The inductive invariant ties each engine to where load_rom is with it:  *)
(* engines not opened yet are fresh, the one being set up has every        *)
(* checked call made so far behind it, and no engine gets its program      *)
(* counter off 0 before all of them are.                                   *)
(***************************************************************************)
EXTENDS Ccdl, TLAPS

\* Engines above uc have not been opened.
Fresh == \A e \in Engines : e > uc => engines[e] = NewEngine

\* `aborted' is never taken back.
DeadAborts == \A e \in Engines : engines[e].dead => aborted

\* Inside load_rom and uc_emu_start there is an engine, and it is alive.
Busy ==
  at \in {"setup", "start", "emu"} => uc # 0 /\ ~engines[uc].dead

\* Set-up call i of the engine has been made, as far as load_rom cares; or
\* nobody has tried it yet.
Made(i)    == Setup[i] \in Unchecked \/ Setup[i] \in engines[uc].ready
Pending(i) == Setup[i] \notin engines[uc].ready

Progress ==
  /\ at = "setup" => /\ engines[uc].pc = "zero"
                     /\ \A i \in 1..Len(Setup) : i < step => Made(i)
                     /\ \A i \in 1..Len(Setup) : i >= step => Pending(i)
  /\ at = "start" => /\ engines[uc].pc = "zero"
                     /\ Required \subseteq engines[uc].ready
  /\ at = "emu"   => engines[uc].pc = "code"

\* Only a complete engine leaves pc 0.
CodeIsBuilt ==
  \A e \in Engines : engines[e].pc = "code" => Required \subseteq engines[e].ready

IInv ==
  /\ CcdlTypeOK
  /\ Fresh
  /\ DeadAborts
  /\ Busy
  /\ Progress
  /\ CodeIsBuilt
  /\ ResultIsTruthful

-----------------------------------------------------------------------------
\* The required calls are calls of the list; none is the unchecked one.
LEMMA SetupFacts ==
  /\ Len(Setup) = 10
  /\ \A i \in 1..10 : Setup[i] \in SetupCalls
  /\ \A c \in Required : \E i \in 1..10 : Setup[i] = c /\ c \notin Unchecked
  /\ \A i, j \in 1..10 : Setup[i] = Setup[j] => i = j
<1>1. Len(Setup) = 10 /\ DOMAIN Setup = 1..10
  BY DEF Setup
<1>2. \A i, j \in 1..10 : Setup[i] = Setup[j] => i = j
  BY DEF Setup
<1> QED
  BY <1>1, <1>2 DEF SetupCalls, Required

\* An engine on which every call of the list is made is complete.
LEMMA AllMade ==
  ASSUME NEW S,
         \A i \in 1..Len(Setup) : Setup[i] \in Unchecked \/ Setup[i] \in S
  PROVE  Required \subseteq S
BY SetupFacts

\* The program starts without an engine.
LEMMA InitEstablishes == CcdlInit => IInv
<1> SUFFICES ASSUME CcdlInit PROVE IInv
  OBVIOUS
<1> USE CcdlAssumption
<1>1. CcdlTypeOK
  <2>1. NewEngine \in Engine
    BY DEF NewEngine, Engine
  <2>2. engines \in [Engines -> Engine]
    BY <2>1 DEF CcdlInit
  <2>3. step \in 1..Len(Setup)
    BY SetupFacts DEF CcdlInit
  <2>4. uc \in 0..MaxLoads
    BY DEF CcdlInit
  <2>5. /\ aborted \in BOOLEAN
  BY DEF CcdlInit
  <2>6. /\ at \in {"client", "open", "setup", "start", "emu"}
  BY DEF CcdlInit
  <2>7. caller \in {"load_rom", "ccdl_run_frame"}
  BY DEF CcdlInit
  <2>8. rc \in {0, -1}
  BY DEF CcdlInit
  <2>9. crash \in {"none", "null_file", "null_path", "null_engine", "null_callback"}
    BY DEF CcdlInit
  <2> QED
    BY <2>2, <2>3, <2>4, <2>5, <2>6, <2>7, <2>8, <2>9 DEF CcdlTypeOK
<1> QED
  BY <1>1 DEF CcdlInit, IInv, Fresh, DeadAborts, Busy, Progress, CodeIsBuilt,
              ResultIsTruthful, NewEngine

-----------------------------------------------------------------------------
\* Each update of one field that the steps make is an engine again.
LEMMA EngineFields ==
  ASSUME NEW x \in Engine
  PROVE  /\ \A c \in SetupCalls : [x EXCEPT !.ready = @ \cup {c}] \in Engine
         /\ \A p \in Pixels : [x EXCEPT !.fb = p] \in Engine
         /\ \A b \in BOOLEAN : [x EXCEPT !.dead = b] \in Engine
         /\ [x EXCEPT !.dead = TRUE] \in Engine
         /\ [x EXCEPT !.pc = "code"] \in Engine
         /\ [x EXCEPT !.pc = "zero"] \in Engine
         /\ [x EXCEPT !.panicked = TRUE] \in Engine
<1>1. \A c \in SetupCalls : [x EXCEPT !.ready = @ \cup {c}] \in Engine
  BY DEF Engine
<1>2. \A p \in Pixels : [x EXCEPT !.fb = p] \in Engine
  BY DEF Engine
<1>3. \A b \in BOOLEAN : [x EXCEPT !.dead = b] \in Engine
  BY DEF Engine
<1>4. [x EXCEPT !.pc = "code"] \in Engine /\ [x EXCEPT !.pc = "zero"] \in Engine
  BY DEF Engine
<1>5. [x EXCEPT !.panicked = TRUE] \in Engine
  BY DEF Engine
<1> QED
  BY <1>1, <1>2, <1>3, <1>4, <1>5

\* Every call and every guest step keeps the types.
LEMMA TypeStep ==
  ASSUME CcdlTypeOK, [CcdlNext]_ccdlVars
  PROVE  CcdlTypeOK'
<1> USE CcdlAssumption, SetupFacts DEF CcdlTypeOK
<1>1. ASSUME NEW path \in Paths, LoadRom(path) PROVE CcdlTypeOK'
  BY <1>1 DEF LoadRom, Paths
<1>2. CASE UcOpen
  BY <1>2 DEF UcOpen
<1>3. CASE UcOpenFails
  BY <1>3 DEF UcOpenFails, GiveUp
<1>4. CASE SetupSucceeds
  <2>1. engines' \in [Engines -> Engine]
    <3>1. Setup[step] \in SetupCalls
      OBVIOUS
    <3> QED
      BY <1>4, <3>1, EngineFields DEF SetupSucceeds
  <2>2. step' \in 1..Len(Setup) /\ at' \in {"setup", "start"}
    BY <1>4 DEF SetupSucceeds, NextSetup
  <2> QED
    BY <1>4, <2>1, <2>2 DEF SetupSucceeds
<1>5. CASE SetupFails
  BY <1>5 DEF SetupFails, GiveUp
<1>6. CASE SetupFailsUnchecked
  <2>1. step' \in 1..Len(Setup) /\ at' \in {"setup", "start"}
    BY <1>6 DEF SetupFailsUnchecked, NextSetup
  <2> QED
    BY <1>6, <2>1 DEF SetupFailsUnchecked
<1>7. CASE StartMinisys
  <2>1. engines' \in [Engines -> Engine]
    BY <1>7, EngineFields DEF StartMinisys
  <2> QED
    BY <1>7, <2>1 DEF StartMinisys
<1>8. CASE RunFrame
  <2>1. CASE RunAborted
    BY <1>8, <2>1 DEF RunFrame, RunAborted
  <2>2. CASE RunNull
    BY <1>8, <2>2 DEF RunFrame, RunNull
  <2>3. CASE RunAtZero
    <3>1. PICK err \in BOOLEAN :
                 /\ engines' = [engines EXCEPT ![uc].dead = err]
                 /\ aborted' = err
      BY <2>3 DEF RunAtZero
    <3>2. engines' \in [Engines -> Engine]
      BY <3>1, EngineFields
    <3>3. aborted' \in BOOLEAN
      BY <3>1
    <3> QED
      BY <1>8, <2>3, <3>2, <3>3 DEF RunFrame, RunAtZero
  <2>4. CASE RunResumes
    BY <1>8, <2>4 DEF RunFrame, RunResumes
  <2> QED
    BY <1>8, <2>1, <2>2, <2>3, <2>4 DEF RunFrame
<1>9. CASE Guest
  <2>1. ASSUME NEW p \in Pixels, GuestDraws(p) PROVE CcdlTypeOK'
    <3>1. engines' \in [Engines -> Engine]
      BY <2>1, EngineFields DEF GuestDraws
    <3> QED
      BY <2>1, <3>1 DEF GuestDraws
  <2>2. CASE GuestNewFrame
    BY <2>2 DEF GuestNewFrame, EmuReturns
  <2>3. CASE GuestPanics
    <3>1. engines' \in [Engines -> Engine]
      BY <2>3, EngineFields DEF GuestPanics
    <3> QED
      BY <2>3, <3>1 DEF GuestPanics, EmuReturns
  <2>4. CASE GuestFinishes
    <3>1. engines' \in [Engines -> Engine]
      BY <2>4, EngineFields DEF GuestFinishes
    <3> QED
      BY <2>4, <3>1 DEF GuestFinishes, EmuReturns
  <2>5. CASE GuestFaults
    <3>1. engines' \in [Engines -> Engine]
      BY <2>5, EngineFields DEF GuestFaults
    <3> QED
      BY <2>5, <3>1 DEF GuestFaults, EmuReturns
  <2> QED
    BY <1>9, <2>1, <2>2, <2>3, <2>4, <2>5 DEF Guest
<1>10. ASSUME NEW callable \in BOOLEAN, GuestGetsKeyPad(callable)
       PROVE  CcdlTypeOK'
  BY <1>10 DEF GuestGetsKeyPad
<1>11. ASSUME NEW how \in Fatal, GuestKillsHost(how) PROVE CcdlTypeOK'
  BY <1>11 DEF GuestKillsHost
<1>12. CASE UNCHANGED ccdlVars
  BY <1>12 DEF ccdlVars
<1> QED
  BY <1>1, <1>2, <1>3, <1>4, <1>5, <1>6, <1>7, <1>8, <1>9, <1>10, <1>11, <1>12
     DEF CcdlNext, HostStep

\* A step that leaves uc, the engines and `aborted' alone keeps what is said
\* of the engines apart from the call in progress.
LEMMA SameEngines ==
  ASSUME IInv, UNCHANGED <<uc, engines, aborted>>
  PROVE  Fresh' /\ DeadAborts' /\ CodeIsBuilt'
BY DEF IInv, Fresh, DeadAborts, CodeIsBuilt

\* load_rom keeps the invariant.
LEMMA LoadStep ==
  ASSUME IInv, CcdlTypeOK',
         (\E path \in Paths : LoadRom(path)) \/ HostStep
  PROVE  IInv'
<1> USE CcdlAssumption DEF IInv
<1>1. ASSUME NEW path \in Paths, LoadRom(path) PROVE IInv'
  <2>1. Fresh' /\ DeadAborts' /\ CodeIsBuilt'
    BY <1>1, SameEngines DEF LoadRom
  <2>2. Busy' /\ Progress' /\ ResultIsTruthful'
    BY <1>1 DEF LoadRom, Paths, Busy, Progress, ResultIsTruthful
  <2> QED
    BY <2>1, <2>2
<1>2. CASE UcOpen
  <2>1. Fresh'
    BY <1>2 DEF UcOpen, Fresh, CcdlTypeOK, Engines
  <2>2. DeadAborts' /\ CodeIsBuilt'
    BY <1>2 DEF UcOpen, DeadAborts, CodeIsBuilt
  <2>3. engines'[uc'] = NewEngine
    BY <1>2 DEF UcOpen, Fresh, CcdlTypeOK, Engines
  <2>4. Busy' /\ Progress' /\ ResultIsTruthful'
    BY <1>2, <2>3, SetupFacts
       DEF UcOpen, Busy, Progress, Made, Pending, ResultIsTruthful,
           NewEngine, CcdlTypeOK
  <2> QED
    BY <2>1, <2>2, <2>4
<1>3. CASE UcOpenFails
  <2>1. Fresh' /\ DeadAborts' /\ CodeIsBuilt'
    BY <1>3, SameEngines DEF UcOpenFails, GiveUp
  <2>2. Busy' /\ Progress' /\ ResultIsTruthful'
    BY <1>3 DEF UcOpenFails, GiveUp, Busy, Progress, ResultIsTruthful
  <2> QED
    BY <2>1, <2>2
<1>4. CASE SetupSucceeds
  <2>1. Fresh' /\ DeadAborts' /\ CodeIsBuilt'
    BY <1>4 DEF SetupSucceeds, Fresh, DeadAborts, CodeIsBuilt, CcdlTypeOK,
                Engines, Engine
  <2>2. Busy'
    BY <1>4 DEF SetupSucceeds, NextSetup, Busy, CcdlTypeOK, Engines, Engine
  <2>3. \A i \in 1..Len(Setup) : i <= step => Made(i)'
    BY <1>4, SetupFacts
       DEF SetupSucceeds, Progress, Made, Busy, CcdlTypeOK, Engines, Engine
  <2>4. /\ engines'[uc'].pc = "zero"
        /\ \A i \in 1..Len(Setup) : i > step => Pending(i)'
    BY <1>4, SetupFacts DEF SetupSucceeds, Progress, Pending, Busy, CcdlTypeOK,
                            Engines, Engine
  <2>5. step = Len(Setup) => Required \subseteq engines'[uc'].ready
    BY <2>3, SetupFacts, AllMade DEF Made
  <2>6. Progress'
    BY <1>4, <2>3, <2>4, <2>5, SetupFacts
       DEF SetupSucceeds, NextSetup, Progress, CcdlTypeOK
  <2>7. ResultIsTruthful'
    BY <1>4 DEF SetupSucceeds, NextSetup, ResultIsTruthful
  <2> QED
    BY <2>1, <2>2, <2>6, <2>7
<1>5. CASE SetupFails
  <2>1. Fresh' /\ DeadAborts' /\ CodeIsBuilt'
    BY <1>5, SameEngines DEF SetupFails, GiveUp
  <2>2. Busy' /\ Progress' /\ ResultIsTruthful'
    BY <1>5 DEF SetupFails, GiveUp, Busy, Progress, ResultIsTruthful
  <2> QED
    BY <2>1, <2>2
<1>6. CASE SetupFailsUnchecked
  <2>1. Fresh' /\ DeadAborts' /\ CodeIsBuilt'
    BY <1>6, SameEngines DEF SetupFailsUnchecked
  <2>2. Busy' /\ ResultIsTruthful'
    BY <1>6 DEF SetupFailsUnchecked, NextSetup, Busy, ResultIsTruthful
  <2>3. \A i \in 1..Len(Setup) : i <= step => Made(i)'
    BY <1>6, SetupFacts DEF SetupFailsUnchecked, Progress, Made, CcdlTypeOK
  <2>4. \A i \in 1..Len(Setup) : i > step => Pending(i)'
    BY <1>6, SetupFacts DEF SetupFailsUnchecked, Progress, Pending, CcdlTypeOK
  <2>5. step = Len(Setup) => Required \subseteq engines'[uc'].ready
    BY <2>3, SetupFacts, AllMade DEF Made
  <2>6. Progress'
    BY <1>6, <2>3, <2>4, <2>5, SetupFacts
       DEF SetupFailsUnchecked, NextSetup, Progress, CcdlTypeOK
  <2> QED
    BY <2>1, <2>2, <2>6
<1>7. CASE StartMinisys
  <2>1. Fresh' /\ DeadAborts'
    BY <1>7 DEF StartMinisys, Fresh, DeadAborts, CcdlTypeOK, Engines, Engine
  <2>2. CodeIsBuilt'
    BY <1>7 DEF StartMinisys, CodeIsBuilt, Progress, CcdlTypeOK, Engine
  <2>3. Busy' /\ Progress' /\ ResultIsTruthful'
    BY <1>7 DEF StartMinisys, Busy, Progress, ResultIsTruthful, CcdlTypeOK,
                Engines, Engine
  <2> QED
    BY <2>1, <2>2, <2>3
<1> QED
  BY <1>1, <1>2, <1>3, <1>4, <1>5, <1>6, <1>7 DEF HostStep

\* ccdl_run_frame, up to its uc_emu_start, keeps the invariant.
LEMMA RunStep ==
  ASSUME IInv, CcdlTypeOK', RunFrame
  PROVE  IInv'
<1> USE CcdlAssumption DEF IInv, RunFrame
<1>1. CASE RunAborted
  <2>1. Fresh' /\ DeadAborts' /\ CodeIsBuilt'
    BY <1>1, SameEngines DEF RunAborted
  <2> QED
    BY <1>1, <2>1 DEF RunAborted, Busy, Progress, ResultIsTruthful
<1>2. CASE RunNull
  <2>1. Fresh' /\ DeadAborts' /\ CodeIsBuilt'
    BY <1>2, SameEngines DEF RunNull
  <2> QED
    BY <1>2, <2>1 DEF RunNull, Busy, Progress, ResultIsTruthful
<1>3. CASE RunAtZero
  <2>1. PICK err \in BOOLEAN :
               /\ engines' = [engines EXCEPT ![uc].dead = err]
               /\ aborted' = err
    BY <1>3 DEF RunAtZero
  <2>2. uc \in Engines /\ uc' = uc /\ engines[uc] \in Engine
    BY <1>3 DEF RunAtZero, CcdlTypeOK, Engines
  <2>3. \A e \in Engines : e # uc => engines'[e] = engines[e]
    BY <2>1 DEF CcdlTypeOK
  <2>4. /\ engines'[uc].dead = err
        /\ engines'[uc].ready = engines[uc].ready
        /\ engines'[uc].pc = engines[uc].pc
    BY <2>1, <2>2 DEF CcdlTypeOK, Engine
  <2>5. Fresh' /\ CodeIsBuilt'
    BY <2>2, <2>3, <2>4 DEF Fresh, CodeIsBuilt, CcdlTypeOK, Engines
  <2>6. \A e \in Engines : ~engines[e].dead
    BY <1>3 DEF RunAtZero, DeadAborts
  <2>7. DeadAborts'
    BY <2>1, <2>2, <2>3, <2>4, <2>6 DEF DeadAborts
  <2>8. Busy' /\ Progress' /\ ResultIsTruthful'
    BY <1>3, <2>2, <2>4
       DEF RunAtZero, Busy, Progress, ResultIsTruthful
  <2> QED
    BY <2>5, <2>7, <2>8
<1>4. CASE RunResumes
  <2>1. Fresh' /\ DeadAborts' /\ CodeIsBuilt'
    BY <1>4, SameEngines DEF RunResumes
  <2>2. uc \in Engines
    BY <1>4 DEF RunResumes, CcdlTypeOK, Engines
  <2>3. Busy'
    BY <1>4, <2>2 DEF RunResumes, DeadAborts, Busy
  <2>4. Progress' /\ ResultIsTruthful'
    BY <1>4, <2>2
       DEF RunResumes, Progress, ResultIsTruthful, CcdlTypeOK, Engine
  <2> QED
    BY <2>1, <2>3, <2>4
<1> QED
  BY <1>1, <1>2, <1>3, <1>4

\* So does everything the guest does.
LEMMA GuestStep ==
  ASSUME IInv, CcdlTypeOK',
         \/ Guest
         \/ \E callable \in BOOLEAN : GuestGetsKeyPad(callable)
         \/ \E how \in Fatal : GuestKillsHost(how)
  PROVE  IInv'
<1> USE CcdlAssumption DEF IInv
<1>1. InGuest /\ uc \in Engines /\ uc' = uc
  BY DEF Guest, GuestDraws, GuestNewFrame, GuestPanics, GuestFinishes,
         GuestFaults, GuestGetsKeyPad, GuestKillsHost, InGuest, EmuReturns,
         Busy, CcdlTypeOK, Engines
<1>2. ~engines[uc].dead /\ engines[uc].pc = "code"
        /\ Required \subseteq engines[uc].ready
  BY <1>1 DEF InGuest, Busy, Progress, CodeIsBuilt
<1>3. ASSUME \A e \in Engines : e # uc => engines'[e] = engines[e],
             engines'[uc].ready = engines[uc].ready,
             engines'[uc].dead => aborted',
             aborted => aborted'
      PROVE  Fresh' /\ DeadAborts' /\ CodeIsBuilt' /\ ResultIsTruthful'
  <2>1. Fresh' /\ CodeIsBuilt'
    BY <1>1, <1>2, <1>3 DEF Fresh, CodeIsBuilt, CcdlTypeOK, Engines
  <2>2. DeadAborts'
    BY <1>3 DEF DeadAborts
  <2>3. ResultIsTruthful'
    BY <1>1, <1>2, <1>3 DEF ResultIsTruthful
  <2> QED
    BY <2>1, <2>2, <2>3
<1>4. ASSUME NEW p \in Pixels, GuestDraws(p) PROVE IInv'
  <2>1. /\ \A e \in Engines : e # uc => engines'[e] = engines[e]
        /\ engines'[uc] = [engines[uc] EXCEPT !.fb = p]
        /\ UNCHANGED <<aborted, at>>
    BY <1>1, <1>4 DEF GuestDraws, CcdlTypeOK
  <2>2. /\ engines'[uc].ready = engines[uc].ready
        /\ engines'[uc].dead = engines[uc].dead
        /\ engines'[uc].pc = engines[uc].pc
    BY <1>1, <2>1 DEF CcdlTypeOK, Engine
  <2>3. Fresh' /\ DeadAborts' /\ CodeIsBuilt' /\ ResultIsTruthful'
    BY <1>2, <1>3, <2>1, <2>2
  <2>4. Busy' /\ Progress'
    BY <1>1, <1>2, <2>1, <2>2 DEF InGuest, Busy, Progress, Engines
  <2> QED
    BY <2>3, <2>4
<1>5. CASE GuestNewFrame
  <2>1. Fresh' /\ DeadAborts' /\ CodeIsBuilt' /\ ResultIsTruthful'
    BY <1>2, <1>3, <1>5 DEF GuestNewFrame, EmuReturns
  <2>2. Busy' /\ Progress'
    BY <1>5 DEF GuestNewFrame, EmuReturns, Busy, Progress
  <2> QED
    BY <2>1, <2>2
<1>6. CASE GuestPanics
  <2>1. /\ \A e \in Engines : e # uc => engines'[e] = engines[e]
        /\ engines'[uc].ready = engines[uc].ready
        /\ engines'[uc].dead = engines[uc].dead
    BY <1>1, <1>6 DEF GuestPanics, CcdlTypeOK, Engine
  <2>2. Fresh' /\ DeadAborts' /\ CodeIsBuilt' /\ ResultIsTruthful'
    BY <1>2, <1>3, <1>6, <2>1 DEF GuestPanics, EmuReturns
  <2>3. Busy' /\ Progress'
    BY <1>6 DEF GuestPanics, EmuReturns, Busy, Progress
  <2> QED
    BY <2>2, <2>3
<1>7. CASE GuestFinishes
  <2>1. /\ \A e \in Engines : e # uc => engines'[e] = engines[e]
        /\ engines'[uc].ready = engines[uc].ready
        /\ engines'[uc].dead = engines[uc].dead
    BY <1>1, <1>7 DEF GuestFinishes, CcdlTypeOK, Engine
  <2>2. Fresh' /\ DeadAborts' /\ CodeIsBuilt' /\ ResultIsTruthful'
    BY <1>2, <1>3, <1>7, <2>1 DEF GuestFinishes, EmuReturns
  <2>3. Busy' /\ Progress'
    BY <1>7 DEF GuestFinishes, EmuReturns, Busy, Progress
  <2> QED
    BY <2>2, <2>3
<1>8. CASE GuestFaults
  <2>1. /\ \A e \in Engines : e # uc => engines'[e] = engines[e]
        /\ engines'[uc].ready = engines[uc].ready
    BY <1>1, <1>8 DEF GuestFaults, CcdlTypeOK, Engine
  <2>2. Fresh' /\ DeadAborts' /\ CodeIsBuilt' /\ ResultIsTruthful'
    BY <1>2, <1>3, <1>8, <2>1 DEF GuestFaults, EmuReturns
  <2>3. Busy' /\ Progress'
    BY <1>8 DEF GuestFaults, EmuReturns, Busy, Progress
  <2> QED
    BY <2>2, <2>3
<1>9. ASSUME NEW callable \in BOOLEAN, GuestGetsKeyPad(callable) PROVE IInv'
  <2>1. Fresh' /\ DeadAborts' /\ CodeIsBuilt'
    BY <1>9, SameEngines DEF GuestGetsKeyPad
  <2>2. Busy' /\ Progress' /\ ResultIsTruthful'
    BY <1>9 DEF GuestGetsKeyPad, InGuest, Busy, Progress, ResultIsTruthful
  <2> QED
    BY <2>1, <2>2
<1>10. ASSUME NEW how \in Fatal, GuestKillsHost(how) PROVE IInv'
  <2>1. Fresh' /\ DeadAborts' /\ CodeIsBuilt'
    BY <1>10, SameEngines DEF GuestKillsHost
  <2>2. Busy' /\ Progress' /\ ResultIsTruthful'
    BY <1>10 DEF GuestKillsHost, InGuest, Busy, Progress, ResultIsTruthful
  <2> QED
    BY <2>1, <2>2
<1> QED
  BY <1>4, <1>5, <1>6, <1>7, <1>8, <1>9, <1>10 DEF Guest

-----------------------------------------------------------------------------
\* The invariant holds in every state the program reaches.
THEOREM Invariance == CcdlSpec => []IInv
<1>1. CcdlInit => IInv
  BY InitEstablishes
<1>2. IInv /\ [CcdlNext]_ccdlVars => IInv'
  <2> SUFFICES ASSUME IInv, [CcdlNext]_ccdlVars PROVE IInv'
    OBVIOUS
  <2>1. CcdlTypeOK'
    BY TypeStep DEF IInv
  <2>2. CASE UNCHANGED ccdlVars
    <3>1. Fresh' /\ DeadAborts' /\ CodeIsBuilt'
      BY <2>2, SameEngines DEF ccdlVars
    <3> QED
      BY <2>1, <2>2, <3>1
         DEF IInv, ccdlVars, Busy, Progress, Made, Pending, ResultIsTruthful
  <2> QED
    BY <2>1, <2>2, LoadStep, RunStep, GuestStep DEF CcdlNext
<1> QED
  BY <1>1, <1>2, PTL DEF CcdlSpec

\* Every variable of ccdl.cpp keeps its type.
THEOREM TypeCorrectness == CcdlSpec => []CcdlTypeOK
<1>1. IInv => CcdlTypeOK
  BY DEF IInv
<1> QED
  BY <1>1, Invariance, PTL

\* The maps that are checked cover every page that miniSYS takes for granted.
LEMMA RequiredMaps ==
  ASSUME NEW ready, Required \subseteq ready
  PROVE  \A page \in Assumed : Mapped(page, ready)
<1>1. /\ "map_minisys" \in ready /\ "map_stack" \in ready /\ "map_ram" \in ready
      /\ "map_framebuf" \in ready /\ "map_app" \in ready
  <2>1. DOMAIN Setup = 1..10
    BY DEF Setup
  <2>2. Setup[1] \in SetupCalls /\ Setup[3] \in SetupCalls /\ Setup[4] \in SetupCalls
        /\ Setup[5] \in SetupCalls /\ Setup[6] \in SetupCalls
    BY <2>1 DEF SetupCalls
  <2> QED
    BY <2>2 DEF Required, Unchecked, Setup
<1>2. Mapped(131072, ready)
  BY <1>1 DEF Mapped, Regions
<1>3. Mapped(131071, ready)
  BY <1>1 DEF Mapped, Regions
<1>4. Mapped(65536, ready) /\ Mapped(69632, ready)
  BY <1>1 DEF Mapped, Regions
<1>5. Mapped(196608, ready)
  BY <1>1 DEF Mapped, Regions
<1>6. Mapped(524288, ready) /\ Mapped(524325, ready)
  BY <1>1 DEF Mapped, Regions
<1> QED
  BY <1>2, <1>3, <1>4, <1>5, <1>6 DEF Assumed

\* No guest instruction runs in an engine that load_rom gave up on, however
\* often and in whatever order load_rom and ccdl_run_frame are called.
THEOREM OnlyBuiltEnginesRun == CcdlSpec => []RunsOnlyBuilt
<1>1. IInv => RunsOnlyBuilt
  <2> SUFFICES ASSUME IInv, at = "emu"
               PROVE  /\ uc # 0 /\ Required \subseteq engines[uc].ready
                      /\ \A page \in Assumed : Mapped(page, engines[uc].ready)
    BY DEF RunsOnlyBuilt
  <2>1. uc # 0 /\ Required \subseteq engines[uc].ready
    BY DEF IInv, Busy, Progress, CodeIsBuilt, CcdlTypeOK, Engines
  <2> QED
    BY <2>1, RequiredMaps
<1> QED
  BY <1>1, Invariance, PTL

\* A result 0 of load_rom is never about a broken engine.
THEOREM ResultsAreTruthful == CcdlSpec => []ResultIsTruthful
<1>1. IInv => ResultIsTruthful
  BY DEF IInv
<1> QED
  BY <1>1, Invariance, PTL

\* An engine on which uc_emu_start has failed is never touched again: a step
\* that changes an engine finds it alive, because the host is busy with it or
\* has found `aborted' false.
THEOREM DeadEnginesStayFrozen == CcdlSpec => DeadEngineFrozen
<1> DEFINE Frozen == \A e \in Engines : engines[e].dead => engines'[e] = engines[e]
<1>1. IInv /\ [CcdlNext]_ccdlVars => [Frozen]_ccdlVars
  <2> SUFFICES ASSUME IInv, CcdlNext PROVE Frozen
    BY DEF ccdlVars
  <2> USE DEF IInv
  <2>1. CASE UNCHANGED engines
    BY <2>1
  <2>2. ASSUME uc # 0 => ~engines[uc].dead,
               \A e \in Engines : e # uc => engines'[e] = engines[e]
        PROVE  Frozen
    BY <2>2 DEF CcdlTypeOK, Engines
  <2>3. ASSUME NEW path \in Paths, LoadRom(path) PROVE Frozen
    BY <2>1, <2>3 DEF LoadRom
  <2>4. CASE HostStep
    <3>1. at \in {"setup", "start"} \/ UNCHANGED engines
      BY <2>4 DEF HostStep, UcOpen, UcOpenFails, SetupSucceeds, SetupFails,
                  SetupFailsUnchecked, StartMinisys, GiveUp
    <3>2. \A e \in Engines : e # uc => engines'[e] = engines[e]
      BY <2>4 DEF HostStep, UcOpen, UcOpenFails, SetupSucceeds, SetupFails,
                  SetupFailsUnchecked, StartMinisys, GiveUp, CcdlTypeOK
    <3> QED
      BY <2>1, <2>2, <3>1, <3>2 DEF Busy
  <2>5. CASE RunFrame
    <3>1. UNCHANGED engines \/ ~aborted
      BY <2>5 DEF RunFrame, RunAborted, RunNull, RunAtZero, RunResumes
    <3>2. \A e \in Engines : e # uc => engines'[e] = engines[e]
      BY <2>5 DEF RunFrame, RunAborted, RunNull, RunAtZero, RunResumes,
                  CcdlTypeOK
    <3>3. ~aborted => \A e \in Engines : ~engines[e].dead
      BY DEF DeadAborts
    <3> QED
      BY <2>1, <2>2, <3>1, <3>2, <3>3
  <2>6. CASE Guest
    <3>1. at = "emu"
      BY <2>6 DEF Guest, GuestDraws, GuestNewFrame, GuestPanics, GuestFinishes,
                  GuestFaults, InGuest
    <3>2. \A e \in Engines : e # uc => engines'[e] = engines[e]
      BY <2>6 DEF Guest, GuestDraws, GuestNewFrame, GuestPanics, GuestFinishes,
                  GuestFaults, CcdlTypeOK
    <3> QED
      BY <2>2, <3>1, <3>2 DEF Busy
  <2>7. ASSUME NEW callable \in BOOLEAN, GuestGetsKeyPad(callable) PROVE Frozen
    BY <2>1, <2>7 DEF GuestGetsKeyPad
  <2>8. ASSUME NEW how \in Fatal, GuestKillsHost(how) PROVE Frozen
    BY <2>1, <2>8 DEF GuestKillsHost
  <2> QED
    BY <2>3, <2>4, <2>5, <2>6, <2>7, <2>8 DEF CcdlNext
<1> QED
  BY <1>1, Invariance, PTL DEF CcdlSpec, DeadEngineFrozen

\* A step that raises `aborted' kills the newest engine, and all that were
\* dead stay so.
LEMMA AbortStep ==
  ASSUME IInv, AbortedByDeath, [CcdlNext]_ccdlVars
  PROVE  aborted' => \E e \in Engines : engines'[e].dead
<1> USE CcdlAssumption DEF IInv
<1> DEFINE Cause == \E e \in Engines : engines[e].dead
<1>1. ASSUME UNCHANGED <<engines, aborted>> PROVE aborted' => Cause'
  BY <1>1 DEF AbortedByDeath
<1>2. ASSUME uc \in Engines, aborted' = aborted, ~engines[uc].dead,
             \A e \in Engines : e # uc => engines'[e] = engines[e]
      PROVE  aborted' => Cause'
  BY <1>2 DEF AbortedByDeath
<1>3. CASE \E path \in Paths : LoadRom(path)
  BY <1>1, <1>3 DEF LoadRom
<1>4. CASE HostStep
  <2>1. CASE UcOpen \/ UcOpenFails \/ SetupFails \/ SetupFailsUnchecked
    BY <1>1, <2>1 DEF UcOpen, UcOpenFails, SetupFails, SetupFailsUnchecked, GiveUp
  <2>2. CASE SetupSucceeds \/ StartMinisys
    <3>1. at \in {"setup", "start"} /\ aborted' = aborted
      BY <2>2 DEF SetupSucceeds, StartMinisys
    <3>2. \A e \in Engines : e # uc => engines'[e] = engines[e]
      BY <2>2 DEF SetupSucceeds, StartMinisys, CcdlTypeOK
    <3> QED
      BY <1>2, <3>1, <3>2 DEF Busy, CcdlTypeOK, Engines
  <2> QED
    BY <1>4, <2>1, <2>2 DEF HostStep
<1>5. CASE RunFrame
  <2>1. CASE RunAborted \/ RunNull \/ RunResumes
    BY <1>1, <2>1 DEF RunAborted, RunNull, RunResumes
  <2>2. CASE RunAtZero
    <3>1. PICK err \in BOOLEAN :
            engines' = [engines EXCEPT ![uc].dead = err] /\ aborted' = err
      BY <2>2 DEF RunAtZero
    <3>2. uc \in Engines
      BY <2>2 DEF RunAtZero, CcdlTypeOK, Engines
    <3>3. engines'[uc].dead = err
      BY <3>1, <3>2 DEF CcdlTypeOK, Engine
    <3> QED
      BY <3>1, <3>2, <3>3
  <2> QED
    BY <1>5, <2>1, <2>2 DEF RunFrame
<1>6. CASE Guest
  <2>0. InGuest
    BY <1>6 DEF Guest, GuestDraws, GuestNewFrame, GuestPanics, GuestFinishes,
                GuestFaults
  <2>1. InGuest /\ uc \in Engines
    BY <2>0 DEF InGuest, Busy, CcdlTypeOK, Engines
  <2>2. ~engines[uc].dead
    BY <2>1 DEF InGuest, Busy
  <2>3. CASE GuestFaults
    <3>1. engines'[uc].dead
      BY <2>1, <2>3 DEF GuestFaults, CcdlTypeOK, Engine
    <3> QED
      BY <2>1, <3>1
  <2>4. ASSUME (\E p \in Pixels : GuestDraws(p)) \/ GuestNewFrame
                 \/ GuestPanics \/ GuestFinishes
        PROVE  aborted' => Cause'
    <3>1. aborted' = aborted
      BY <2>4 DEF GuestDraws, GuestNewFrame, GuestPanics, GuestFinishes,
                  EmuReturns, CcdlTypeOK
    <3>2. \A e \in Engines : e # uc => engines'[e] = engines[e]
      BY <2>4 DEF GuestDraws, GuestNewFrame, GuestPanics, GuestFinishes, CcdlTypeOK
    <3> QED
      BY <1>2, <2>1, <2>2, <3>1, <3>2
  <2> QED
    BY <1>6, <2>3, <2>4 DEF Guest
<1>7. CASE \E callable \in BOOLEAN : GuestGetsKeyPad(callable)
  BY <1>1, <1>7 DEF GuestGetsKeyPad
<1>8. CASE \E how \in Fatal : GuestKillsHost(how)
  BY <1>1, <1>8 DEF GuestKillsHost
<1>9. CASE UNCHANGED ccdlVars
  BY <1>1, <1>9 DEF ccdlVars
<1> QED
  BY <1>3, <1>4, <1>5, <1>6, <1>7, <1>8, <1>9 DEF CcdlNext

\* ccdl_run_frame refuses to run if and only if an engine of the process has
\* died: that is what `aborted' stands for, in every game loaded afterwards.
THEOREM AbortsHaveCause == CcdlSpec => []AbortedByDeath
<1>1. CcdlInit => AbortedByDeath
  BY DEF CcdlInit, AbortedByDeath, NewEngine
<1>2. IInv /\ IInv' /\ AbortedByDeath /\ [CcdlNext]_ccdlVars => AbortedByDeath'
  <2>1. IInv' => ((\E e \in Engines : engines[e].dead) => aborted)'
    BY DEF IInv, DeadAborts
  <2> QED
    BY <2>1, AbortStep DEF AbortedByDeath
<1> QED
  BY <1>1, <1>2, Invariance, PTL DEF CcdlSpec

-----------------------------------------------------------------------------
\* load_rom does not stop and does not turn in circles: each of its steps up to
\* uc_emu_start leaves one call less to make.
THEOREM SetupsAreShort == CcdlSpec => SetupWorkFalls
<1> DEFINE Falls == at \in {"open", "setup", "start"} =>
                      SetupWork \in Nat /\ SetupWork' < SetupWork
<1>1. CcdlTypeOK /\ [CcdlNext]_ccdlVars => [Falls]_ccdlVars
  <2> SUFFICES ASSUME CcdlTypeOK, CcdlNext, at \in {"open", "setup", "start"}
               PROVE  SetupWork \in Nat /\ SetupWork' < SetupWork
    BY DEF ccdlVars
  <2>1. HostStep
    <3>1. at # "client" /\ at # "emu"
      OBVIOUS
    <3> QED
      BY <3>1 DEF CcdlNext, LoadRom, RunFrame, Guest, GuestDraws, GuestNewFrame,
                  GuestPanics, GuestFinishes, GuestFaults, GuestGetsKeyPad,
                  GuestKillsHost, InGuest
  <2>2. Len(Setup) = 10 /\ step \in 1..10
    BY SetupFacts DEF CcdlTypeOK
  <2>3. SetupWork \in Nat /\ SetupWork > 0
    BY <2>2 DEF SetupWork
  <2>4. CASE UcOpen
    BY <2>2, <2>4 DEF UcOpen, SetupWork
  <2>5. CASE UcOpenFails \/ SetupFails \/ StartMinisys
    <3>1. SetupWork' = 0
      BY <2>5 DEF UcOpenFails, SetupFails, StartMinisys, GiveUp, SetupWork
    <3> QED
      BY <2>3, <3>1
  <2>6. CASE SetupSucceeds \/ SetupFailsUnchecked
    <3>1. at = "setup" /\ NextSetup
      BY <2>6 DEF SetupSucceeds, SetupFailsUnchecked
    <3>2. CASE step = 10
      BY <2>2, <3>1, <3>2 DEF NextSetup, SetupWork
    <3>3. CASE step # 10
      BY <2>2, <3>1, <3>3 DEF NextSetup, SetupWork
    <3> QED
      BY <3>2, <3>3
  <2> QED
    BY <2>1, <2>4, <2>5, <2>6 DEF HostStep
<1> QED
  BY <1>1, TypeCorrectness, PTL DEF CcdlSpec, SetupWorkFalls

-----------------------------------------------------------------------------
(***************************************************************************)
(* Ccdl implements EngineLife: each step changes the stage of no engine or *)
(* of one.                                                                 *)
(***************************************************************************)
LEMMA OneEngineChanges ==
  ASSUME NEW x \in Engines,
         \A e \in Engines : e # x => LifeOf(e)' = LifeOf(e)
  PROVE  [e \in Engines |-> LifeOf(e)]'
           = [[e \in Engines |-> LifeOf(e)] EXCEPT ![x] = LifeOf(x)']
OBVIOUS

\* A step that leaves the engines alone, inside one call or between two,
\* changes no stage.
LEMMA NoLifeChanges ==
  ASSUME UNCHANGED <<uc, engines>>,
         (at' = "emu") <=> (at = "emu"),
         (at' \in {"setup", "start"}) <=> (at \in {"setup", "start"})
  PROVE  UNCHANGED [e \in Engines |-> LifeOf(e)]
BY DEF LifeOf, BeingBuilt

\* A step that leaves uc and the other engines alone changes no other stage.
LEMMA OnlyNewestChanges ==
  ASSUME uc' = uc, \A e \in Engines : e # uc => engines'[e] = engines[e]
  PROVE  \A e \in Engines : e # uc => LifeOf(e)' = LifeOf(e)
BY DEF LifeOf, BeingBuilt

\* Every engine above uc is unborn.
LEMMA NewestIsUc == Life!Newest(uc)
BY CcdlAssumption DEF Life!Newest, Life!Engines, Engines, LifeOf

\* Every step of ccdl.cpp is one step in the life of one engine, or none.
LEMMA RefinementStep ==
  ASSUME IInv, IInv', [CcdlNext]_ccdlVars
  PROVE  Life!Next \/ UNCHANGED [e \in Engines |-> LifeOf(e)]
<1> DEFINE lives == [e \in Engines |-> LifeOf(e)]
<1> USE CcdlAssumption DEF IInv
<1>1. ASSUME NEW path \in Paths, LoadRom(path) PROVE UNCHANGED lives
  BY <1>1, NoLifeChanges DEF LoadRom
<1>2. CASE UcOpen
  <2>1. PICK n \in Engines : n = uc + 1
    BY <1>2 DEF UcOpen, CcdlTypeOK, Engines
  <2>2. uc' = n /\ at = "open" /\ at' = "setup" /\ UNCHANGED engines
    BY <1>2, <2>1 DEF UcOpen
  <2>3. \A e \in Engines : e # n => LifeOf(e)' = LifeOf(e)
    BY <2>1, <2>2 DEF LifeOf, BeingBuilt, CcdlTypeOK, Engines
  <2>4. LifeOf(n) = "unborn" /\ LifeOf(n)' = "building"
    <3>1. engines[n] = NewEngine
      BY <2>1 DEF Fresh, CcdlTypeOK, Engines
    <3> QED
      BY <2>1, <2>2, <3>1 DEF LifeOf, BeingBuilt, NewEngine, CcdlTypeOK, Engines
  <2>5. \A f \in Engines : f < n => LifeOf(f) \notin {"unborn", "running"}
    BY <2>1, <2>2 DEF LifeOf, CcdlTypeOK, Engines
  <2>6. \A f \in Engines : f > n => LifeOf(f) = "unborn"
    BY <2>1 DEF LifeOf, CcdlTypeOK, Engines
  <2>7. lives' = [lives EXCEPT ![n] = "building"]
    BY <2>3, <2>4, OneEngineChanges
  <2>8. Life!Open(n)
    BY <2>4, <2>5, <2>6, <2>7
       DEF Life!Open, Life!Newest, Life!Become, Life!Engines, Engines
  <2> QED
    BY <2>8 DEF Life!Next, Life!Engines, Engines
<1>3. CASE UcOpenFails
  BY <1>3, NoLifeChanges DEF UcOpenFails, GiveUp
<1>4. ASSUME uc \in Engines, uc' = uc,
             \A e \in Engines : e # uc => engines'[e] = engines[e]
      PROVE  \E x \in Engines :
               /\ x = uc
               /\ lives' = [lives EXCEPT ![x] = LifeOf(x)']
  <2>1. PICK x \in Engines : x = uc
    BY <1>4
  <2>2. \A e \in Engines : e # x => LifeOf(e)' = LifeOf(e)
    BY <1>4, <2>1, OnlyNewestChanges
  <2> QED
    BY <2>1, <2>2, OneEngineChanges
<1>5. CASE SetupSucceeds
  <2>1. /\ uc \in Engines /\ uc' = uc
        /\ \A e \in Engines : e # uc => engines'[e] = engines[e]
    BY <1>5 DEF SetupSucceeds, Busy, CcdlTypeOK, Engines
  <2>2. PICK x \in Engines : /\ x = uc
                             /\ lives' = [lives EXCEPT ![x] = LifeOf(x)']
    BY <2>1, <1>4
  <2>3. at = "setup" /\ at' \in {"setup", "start"}
    BY <1>5 DEF SetupSucceeds, NextSetup
  <2>4. LifeOf(x) = "building"
    BY <2>2, <2>3 DEF LifeOf, BeingBuilt, Busy, Progress, CcdlTypeOK, Engines
  <2>5. LifeOf(x)' = "building"
    BY <2>1, <2>2, <2>3 DEF LifeOf, BeingBuilt, Busy, Progress, CcdlTypeOK, Engines
  <2> QED
    BY <2>2, <2>4, <2>5
<1>6. CASE SetupFails
  <2>1. /\ uc \in Engines /\ uc' = uc /\ UNCHANGED engines
        /\ at = "setup" /\ at' = "client"
    BY <1>6 DEF SetupFails, GiveUp, Busy, CcdlTypeOK, Engines
  <2>2. Setup[step] \in Required /\ Setup[step] \notin engines[uc].ready
    BY <1>6, SetupFacts DEF SetupFails, Progress, Pending, CcdlTypeOK, Required
  <2>3. \A e \in Engines : LifeOf(e)' = LifeOf(e)
    BY <2>1, <2>2 DEF LifeOf, BeingBuilt, Busy, Progress
  <2> QED
    BY <2>3
<1>7. CASE SetupFailsUnchecked
  BY <1>7, NoLifeChanges DEF SetupFailsUnchecked, NextSetup
<1>8. CASE StartMinisys
  <2>1. /\ uc \in Engines /\ uc' = uc
        /\ \A e \in Engines : e # uc => engines'[e] = engines[e]
    BY <1>8 DEF StartMinisys, Busy, CcdlTypeOK, Engines
  <2>2. PICK x \in Engines : /\ x = uc
                             /\ lives' = [lives EXCEPT ![x] = LifeOf(x)']
    BY <2>1, <1>4
  <2>3. LifeOf(x) = "building"
    BY <1>8, <2>2
       DEF StartMinisys, LifeOf, BeingBuilt, Busy, Progress, CcdlTypeOK, Engines
  <2>4. LifeOf(x)' = "running"
    BY <1>8, <2>1, <2>2
       DEF StartMinisys, LifeOf, Busy, CcdlTypeOK, Engines
  <2>5. Life!Boot(x)
    BY <2>2, <2>3, <2>4, NewestIsUc DEF Life!Boot, Life!Become
  <2> QED
    BY <2>5 DEF Life!Next, Life!Engines, Engines
<1>9. CASE RunFrame
  <2>1. CASE RunAborted \/ RunNull
    BY <1>9, <2>1, NoLifeChanges DEF RunFrame, RunAborted, RunNull
  <2>2. CASE RunAtZero
    <3>1. PICK err \in BOOLEAN :
                 /\ engines' = [engines EXCEPT ![uc].dead = err]
                 /\ aborted' = err
      BY <2>2 DEF RunAtZero
    <3>2. /\ uc \in Engines /\ uc' = uc /\ at = "client" /\ at' = "client"
          /\ engines[uc].pc = "zero" /\ ~engines[uc].dead
      BY <1>9, <2>2 DEF RunFrame, RunAtZero, DeadAborts, CcdlTypeOK, Engines
    <3>3. \A e \in Engines : e # uc => engines'[e] = engines[e]
      BY <3>1 DEF CcdlTypeOK
    <3>4. PICK x \in Engines : /\ x = uc
                               /\ lives' = [lives EXCEPT ![x] = LifeOf(x)']
      BY <3>2, <3>3, <1>4
    <3>5. LifeOf(x) \in {"building", "halted"}
      BY <3>2, <3>4 DEF LifeOf, CcdlTypeOK, Engines
    <3>6. CASE err
      <4>1. LifeOf(x)' = "dead"
        BY <3>1, <3>2, <3>4, <3>6 DEF LifeOf, CcdlTypeOK, Engines, Engine
      <4>2. Life!Die(x)
        BY <3>4, <3>5, <4>1, NewestIsUc DEF Life!Die, Life!Become
      <4> QED
        BY <4>2 DEF Life!Next, Life!Engines, Engines
    <3>7. CASE ~err
      <4>1. LifeOf(x)' = LifeOf(x)
        BY <3>1, <3>2, <3>4, <3>7
           DEF LifeOf, BeingBuilt, CcdlTypeOK, Engines, Engine
      <4> QED
        BY <3>4, <4>1
    <3> QED
      BY <3>6, <3>7
  <2>3. CASE RunResumes
    <3>1. /\ uc \in Engines /\ uc' = uc /\ UNCHANGED engines
          /\ at = "client" /\ at' = "emu"
          /\ engines[uc].pc # "zero" /\ ~engines[uc].dead
      BY <1>9, <2>3 DEF RunFrame, RunResumes, DeadAborts, CcdlTypeOK, Engines
    <3>2. PICK x \in Engines : /\ x = uc
                               /\ lives' = [lives EXCEPT ![x] = LifeOf(x)']
      BY <3>1, <1>4
    <3>3. LifeOf(x) = "paused" /\ LifeOf(x)' = "running"
      BY <3>1, <3>2 DEF LifeOf, CcdlTypeOK, Engines
    <3>4. Life!Resume(x)
      BY <3>2, <3>3, NewestIsUc DEF Life!Resume, Life!Become
    <3> QED
      BY <3>4 DEF Life!Next, Life!Engines, Engines
  <2> QED
    BY <1>9, <2>1, <2>2, <2>3 DEF RunFrame
<1>10. CASE Guest
  <2>1. /\ at = "emu" /\ uc \in Engines /\ uc' = uc
        /\ \A e \in Engines : e # uc => engines'[e] = engines[e]
    BY <1>10 DEF Guest, GuestDraws, GuestNewFrame, GuestPanics, GuestFinishes,
                 GuestFaults, InGuest, EmuReturns, Busy, CcdlTypeOK, Engines
  <2>2. PICK x \in Engines : /\ x = uc
                             /\ lives' = [lives EXCEPT ![x] = LifeOf(x)']
    BY <2>1, <1>4
  <2>3. /\ LifeOf(x) = "running"
        /\ ~engines[uc].dead /\ engines[uc].pc = "code"
        /\ Required \subseteq engines[uc].ready
    BY <2>1, <2>2
       DEF LifeOf, Busy, Progress, CodeIsBuilt, CcdlTypeOK, Engines
  <2>4. ASSUME NEW p \in Pixels, GuestDraws(p) PROVE UNCHANGED lives
    <3>1. LifeOf(x)' = "running"
      BY <2>1, <2>2, <2>3, <2>4 DEF GuestDraws, LifeOf, CcdlTypeOK, Engines, Engine
    <3> QED
      BY <2>2, <2>3, <3>1
  <2>5. CASE GuestNewFrame \/ GuestPanics
    <3>1. LifeOf(x)' = "paused"
      BY <2>1, <2>2, <2>3, <2>5
         DEF GuestNewFrame, GuestPanics, EmuReturns, LifeOf, CcdlTypeOK,
             Engines, Engine
    <3>2. Life!Pause(x)
      BY <2>2, <2>3, <3>1 DEF Life!Pause, Life!Become
    <3> QED
      BY <3>2 DEF Life!Next, Life!Engines, Engines
  <2>6. CASE GuestFinishes
    <3>1. LifeOf(x)' = "halted"
      BY <2>1, <2>2, <2>3, <2>6
         DEF GuestFinishes, EmuReturns, LifeOf, BeingBuilt, CcdlTypeOK,
             Engines, Engine
    <3>2. Life!Halt(x)
      BY <2>2, <2>3, <3>1 DEF Life!Halt, Life!Become
    <3> QED
      BY <3>2 DEF Life!Next, Life!Engines, Engines
  <2>7. CASE GuestFaults
    <3>1. LifeOf(x)' = "dead"
      BY <2>1, <2>2, <2>7
         DEF GuestFaults, EmuReturns, LifeOf, CcdlTypeOK, Engines, Engine
    <3>2. Life!Die(x)
      BY <2>2, <2>3, <3>1, NewestIsUc DEF Life!Die, Life!Become
    <3> QED
      BY <3>2 DEF Life!Next, Life!Engines, Engines
  <2> QED
    BY <1>10, <2>4, <2>5, <2>6, <2>7 DEF Guest
<1>11. ASSUME NEW callable \in BOOLEAN, GuestGetsKeyPad(callable)
       PROVE  UNCHANGED lives
  BY <1>11, NoLifeChanges DEF GuestGetsKeyPad
<1>12. ASSUME NEW how \in Fatal, GuestKillsHost(how) PROVE UNCHANGED lives
  BY <1>12, NoLifeChanges DEF GuestKillsHost
<1>13. CASE UNCHANGED ccdlVars
  BY <1>13, NoLifeChanges DEF ccdlVars
<1> QED
  BY <1>1, <1>2, <1>3, <1>5, <1>6, <1>7, <1>8, <1>9, <1>10, <1>11, <1>12, <1>13
     DEF CcdlNext, HostStep

\* The emulator keeps the promise of EngineLife for any number of loads.
THEOREM KeepsEngineLife == CcdlSpec => ImplementsEngineLife
<1> DEFINE lives == [e \in Engines |-> LifeOf(e)]
<1>1. CcdlInit => Life!Init
  BY CcdlAssumption
     DEF CcdlInit, Life!Init, Life!Engines, Engines, LifeOf, NewEngine
<1>2. IInv /\ IInv' /\ [CcdlNext]_ccdlVars => [Life!Next]_lives
  BY RefinementStep
<1> QED
  BY <1>1, <1>2, Invariance, PTL DEF CcdlSpec, Life!Spec, ImplementsEngineLife

=============================================================================
