----------------------------- MODULE EngineLife -----------------------------
(***************************************************************************)
(* What the emulator promises about each Unicorn engine it creates, with   *)
(* nothing said of how: an engine is built, then runs in slices, and ends  *)
(* halted or dead; a dead or halted engine never runs again, and only the  *)
(* newest engine ever runs.  Ccdl.tla implements this specification.       *)
(***************************************************************************)
EXTENDS Naturals

CONSTANT MaxLoads          \* how many engines there can be

VARIABLE life              \* engine |-> stage of its life

Engines == 1..MaxLoads

Stages == {"unborn", "building", "running", "paused", "halted", "dead"}

Init == life = [e \in Engines |-> "unborn"]

Newest(e) == \A f \in Engines : f > e => life[f] = "unborn"

Become(e, stage) == life' = [life EXCEPT ![e] = stage]

\* A new engine is created only when no other engine is running.
Open(e) ==
  /\ life[e] = "unborn"
  /\ \A f \in Engines : f < e => life[f] \notin {"unborn", "running"}
  /\ Newest(e)
  /\ Become(e, "building")

Boot(e)   == life[e] = "building" /\ Newest(e) /\ Become(e, "running")
Pause(e)  == life[e] = "running"  /\ Become(e, "paused")
Resume(e) == life[e] = "paused"   /\ Newest(e) /\ Become(e, "running")
Halt(e)   == life[e] = "running"  /\ Become(e, "halted")

\* An engine dies of an emulation error: while it runs, or when an engine
\* that has no code to run (not built, or halted) is asked to run.
Die(e) ==
  /\ life[e] \in {"building", "running", "halted"}
  /\ Newest(e)
  /\ Become(e, "dead")

Next ==
  \E e \in Engines :
    \/ Open(e) \/ Boot(e) \/ Pause(e) \/ Resume(e) \/ Halt(e) \/ Die(e)

Spec == Init /\ [][Next]_life

=============================================================================
