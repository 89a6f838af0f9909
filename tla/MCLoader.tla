------------------------------ MODULE MCLoader ------------------------------
(***************************************************************************)
(* Model-checking instance of Loader: every file of at most MaxSections    *)
(* sections out of a few of each type.                                     *)
(***************************************************************************)
EXTENDS Loader

CONSTANT MaxSections

MCNames    == {"AppMain", "printf", "malloc", "tool"}
MCBuiltins == {"printf", "malloc"}
MCWords    == 0..7

Entry(n, a) == [name |-> n, address |-> a]

Other(type, entries) ==
  [type |-> type, load |-> 0, words |-> 0, entry |-> 0,
   entries |-> entries]

MCSections ==
  {[type |-> "code", load |-> l, words |-> 5, entry |-> l + 1, entries |-> <<>>] : l \in {0, 2}}
  \cup {Other("import", i) : i \in
          {<<>>, <<Entry("printf", 1), Entry("malloc", 3)>>,
           <<Entry("printf", 4), Entry("tool", 1)>>}}
  \cup {Other("export", x) : x \in
          {<<Entry("tool", 2)>>, <<Entry("malloc", 3), Entry("AppMain", 2)>>,
           <<Entry("AppMain", 4), Entry("AppMain", 5)>>}}
  \cup {Other("resources", <<>>)}

MCFiles ==
  {[valid |-> v, sections |-> s] :
     v \in BOOLEAN, s \in UNION {[1..n -> MCSections] : n \in 0..MaxSections}}
=============================================================================
