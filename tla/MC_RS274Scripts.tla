--------------------------- MODULE MC_RS274Scripts ---------------------------
(***************************************************************************)
(* The four example programs of the repository, run against the           *)
(* interpreter.  test_mill.py pushes 1000 identical mill points in a loop; *)
(* here the loop runs 100 times, which keeps the same shape of group (the  *)
(* drill point, three distinct mill points, then the repeated one) and a   *)
(* counterexample trace short enough to print.                            *)
(***************************************************************************)
EXTENDS RS274Scripts, RS274Examples

CONSTANT ps   \* the Points object of test_mill.py

MCMillSteps == 100

MCPrograms ==
  { [calls |-> MillProgram(ps, MCMillSteps), onError |-> "raise",
     outcome |-> MillOutcome(MCMillSteps)],
    [calls |-> EndedProgram, onError |-> "raise", outcome |-> EndedOutcome],
    [calls |-> ExitingProgram, onError |-> "raise", outcome |-> ExitingOutcome],
    [calls |-> SelfTestProgram, onError |-> "exit", outcome |-> SelfTestOutcome] }

MCAxis == {"x", "y", "z", "a"}

=============================================================================
