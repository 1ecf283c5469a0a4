----------------------------- MODULE RS274Scripts -----------------------------
(***************************************************************************)
(* A caller script running against the interpreter: the Python program    *)
(* executes its calls one after another; an uncaught InterpreterException *)
(* ends it, and so does exit().  The script is one sequential process     *)
(* whose every call returns at once (the interpreter never blocks), so    *)
(* the script is weakly fair: while it has a call left, it makes it.      *)
(***************************************************************************)
EXTENDS RS274Interpreter

CONSTANT Programs   \* a set of [calls : Seq(call), onError : "raise" or "exit",
                    \*         outcome : expected outcome]

VARIABLES
  prog,     \* the program being run
  pc,       \* index of its next call
  status    \* running, done, raised or exited

svars == <<vars, prog, pc, status>>

\* The interpreter or Points method a call invokes.
Exec(c) ==
  CASE c.op = "g90" -> g90
    [] c.op = "g91" -> g91
    [] c.op = "m02" -> m02
    [] c.op = "m00" -> m00
    [] c.op = "g04" -> g04(c.arg)
    [] c.op = "e" -> e(c.arg)
    [] c.op = "set_coord" -> set_coord(c.arg)
    [] c.op = "coord_set_zero" -> coord_set_zero(c.arg)
    [] c.op = "f" -> f(c.arg)
    [] c.op = "g01" -> g01(c.arg)
    [] c.op = "g00" -> g00(c.arg[1], c.arg[2])
    [] c.op = "g01_group" -> g01_group(c.arg)
    [] c.op = "drill" -> drill(c.arg)
    [] c.op = "points_g90" -> P!points_g90(c.arg) /\ UNCHANGED <<env, cmds>>
    [] c.op = "points_g91" -> P!points_g91(c.arg) /\ UNCHANGED <<env, cmds>>
    [] c.op = "push" -> P!push(c.arg[1], c.arg[2]) /\ UNCHANGED <<env, cmds>>

ScriptInit ==
  /\ Init
  /\ prog \in Programs
  /\ pc = 1
  /\ status = IF prog.calls = << >> THEN "done" ELSE "running"

\* The next statement of the script: exit() ends the process; any other call
\* runs, and an exception escaping it ends the process as well, by exit()
\* when the calls stand in a try whose handler calls it (onError = "exit").
ScriptStep ==
  /\ status = "running"
  /\ LET c == prog.calls[pc] IN
       \/ /\ c.op = "exit"
          /\ status' = "exited"
          /\ UNCHANGED <<vars, pc>>
       \/ /\ c.op # "exit"
          /\ Exec(c)
          /\ pc' = pc + 1
          /\ status' = CASE outcome' \in {"error", "typeerror"} /\ prog.onError = "raise" -> "raised"
                         [] outcome' \in {"error", "typeerror"} -> "exited"
                         [] pc = Len(prog.calls) -> "done"
                         [] OTHER -> "running"
  /\ UNCHANGED prog

ScriptSpec == ScriptInit /\ [][ScriptStep]_svars /\ WF_svars(ScriptStep)

\* The command types of a list, in order.
CommandTypes(s) == [i \in DOMAIN s |-> s[i].CommandType]

\* The coordinate modes of the points of all group records, in order.
GroupModes(s) ==
  FoldLeft(LAMBDA acc, r :
             IF r.CommandType = "G01GroupMotionCommand"
             THEN acc \o [i \in DOMAIN r.G01GroupPoints |->
                            r.G01GroupPoints[i].CoordinateMode]
             ELSE acc,
           << >>, s)

(* Every example program runs to the outcome its code leads to and stays   *)
(* there: test_mill.py completes, its list has one record per directive    *)
(* call, and its G01 group holds the drill point in AbsoluteMode followed  *)
(* by the mill points in IncrementMode, in push order (the Points latch,   *)
(* not the interpreter's mode, and push appending); pytest/test1.py emits  *)
(* nothing after its m02; the other test1.py exits first; _test() raises   *)
(* at its first g01 and its handler exits.                                  *)
ScriptReachesOutcome ==
  <>[](/\ status = prog.outcome.status
       /\ CommandTypes(cmds) = prog.outcome.types
       /\ GroupModes(cmds) = prog.outcome.groupModes)

=============================================================================
