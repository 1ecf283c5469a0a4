---------------------------- MODULE RS274Examples ----------------------------
(***************************************************************************)
(* The example programs of the repository, written as the sequence of     *)
(* calls they make.  A call is [op, arg]: op names the directive (or the  *)
(* Points method, or "exit"), arg carries its Python arguments.  A chained *)
(* call i.a().b() is two calls; the loop of test_mill.py is unrolled.     *)
(* Each program comes with the outcome its code leads to: whether it runs *)
(* to the end, raises, or exits; the command types it emits in order; and *)
(* the coordinate modes of the points of its G01 groups, in order.        *)
(***************************************************************************)
EXTENDS Sequences, RS274Values

Call(op, arg) == [op |-> op, arg |-> arg]

\* Keyword coordinates over the four axes the examples use; unset is None.
Ax(x, y, z, a) == [x |-> x, y |-> y, z |-> z, a |-> a]
NoAx == Ax(PyNone, PyNone, PyNone, PyNone)

\* g00's <<axes, <<m05, touch>>>> with the defaults m05=False, touch=False.
G00(axes, m05, touch) == Call("g00", <<axes, <<PyBool(m05), PyBool(touch)>>>>)

\* _coord_set_zero flags for coord_set_a_zero.
ZeroA == [x |-> PyBool(FALSE), y |-> PyBool(FALSE), z |-> PyBool(FALSE),
          a |-> PyBool(TRUE)]

\* A float coordinate: only its type is checked, so its magnitude is not kept.
Fl == PyFloat(0)

\* src/gcode/test_mill.py: touch the workpiece twice, zero a, then drill and
\* mill with a Points group of 4 + MillSteps points, and end.
MillProgram(ps, MillSteps) ==
  << Call("set_coord", PyInt(55)), Call("f", PyInt(1000)), Call("g91", "-"),
     Call("f", PyInt(100)), Call("g91", "-"),
     G00(Ax(PyNone, PyNone, PyNone, PyInt(-100)), FALSE, TRUE),
     Call("g04", PyInt(1)),
     Call("f", PyInt(500)), Call("g91", "-"),
     G00(Ax(PyNone, PyNone, PyNone, PyInt(1)), TRUE, FALSE),
     Call("g04", PyInt(1)),
     Call("f", PyInt(50)), Call("g91", "-"),
     G00(Ax(PyNone, PyNone, PyNone, PyInt(-5)), FALSE, TRUE),
     Call("g04", PyInt(1)),
     Call("coord_set_zero", ZeroA), Call("g04", PyInt(1)),
     Call("f", PyInt(500)), Call("g91", "-"),
     G00(Ax(PyNone, PyNone, PyNone, PyInt(1)), TRUE, FALSE),
     Call("g04", PyInt(1)),
     Call("points_g90", ps),
     Call("push", <<ps, Ax(PyNone, PyNone, PyNone, Fl)>>),
     Call("points_g91", ps),
     Call("push", <<ps, Ax(PyInt(2), PyNone, PyNone, PyNone)>>),
     Call("push", <<ps, Ax(PyNone, PyInt(2), PyNone, PyNone)>>),
     Call("push", <<ps, Ax(PyInt(2), PyInt(2), PyNone, PyNone)>>) >>
  \o [k \in 1..MillSteps |-> Call("push", <<ps, Ax(Fl, PyNone, PyNone, PyNone)>>)]
  \o << Call("g01_group", ps), Call("m02", "-") >>

MillOutcome(MillSteps) ==
  [status |-> "done",
   types |-> << "CoordinateIndexCommand", "FeedSpeedSetCommand",
                "CoordinateModeCommand", "FeedSpeedSetCommand",
                "CoordinateModeCommand", "G00MotionCommand", "DelayCommand",
                "FeedSpeedSetCommand", "CoordinateModeCommand",
                "G00MotionCommand", "DelayCommand",
                "FeedSpeedSetCommand", "CoordinateModeCommand",
                "G00MotionCommand", "DelayCommand",
                "CoordSetZeroCommand", "DelayCommand",
                "FeedSpeedSetCommand", "CoordinateModeCommand",
                "G00MotionCommand", "DelayCommand",
                "G01GroupMotionCommand", "ProgramEndCommand" >>,
   groupModes |-> <<"AbsoluteMode">>
                  \o [k \in 1..(3 + MillSteps) |-> "IncrementMode"]]

\* src/tests/Interpreter/pytest/test1.py: a short program ended by m02,
\* followed by calls that "won't generate code".
EndedProgram ==
  LET X1 == Ax(PyInt(1), PyInt(0), PyInt(0), PyNone)
  IN << Call("set_coord", PyInt(54)), Call("g90", "-"), Call("f", PyInt(1000)),
        G00(Ax(PyInt(5), PyNone, PyNone, PyNone), FALSE, FALSE),
        Call("m02", "-"),
        Call("set_coord", PyInt(54)), Call("g04", PyInt(1)),
        Call("g90", "-"), Call("g04", PyInt(1)), Call("f", PyInt(1000)),
        G00(X1, FALSE, FALSE), Call("g04", PyInt(1)),
        Call("g04", PyInt(1)), Call("g04", PyInt(1)),
        G00(X1, FALSE, FALSE), Call("g04", PyInt(1)),
        Call("g04", PyInt(1)), Call("g04", PyInt(1)),
        Call("e", PyInt(1)), Call("g04", PyInt(1)),
        Call("g01", Ax(PyNone, PyNone, PyInt(1), PyNone)), Call("g04", PyInt(1)),
        Call("m02", "-"), Call("g04", PyInt(1)) >>

EndedOutcome ==
  [status |-> "done",
   types |-> << "CoordinateIndexCommand", "CoordinateModeCommand",
                "FeedSpeedSetCommand", "G00MotionCommand",
                "ProgramEndCommand" >>,
   groupModes |-> << >>]

\* src/Interpreter/rs274pyInterpreter/pymodule/test1.py: 0/0 raises inside a
\* try whose handler calls exit(), before any directive.
ExitingProgram ==
  LET X1 == Ax(PyInt(1), PyInt(0), PyInt(0), PyNone)
  IN << Call("exit", "-"),
        Call("set_coord", PyInt(54)), Call("g90", "-"), Call("g04", PyInt(1)),
        Call("f", PyInt(1000)),
        G00(X1, FALSE, FALSE), Call("g04", PyInt(1)), Call("g04", PyInt(1)),
        Call("g04", PyInt(1)),
        G00(X1, FALSE, FALSE), Call("g04", PyInt(1)), Call("g04", PyInt(1)),
        Call("g04", PyInt(1)),
        Call("e", PyInt(1)), Call("g04", PyInt(1)),
        Call("g01", Ax(PyNone, PyNone, PyInt(1), PyNone)), Call("g04", PyInt(1)),
        Call("m02", "-"), Call("g04", PyInt(1)) >>

ExitingOutcome == [status |-> "exited", types |-> << >>, groupModes |-> << >>]

\* _test() of rs274.py: g01 is issued before any f, so
\* _assert_environment_valid raises "Feed Speed Not Set" at the first g01,
\* and the handler of _test's try calls exit(0).
SelfTestProgram ==
  << Call("set_coord", PyInt(54)), Call("g90", "-"),
     Call("g01", Ax(PyInt(1), PyNone, PyInt(2), PyNone)),
     Call("m00", "-"),
     Call("g01", Ax(PyInt(2), PyNone, PyNone, PyNone)),
     Call("e", PyInt(11)), Call("f", PyInt(-1)),
     Call("g00", <<Ax(PyNone, PyInt(1), PyNone, PyNone),
                   <<PyBool(FALSE), PyBool(FALSE)>>>>) >>

SelfTestOutcome ==
  [status |-> "exited",
   types |-> <<"CoordinateIndexCommand", "CoordinateModeCommand">>,
   groupModes |-> << >>]

=============================================================================
