------------------------------ MODULE MC_RS274 ------------------------------
(***************************************************************************)
(* Model of RS274Interpreter for TLC.  Each directive gets one valid       *)
(* argument and the argument at the edge of each of its checks (a wrong    *)
(* type, a value just out of range, True where an int is expected, NaN     *)
(* where a float is); two axes stand for the six.                          *)
(***************************************************************************)
EXTENDS RS274Interpreter

MCAxis == {"x", "y"}

MCAxesInputs ==
  { [x |-> PyInt(1), y |-> PyNone],
    [x |-> PyStr,    y |-> PyNone] }

MCDelayInputs == {PyInt(1), PyInt(-1)}

MCEleparamInputs == {PyInt(999), PyInt(1000)}

MCCoordIndexInputs == {PyInt(54), PyInt(-1)}

MCFeedInputs == {PyInt(1000), PyInt(0)}

\* <<m05, touch>>: touch with m05 requested, plain move, m05 of wrong type.
MCG00FlagInputs ==
  { <<PyBool(TRUE), PyBool(TRUE)>>,
    <<PyBool(FALSE), PyBool(FALSE)>>,
    <<PyInt(1), PyBool(FALSE)>> }

MCZeroFlagInputs ==
  { [x |-> PyBool(TRUE), y |-> PyBool(FALSE)],
    [x |-> PyInt(1),     y |-> PyBool(FALSE)] }

MCDrill(depth, hold) ==
  [depth |-> depth, holdtime |-> hold, touch |-> PyBool(TRUE),
   breakout |-> PyBool(FALSE), back |-> PyBool(TRUE),
   spindle_speed |-> PyNone]

MCDrillInputs == {MCDrill(PyInt(1), PyInt(500)), MCDrill(PyInt(-1), PyInt(500))}

\* Values where the type tests of rs274.py let through what the interface
\* declares impossible: True for an int, NaN for a non-negative float.
MCDelayInputsEdge == {PyInt(1), PyNaN}

MCFeedInputsEdge == {PyInt(1000), PyBool(TRUE)}

\* For the group run: one valid argument per directive; points pushed
\* under different latches tell their order apart.
MCAxesInputsGroup == { [x |-> PyInt(1), y |-> PyNone] }

MCCoordIndexInputsGroup == {PyInt(54)}

MCFeedInputsGroup == {PyInt(1000)}

\* A NaN and a True coordinate, each of which passes the axis type test.
MCAxesInputsEdge ==
  { [x |-> PyInt(1), y |-> PyNone],
    [x |-> PyNaN,    y |-> PyNone],
    [x |-> PyBool(TRUE), y |-> PyNone] }

=============================================================================
