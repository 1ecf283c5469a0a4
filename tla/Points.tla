------------------------------- MODULE Points -------------------------------
(***************************************************************************)
(* class Points of rs274.py: a caller-built list of points for a grouped   *)
(* G01 move.  Each Points object keeps its own coordinate-mode latch,      *)
(* independent of the interpreter's Environment; push() stamps the latch   *)
(* into the new point.  A push that raises leaves the object unchanged.    *)
(***************************************************************************)
EXTENDS Sequences, RS274Values

CONSTANTS
  PointLists,   \* the Points objects the caller creates
  Axis,         \* the axes modelled, a subset of x, y, z, b, c, a
  AxesInputs,   \* keyword arguments of push(): functions Axis -> PyValue
  MaxPoints,    \* bound on the points pushed into one object
  SourceAvailable  \* whether inspect.stack() finds the caller's source line

ASSUME SourceAvailable \in BOOLEAN

VARIABLES
  pmode,        \* pmode[p]: Points.__current_coordinate_mode
  plist,        \* plist[p]: Points.__points, a sequence of _Point
  outcome       \* the result of the caller's last call: ok, error, ...

CoordinateModes == {"Undefined", "AbsoluteMode", "IncrementMode"}

Outcomes == {"none", "ok", "error", "typeerror", "ignored"}

\* _get_caller_code reads stack()[2].code_context[0]; code_context is None
\* when the caller's source cannot be read (python -c, exec of a string,
\* the interactive prompt), and the subscript raises TypeError.  Every
\* InterpreterException message is built with it, so a failing check then
\* raises TypeError instead.
Failure == IF SourceAvailable THEN "error" ELSE "typeerror"

\* _Point: the latched mode and the six-slot coordinate list.
Point == [CoordinateMode : CoordinateModes, Coordinates : AxesInputs]

\* The axis-value test shared by _Point.set_point and _get_coordinate_dict:
\* every supplied value (not None) must be an int or a float.
AxesValid(axes) == \A a \in Axis : IsNone(axes[a]) \/ IsNumber(axes[a])

PointsInit ==
  /\ pmode = [p \in PointLists |-> "Undefined"]
  /\ plist = [p \in PointLists |-> << >>]

points_g90(p) ==
  /\ pmode' = [pmode EXCEPT ![p] = "AbsoluteMode"]
  /\ outcome' = "ok"
  /\ UNCHANGED plist

points_g91(p) ==
  /\ pmode' = [pmode EXCEPT ![p] = "IncrementMode"]
  /\ outcome' = "ok"
  /\ UNCHANGED plist

\* Fault variant of push: the new point is put in front of the list.
push_prepends(p, axes) ==
  \/ /\ pmode[p] = "Undefined" \/ ~AxesValid(axes) \/ ~SourceAvailable
     /\ outcome' = Failure
     /\ UNCHANGED <<pmode, plist>>
  \/ /\ SourceAvailable
     /\ pmode[p] # "Undefined"
     /\ AxesValid(axes)
     /\ Len(plist[p]) < MaxPoints
     /\ plist' = [plist EXCEPT ![p] =
                    <<[CoordinateMode |-> pmode[p], Coordinates |-> axes]>> \o @]
     /\ outcome' = "ok"
     /\ UNCHANGED pmode

\* push(): _check_environment raises on an Undefined latch; the _Point
\* constructor captures the caller's source text; set_point raises on a
\* non-numeric value; only then is the point appended.
push(p, axes) ==
  \/ /\ pmode[p] = "Undefined" \/ ~AxesValid(axes) \/ ~SourceAvailable
     /\ outcome' = Failure
     /\ UNCHANGED <<pmode, plist>>
  \/ /\ SourceAvailable
     /\ pmode[p] # "Undefined"
     /\ AxesValid(axes)
     /\ Len(plist[p]) < MaxPoints
     /\ plist' = [plist EXCEPT ![p] =
                    Append(@, [CoordinateMode |-> pmode[p], Coordinates |-> axes])]
     /\ outcome' = "ok"
     /\ UNCHANGED pmode

PointsNext ==
  \E p \in PointLists :
    \/ points_g90(p)
    \/ points_g91(p)
    \/ \E axes \in AxesInputs : push(p, axes)

PointsTypeOK ==
  /\ pmode \in [PointLists -> CoordinateModes]
  /\ \A p \in PointLists : plist[p] \in Seq(Point) /\ Len(plist[p]) <= MaxPoints

=============================================================================
