-------------------------- MODULE RS274Interpreter --------------------------
(***************************************************************************)
(* class RS274Interpreter of rs274.py with its Environment, composed with  *)
(* the Points objects a caller hands to g01_group.  One action per public  *)
(* directive.  Every directive first returns unchanged once the program   *)
(* end flag is set; then runs its argument and environment checks, each of *)
(* which raises InterpreterException; then updates the Environment and     *)
(* appends one command dict.  Source line and code text of the caller are  *)
(* diagnostics only and are left out of the records; so is the order of   *)
(* the checks, which only selects the exception message.                  *)
(***************************************************************************)
EXTENDS Integers, Sequences, SequencesExt, RS274Values

CONSTANTS
  PointLists, Axis, AxesInputs, MaxPoints, SourceAvailable,
  NotPoints,         \* an argument of g01_group that is not a Points object
  MaxCmds,           \* bound on the length of the command list
  DelayInputs,       \* t of g04
  EleparamInputs,    \* index of e
  CoordIndexInputs,  \* index of set_coord (g53..g56 pass 53..56)
  FeedInputs,        \* speed of f
  G00FlagInputs,     \* <<m05, touch>> of g00
  ZeroFlagInputs,    \* keyword flags of coord_set_zero: Axis -> PyValue
  DrillInputs        \* keyword arguments of drill, as records

ASSUME NotPoints \notin PointLists

VARIABLES
  env,      \* the Environment object
  cmds,     \* __g_command_list
  outcome,  \* result of the caller's last call
  pmode, plist

vars == <<env, cmds, outcome, pmode, plist>>

P == INSTANCE Points

MotionModes == {"Undefined", "G00", "G01", "DRILL"}

EnvironmentInit ==
  [coordinate_mode  |-> "Undefined",
   motion_mode      |-> "Undefined",
   coordinate_index |-> PyInt(-1),
   program_end_flag |-> FALSE,
   feed_speed       |-> PyInt(-1)]

Init ==
  /\ env = EnvironmentInit
  /\ cmds = << >>
  /\ outcome = "none"
  /\ P!PointsInit

-----------------------------------------------------------------------------
(* The three ways a directive ends.                                        *)

\* `if is_program_end(): return self`
Ignored ==
  /\ env.program_end_flag
  /\ outcome' = "ignored"
  /\ UNCHANGED <<env, cmds, pmode, plist>>

\* An InterpreterException raised with the Environment left as e (a
\* TypeError when the message cannot capture the caller's source).
Raise(e) ==
  /\ ~env.program_end_flag
  /\ env' = e
  /\ outcome' = P!Failure
  /\ UNCHANGED <<cmds, pmode, plist>>

\* The Environment becomes e and the command dict rec is appended.  The
\* dict's CommandStr comes from _get_caller_code, after the Environment
\* setters ran: without the caller's source that raises TypeError, and the
\* Environment stays e with nothing appended.
Emit(e, rec) ==
  /\ ~env.program_end_flag
  /\ env' = e
  /\ \/ /\ SourceAvailable
        /\ Len(cmds) < MaxCmds
        /\ cmds' = Append(cmds, rec)
        /\ outcome' = "ok"
     \/ /\ ~SourceAvailable
        /\ outcome' = "typeerror"
        /\ UNCHANGED cmds
  /\ UNCHANGED <<pmode, plist>>

\* A directive whose checks fail when bad, with the Environment left as
\* failEnv by a raise and as okEnv by success.
Directive(bad, failEnv, okEnv, rec) ==
  \/ Ignored
  \/ bad /\ Raise(failEnv)
  \/ ~bad /\ Emit(okEnv, rec)

\* _assert_environment_valid, on the Environment e it inspects.
EnvironmentInvalid(e) ==
  \/ e.coordinate_mode = "Undefined"
  \/ e.motion_mode = "Undefined"
  \/ PyEqual(e.coordinate_index, -1)
  \/ PyLess(e.coordinate_index, 0)
  \/ PyLess(e.feed_speed, 0)

-----------------------------------------------------------------------------
(* Directives.                                                             *)

g90 ==
  Directive(FALSE, env, [env EXCEPT !.coordinate_mode = "AbsoluteMode"],
            [CommandType |-> "CoordinateModeCommand",
             CoordinateMode |-> "AbsoluteMode"])

\* Fault variant of g91 (a copy of g90 edited only in its record): the
\* Environment is set to AbsoluteMode.
g91_sets_absolute ==
  Directive(FALSE, env, [env EXCEPT !.coordinate_mode = "AbsoluteMode"],
            [CommandType |-> "CoordinateModeCommand",
             CoordinateMode |-> "IncrementMode"])

g91 ==
  Directive(FALSE, env, [env EXCEPT !.coordinate_mode = "IncrementMode"],
            [CommandType |-> "CoordinateModeCommand",
             CoordinateMode |-> "IncrementMode"])

g04(t) ==
  Directive(~IsNumber(t) \/ PyLess(t, 0), env, env,
            [CommandType |-> "DelayCommand", DelayTime |-> t])

e(index) ==
  Directive(~IsInt(index) \/ PyLess(index, 0) \/ ~PyLess(index, 1000),
            env, env,
            [CommandType |-> "EleparamSetCommand", EleparamIndex |-> index])

\* _command_set_coordinate_index, behind g53, g54, g55, g56 and set_coord.
set_coord(index) ==
  Directive(~IsInt(index) \/ PyLess(index, 0),
            env, [env EXCEPT !.coordinate_index = index],
            [CommandType |-> "CoordinateIndexCommand",
             CoordinateIndex |-> index])

\* _coord_set_zero, behind coord_set_zero and coord_set_<axis>_zero.
coord_set_zero(flags) ==
  Directive(\E a \in Axis : ~IsBool(flags[a]), env, env,
            [CommandType |-> "CoordSetZeroCommand", SetZeroAxisList |-> flags])

\* Fault variant of m02 pasted from g90 with its CoordinateMode key left in.
m02_records_mode ==
  Directive(FALSE, env, [env EXCEPT !.program_end_flag = TRUE],
            [CommandType |-> "ProgramEndCommand",
             CoordinateMode |-> env.coordinate_mode])

m02 ==
  Directive(FALSE, env, [env EXCEPT !.program_end_flag = TRUE],
            [CommandType |-> "ProgramEndCommand"])

\* Fault variant of m00 without its `if is_program_end(): return self`.
m00_unlatched ==
  /\ Len(cmds) < MaxCmds
  /\ cmds' = Append(cmds, [CommandType |-> "PauseCommand"])
  /\ outcome' = "ok"
  /\ UNCHANGED <<env, pmode, plist>>

m00 ==
  Directive(FALSE, env, env, [CommandType |-> "PauseCommand"])

\* Fault variant of f that stores the speed before its range check, the
\* way g00 and g01 store the motion mode.
f_stores_first(speed) ==
  Directive(~IsInt(speed) \/ PyLessEq(speed, 0),
            [env EXCEPT !.feed_speed = speed],
            [env EXCEPT !.feed_speed = speed],
            [CommandType |-> "FeedSpeedSetCommand", FeedSpeed |-> speed])

f(speed) ==
  Directive(~IsInt(speed) \/ PyLessEq(speed, 0),
            env, [env EXCEPT !.feed_speed = speed],
            [CommandType |-> "FeedSpeedSetCommand", FeedSpeed |-> speed])

\* Fault variant of g01 without its call to _assert_environment_valid.
g01_unchecked(axes) ==
  LET e1 == [env EXCEPT !.motion_mode = "G01"]
  IN Directive(~P!AxesValid(axes), e1, e1,
               [CommandType |-> "G01MotionCommand",
                CoordinateMode |-> e1.coordinate_mode,
                MotionMode |-> "G01",
                CoordinateIndex |-> e1.coordinate_index,
                Coordinates |-> axes])

\* g01 sets the motion mode before it validates anything.
g01(axes) ==
  LET e1 == [env EXCEPT !.motion_mode = "G01"]
  IN Directive(EnvironmentInvalid(e1) \/ ~P!AxesValid(axes), e1, e1,
               [CommandType |-> "G01MotionCommand",
                CoordinateMode |-> e1.coordinate_mode,
                MotionMode |-> "G01",
                CoordinateIndex |-> e1.coordinate_index,
                Coordinates |-> axes])

\* g00 sets the motion mode first as well; touch forces m05 to False.
g00(axes, flags) ==
  LET e1 == [env EXCEPT !.motion_mode = "G00"]
      m05 == flags[1]
      touch == flags[2]
  IN Directive(\/ EnvironmentInvalid(e1)
               \/ ~IsBool(m05) \/ ~IsBool(touch)
               \/ ~P!AxesValid(axes),
               e1, e1,
               [CommandType |-> "G00MotionCommand",
                CoordinateMode |-> e1.coordinate_mode,
                MotionMode |-> "G00",
                CoordinateIndex |-> e1.coordinate_index,
                Coordinates |-> axes,
                M05IgnoreTouchDetect |->
                  IF touch = PyBool(TRUE) THEN PyBool(FALSE) ELSE m05,
                G00Touch |-> touch,
                FeedSpeed |-> e1.feed_speed])

g01_group(pl) ==
  LET e1 == [env EXCEPT !.motion_mode = "G01"]
  IN \/ Ignored
     \/ pl = NotPoints /\ Raise(env)
     \/ /\ pl # NotPoints
        /\ \/ EnvironmentInvalid(e1) /\ Raise(e1)
           \/ ~EnvironmentInvalid(e1)
              /\ Emit(e1, [CommandType |-> "G01GroupMotionCommand",
                           CoordinateIndex |-> e1.coordinate_index,
                           G01GroupPoints |-> plist[pl]])

\* drill checks only its own arguments and leaves the Environment alone.
drill(d) ==
  Directive(\/ ~IsNumber(d.depth) \/ PyLessEq(d.depth, 0)
            \/ ~IsInt(d.holdtime) \/ PyLess(d.holdtime, 0)
            \/ ~IsBool(d.touch) \/ ~IsBool(d.breakout) \/ ~IsBool(d.back)
            \/ ~(IsNumber(d.spindle_speed) \/ IsNone(d.spindle_speed)),
            env, env,
            [CommandType |-> "DrillMotionCommand",
             MotionMode |-> "DRILL",
             DrillDepth |-> d.depth,
             DrillHoldTime |-> d.holdtime,
             DrillTouch |-> d.touch,
             DrillBreakout |-> d.breakout,
             DrillBack |-> d.back,
             DrillSpindleSpeed |-> d.spindle_speed])

\* A call on a Points object leaves the interpreter alone.
PointsCall ==
  /\ P!PointsNext
  /\ UNCHANGED <<env, cmds>>

Next ==
  \/ g90 \/ g91 \/ m02 \/ m00
  \/ \E t \in DelayInputs : g04(t)
  \/ \E i \in EleparamInputs : e(i)
  \/ \E i \in CoordIndexInputs : set_coord(i)
  \/ \E z \in ZeroFlagInputs : coord_set_zero(z)
  \/ \E s \in FeedInputs : f(s)
  \/ \E a \in AxesInputs : g01(a)
  \/ \E a \in AxesInputs, fl \in G00FlagInputs : g00(a, fl)
  \/ \E pl \in PointLists \cup {NotPoints} : g01_group(pl)
  \/ \E d \in DrillInputs : drill(d)
  \/ PointsCall

Spec == Init /\ [][Next]_vars

-----------------------------------------------------------------------------
(* Properties.                                                             *)

Program == INSTANCE RS274Program WITH prog <- cmds

Json == INSTANCE RS274Json

CommandRecord ==
  [CommandType : {"CoordinateModeCommand"},
   CoordinateMode : P!CoordinateModes]
  \cup [CommandType : {"DelayCommand"}, DelayTime : PyValue]
  \cup [CommandType : {"EleparamSetCommand"}, EleparamIndex : PyValue]
  \cup [CommandType : {"CoordinateIndexCommand"}, CoordinateIndex : PyValue]
  \cup [CommandType : {"CoordSetZeroCommand"}, SetZeroAxisList : ZeroFlagInputs]
  \cup [CommandType : {"ProgramEndCommand", "PauseCommand"}]
  \cup [CommandType : {"FeedSpeedSetCommand"}, FeedSpeed : PyValue]
  \cup [CommandType : {"G01MotionCommand"}, CoordinateMode : P!CoordinateModes,
         MotionMode : {"G01"}, CoordinateIndex : PyValue,
         Coordinates : AxesInputs]
  \cup [CommandType : {"G00MotionCommand"}, CoordinateMode : P!CoordinateModes,
         MotionMode : {"G00"}, CoordinateIndex : PyValue,
         Coordinates : AxesInputs, M05IgnoreTouchDetect : PyValue,
         G00Touch : PyValue, FeedSpeed : PyValue]
  \cup [CommandType : {"G01GroupMotionCommand"}, CoordinateIndex : PyValue,
         G01GroupPoints : Seq(P!Point)]
  \cup [CommandType : {"DrillMotionCommand"}, MotionMode : {"DRILL"},
         DrillDepth : PyValue, DrillHoldTime : PyValue, DrillTouch : PyValue,
         DrillBreakout : PyValue, DrillBack : PyValue,
         DrillSpindleSpeed : PyValue]

TypeOK ==
  /\ env \in [coordinate_mode : P!CoordinateModes,
              motion_mode : MotionModes,
              coordinate_index : PyValue,
              program_end_flag : BOOLEAN,
              feed_speed : PyValue]
  /\ cmds \in Seq(CommandRecord)
  /\ Len(cmds) <= MaxCmds
  /\ outcome \in P!Outcomes
  /\ P!PointsTypeOK

(* The command list is a legal program (RS274Program): every directive     *)
(* appends at most one record and never rewrites an earlier one; nothing    *)
(* follows ProgramEndCommand; every G00/G01/G01-group record is emitted     *)
(* only under a defined coordinate mode, coordinate system and feed speed   *)
(* and carries exactly the values the preceding records set up; a touch     *)
(* G00 never ignores touch detection; no group point is in Undefined mode.  *)
ProgramRefinement == Program!ProgramSpec

(* The Environment the interpreter validates against is the one a          *)
(* controller reconstructs by replaying the emitted list: coordinate mode, *)
(* coordinate system, feed speed and the end flag never change without the *)
(* record that announces the change (g90/g91, _command_set_coordinate_     *)
(* index, f, m02).                                                          *)
EnvMatchesReplay ==
  LET m == Program!Replay(cmds)
  IN /\ env.coordinate_mode = m.coordinate_mode
     /\ env.coordinate_index = m.coordinate_index
     /\ env.feed_speed = m.feed_speed
     /\ env.program_end_flag = m.program_end

(* After m02, every directive returns at its first line: neither the        *)
(* command list nor the Environment ever changes again.                    *)
ProgramEndLatch ==
  [][env.program_end_flag => UNCHANGED <<env, cmds>>]_vars

(* A directive that raises InterpreterException appends nothing and leaves *)
(* every modal field that the list announces (all but motion_mode) as it   *)
(* was, so the caller may inspect the list after the failure.              *)
FailedCallIsAtomic ==
  [][outcome' = "error" =>
       /\ cmds' = cmds
       /\ env'.coordinate_mode = env.coordinate_mode
       /\ env'.coordinate_index = env.coordinate_index
       /\ env'.feed_speed = env.feed_speed
       /\ env'.program_end_flag = env.program_end_flag]_vars

-----------------------------------------------------------------------------
(* Statements of the spec that the code does not keep (see README).        *)

(* Spec 4.2 orders a directive as: validate arguments, validate the         *)
(* environment, then mutate it; section 7 lets a failure abort only the     *)
(* call.  So a directive that raises would leave the whole Environment as   *)
(* it was.  g00, g01 and g01_group set motion_mode before they validate.   *)
FailedCallLeavesEnvUnchanged ==
  [][outcome' = "error" => env' = env]_vars

(* Spec 3: "any motion-family command requires coordinateMode, motion mode, *)
(* coordinateSystemIndex and feedSpeed set".  drill emits a                 *)
(* DrillMotionCommand without _assert_environment_valid.                   *)
MotionRecordsRequireModalState ==
  \A i \in DOMAIN cmds :
    cmds[i].CommandType \in Program!MotionTypes \cup {"DrillMotionCommand"} =>
      Program!ModalDefined(Program!Replay(SubSeq(cmds, 1, i - 1)))

(* Spec 6 and 4.2: CoordinateIndex, EleparamIndex, FeedSpeed and           *)
(* DrillHoldTime are integers; json.dumps must render each as a JSON        *)
(* integer.  The isinstance(x, int) checks of e, f, set_coord and drill     *)
(* also accept True and False.                                             *)
IntegerFieldsAreJsonIntegers ==
  \A i \in DOMAIN cmds :
    \A k \in DOMAIN cmds[i] \cap Json!IntegerKeys :
      Json!JsonKind(cmds[i][k]) = "integer"

(* Spec 4.2: g04 fails unless t >= 0, drill unless depth > 0; spec 6:     *)
(* Coordinates holds numbers, with null for an unset axis; spec 8: the      *)
(* serialized list round-trips without lossy coercion.  So every numeric    *)
(* field (the spindle speed may be null) and every axis of a G00/G01        *)
(* record and of every group point is rendered as a JSON number.  NaN       *)
(* passes the range checks t < 0 and depth <= 0, NaN and True pass the      *)
(* axis test isinstance(v, (int, float)), and json.dumps writes NaN, true.  *)
NumbersAreJsonNumbers ==
  LET Num(v) == Json!JsonKind(v) \in {"integer", "number"}
      AxesOK(c) == \A a \in Axis : Num(c[a]) \/ Json!JsonKind(c[a]) = "null"
  IN \A i \in DOMAIN cmds :
       /\ \A k \in DOMAIN cmds[i] \cap Json!NumberKeys :
            \/ Num(cmds[i][k])
            \/ k = "DrillSpindleSpeed" /\ Json!JsonKind(cmds[i][k]) = "null"
       /\ "Coordinates" \in DOMAIN cmds[i] => AxesOK(cmds[i].Coordinates)
       /\ "G01GroupPoints" \in DOMAIN cmds[i] =>
            \A j \in DOMAIN cmds[i].G01GroupPoints :
              AxesOK(cmds[i].G01GroupPoints[j].Coordinates)

=============================================================================
