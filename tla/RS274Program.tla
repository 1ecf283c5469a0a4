---------------------------- MODULE RS274Program ----------------------------
(***************************************************************************)
(* What the interpreter promises about the command list it emits (spec     *)
(* sections 3, 4.2 and 5): the list only grows, one record at a time, in   *)
(* call order; nothing follows the ProgramEndCommand; and every motion     *)
(* record agrees with the modal state that the records before it set up,   *)
(* so a controller replaying the list from the start reaches the state the *)
(* interpreter was in.  The modal state is never stored here: it is        *)
(* recomputed from the list by Replay.                                     *)
(***************************************************************************)
EXTENDS Sequences, SequencesExt, RS274Values

VARIABLE prog

\* The modal state a controller holds before the first record.
ModalInit ==
  [coordinate_mode  |-> "Undefined",
   coordinate_index |-> PyInt(-1),
   feed_speed       |-> PyInt(-1),
   program_end      |-> FALSE]

\* The effect of one record on the replayed modal state.
ApplyRecord(m, r) ==
  CASE r.CommandType = "CoordinateModeCommand" ->
         [m EXCEPT !.coordinate_mode = r.CoordinateMode]
    [] r.CommandType = "CoordinateIndexCommand" ->
         [m EXCEPT !.coordinate_index = r.CoordinateIndex]
    [] r.CommandType = "FeedSpeedSetCommand" ->
         [m EXCEPT !.feed_speed = r.FeedSpeed]
    [] r.CommandType = "ProgramEndCommand" ->
         [m EXCEPT !.program_end = TRUE]
    [] OTHER -> m

Replay(s) == FoldLeft(ApplyRecord, ModalInit, s)

\* A motion needs a coordinate mode, a coordinate system and a feed speed.
ModalDefined(m) ==
  /\ m.coordinate_mode # "Undefined"
  /\ ~PyLess(m.coordinate_index, 0)
  /\ ~PyLessEq(m.feed_speed, 0)

MotionTypes == {"G00MotionCommand", "G01MotionCommand", "G01GroupMotionCommand"}

\* Record r may follow a list whose replayed modal state is m.
Legal(m, r) ==
  /\ ~m.program_end
  /\ r.CommandType \in MotionTypes =>
       /\ ModalDefined(m)
       /\ r.CoordinateIndex = m.coordinate_index
  /\ r.CommandType \in MotionTypes \ {"G01GroupMotionCommand"} =>
       r.CoordinateMode = m.coordinate_mode
  /\ r.CommandType = "G00MotionCommand" =>
       /\ r.FeedSpeed = m.feed_speed
       /\ r.G00Touch = PyBool(TRUE) => r.M05IgnoreTouchDetect = PyBool(FALSE)
  /\ r.CommandType = "G01GroupMotionCommand" =>
       \A i \in DOMAIN r.G01GroupPoints :
         r.G01GroupPoints[i].CoordinateMode # "Undefined"

ProgramInit == prog = << >>

\* One legal record is appended; what was emitted before stays as it was.
AppendLegal ==
  /\ Len(prog') = Len(prog) + 1
  /\ SubSeq(prog', 1, Len(prog)) = prog
  /\ Legal(Replay(prog), prog'[Len(prog')])

ProgramSpec == ProgramInit /\ [][AppendLegal]_prog

=============================================================================
