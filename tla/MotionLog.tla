------------------------------ MODULE MotionLog ------------------------------
(***************************************************************************)
(* The two consumers of the tab-separated motion log in src/scripts:      *)
(* plot_together.py (read_motion_file, then the cmd_s panel) and           *)
(* plot_axis_vol.py (the same loop inline, then cmd_s and averaged_voltage *)
(* against time).  The reader starts one list per header of the hard-coded *)
(* header row and, for every line of the file, appends field i of          *)
(* line.strip().split('\t') to the list of header i.  A line is a sequence *)
(* of fields; a field is a token without whitespace or the empty string.   *)
(* int() and float() are modelled by which tokens they accept and, for     *)
(* int(), the value; the / 1000000 scaling to seconds is left out.         *)
(***************************************************************************)
EXTENDS Integers, Sequences, SequencesExt

CONSTANTS
  Headers,      \* the header row: a sequence of distinct names
  FieldValues,  \* the field tokens of the model, "" among them
  IntValue,     \* int(): the tokens it accepts, mapped to their values
  FloatLiterals,\* the tokens float() accepts
  MaxFields,    \* bound on the fields of one line
  MaxLines      \* bound on the lines of the file

VARIABLE file   \* the lines of the file, as file.readlines() returns them

NH == Len(Headers)

\* The list of a header: data[name].
Col(name) == CHOOSE k \in 1..NH : Headers[k] = name

Lines == UNION {[1..n -> FieldValues] : n \in 1..MaxFields}

\* str.strip() removes whitespace, and the tab separators are whitespace:
\* empty fields at either end of the line vanish with their tabs.  A line
\* with no non-empty field becomes "", which split('\t') makes [""].
StripSplit(line) ==
  LET first == SelectInSeq(line, LAMBDA v : v # "")
      last == SelectLastInSeq(line, LAMBDA v : v # "")
  IN IF first = 0 THEN <<"">> ELSE SubSeq(line, first, last)

\* Fault variant of AppendLine: the fields are numbered from one, as with
\* enumerate(columns, 1), so field i goes to header i + 1.
AppendLine_from_one(acc, line) ==
  LET cols == StripSplit(line)
  IN IF acc.error \/ Len(cols) >= NH
     THEN [acc EXCEPT !.error = TRUE]
     ELSE [acc EXCEPT !.data = [k \in 1..NH |->
                        IF 2 <= k /\ k - 1 <= Len(cols)
                        THEN Append(@[k], cols[k - 1]) ELSE @[k]]]

\* The loop body for one line: data[headers[i]].append(column) for each
\* field; a field beyond the last header raises IndexError, which
\* read_motion_file does not catch.
AppendLine(acc, line) ==
  LET cols == StripSplit(line)
  IN IF acc.error \/ Len(cols) > NH
     THEN [acc EXCEPT !.error = TRUE]
     ELSE [acc EXCEPT !.data = [k \in 1..NH |->
                        IF k <= Len(cols) THEN Append(@[k], cols[k])
                        ELSE @[k]]]

read_motion_file(lines) ==
  FoldLeft(AppendLine, [data |-> [k \in 1..NH |-> << >>], error |-> FALSE],
           lines)

\* [int(t) for t in col] and [float(t) for t in col] raise ValueError
\* unless every token parses.
IntsOK(col) == \A j \in DOMAIN col : col[j] \in DOMAIN IntValue
FloatsOK(col) == \A j \in DOMAIN col : col[j] \in FloatLiterals

\* A run that raised: nothing is plotted.
Raised == [error |-> TRUE, points |-> << >>]

\* motion_time: each tick minus the first.
motion_time(ticks) ==
  [j \in DOMAIN ticks |-> IntValue[ticks[j]] - IntValue[ticks[1]]]

\* plot_together: motion_time needs a first tick (IndexError on an empty
\* file), motion_cmd the cmd_s floats, and plt.plot(motion_time,
\* motion_cmd) raises ValueError when the two lengths differ.
plot_together_motion(lines) ==
  LET r == read_motion_file(lines)
      ticks == r.data[Col("tick_us")]
      cmd == r.data[Col("cmd_s")]
  IN IF \/ r.error \/ ticks = << >> \/ ~IntsOK(ticks) \/ ~FloatsOK(cmd)
        \/ Len(ticks) # Len(cmd)
     THEN Raised
     ELSE [error |-> FALSE,
           points |-> [j \in DOMAIN ticks |-> <<motion_time(ticks)[j], cmd[j]>>]]

\* plot_axis_vol: tick_us, cmd_s and averaged_voltage converted, then
\* ax1.plot(tick_us, cmd_s) and ax2.plot(tick_us, averaged_voltage).
plot_axis_vol(lines) ==
  LET r == read_motion_file(lines)
      ticks == r.data[Col("tick_us")]
      cmd == r.data[Col("cmd_s")]
      volt == r.data[Col("averaged_voltage")]
  IN IF \/ r.error \/ ~IntsOK(ticks) \/ ~FloatsOK(cmd) \/ ~FloatsOK(volt)
        \/ Len(ticks) # Len(cmd) \/ Len(ticks) # Len(volt)
     THEN Raised
     ELSE [error |-> FALSE,
           points |-> [j \in DOMAIN ticks |-> <<IntValue[ticks[j]], cmd[j], volt[j]>>]]

Init == file \in BoundedSeq(Lines, MaxLines)

\* The file is read once; its content does not change.
Next == UNCHANGED file

Spec == Init /\ [][Next]_file

-----------------------------------------------------------------------------
(* Properties.                                                             *)

\* Field name of line j of the file.
Field(j, name) == file[j][Col(name)]

\* What each script should draw for the file: one point per line, made of
\* that line's own fields.
TogetherPoints ==
  [j \in 1..Len(file) |->
     <<IntValue[Field(j, "tick_us")] - IntValue[Field(1, "tick_us")],
       Field(j, "cmd_s")>>]

AxisVolPoints ==
  [j \in 1..Len(file) |->
     <<IntValue[Field(j, "tick_us")], Field(j, "cmd_s"),
       Field(j, "averaged_voltage")>>]

\* A line as the decoder of the motion log writes it: one field per
\* header, an integer tick and float values.
FullLine(line) ==
  /\ Len(line) = NH
  /\ line[Col("tick_us")] \in DOMAIN IntValue
  /\ \A k \in 1..NH : line[k] \in FloatLiterals

(* A non-empty log of full lines is plotted by both scripts without an     *)
(* error, one point per line in line order, each made of that line's      *)
(* tick, cmd_s and averaged_voltage.                                       *)
FullLogsPlot ==
  (file # << >> /\ \A j \in 1..Len(file) : FullLine(file[j])) =>
     /\ plot_together_motion(file) = [error |-> FALSE, points |-> TogetherPoints]
     /\ plot_axis_vol(file) = [error |-> FALSE, points |-> AxisVolPoints]

(* A log whose every line has one field per header, some of them empty,   *)
(* is either refused with an exception or plotted truthfully: no script   *)
(* draws a point whose coordinates come from different fields or lines.   *)
(* strip() drops an empty tick field, the cmd_s value moves into tick_us, *)
(* and the lists still have equal lengths, so the plot succeeds.          *)
PlotsShowTheirLines ==
  (\A j \in 1..Len(file) : Len(file[j]) = NH) =>
     /\ ~plot_together_motion(file).error =>
           /\ \A j \in 1..Len(file) : Field(j, "tick_us") \in DOMAIN IntValue
           /\ plot_together_motion(file).points = TogetherPoints
     /\ ~plot_axis_vol(file).error =>
           /\ \A j \in 1..Len(file) : Field(j, "tick_us") \in DOMAIN IntValue
           /\ plot_axis_vol(file).points = AxisVolPoints

=============================================================================
