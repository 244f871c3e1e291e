------------------------------- MODULE Window -------------------------------
(***************************************************************************)
(* The window of the GUI: main's GUI mode, ui/window.go and                *)
(* ui/battery_display.go over Appearance and Battery.  A goroutine reads   *)
(* the battery every five seconds and posts what it read to the main       *)
(* goroutine with fyne.Do; the files of the power supply change between    *)
(* any two reads.                                                          *)
(***************************************************************************)
EXTENDS Appearance, Battery, Sequences

CONSTANTS
  Files,      \* what config.yaml may hold
  Supplies,   \* what /sys/class/power_supply may hold
  QueueCap,   \* bound of the model: updates posted and not run yet
  MaxChanges  \* bound of the model: changes of the supply

ASSUME WindowAssumption ==
  /\ Files \subseteq File /\ Supplies \subseteq Supply /\ Supplies # {}
  /\ QueueCap \in Nat \ {0} /\ MaxChanges \in Nat

VARIABLES
  gui,      \* starting, fatal (log.Fatal), open, closed
  file, sysDark, pal,
  supply, changes,
  reader,   \* the battery goroutine: before a read, or in the middle of it
  half,     \* what it has read so far
  queue,    \* functions posted with fyne.Do, by their argument
  shown,    \* batteryDisplay
  readings  \* history: estimates averaged since the last change of status

appearance == <<file, sysDark, pal>>
vars == <<gui, appearance, supply, changes, reader, half, queue, shown, readings>>

NoHalf == [level |-> 0, status |-> "unknown"]

Init ==
  /\ gui = "starting" /\ file \in Files /\ sysDark \in BOOLEAN
  /\ pal = [r \in Roles |-> Black]
  /\ supply \in Supplies /\ changes = 0
  /\ reader = "tick" /\ half = NoHalf /\ queue = <<>> /\ readings = {}
  /\ shown = [note |-> "", level |-> 0, track |-> 0, icon |-> "plain",
              size |-> 0, time |-> 0, timeLabel |-> "Time left:", cycles |-> 0,
              rate |-> 0, rateLabel |-> "Discharging:",
              ema |-> 0, lastStatus |-> ""]

\* main without a subcommand: an unreadable or invalid config.yaml is fatal,
\* otherwise Show builds the window from what is merged.
Start ==
  /\ gui = "starting"
  /\ IF Validate(Merge(file))
     THEN gui' = "open" /\ pal' = BuildPalette(Merge(file), sysDark)
     ELSE gui' = "fatal" /\ UNCHANGED pal
  /\ UNCHANGED <<file, sysDark, supply, changes, reader, half, queue, shown, readings>>

-----------------------------------------------------------------------------
(* The battery goroutine *)

Post(result) == Len(queue) < QueueCap /\ queue' = Append(queue, result)

\* A battery whose percentage and status can be read.
Readable(s) == s.dir = "battery" /\ Percentage(s) # Absent /\ s.status # Absent

\* Percentage and status; no battery or an error ends the read here.
ReadStatus ==
  /\ gui = "open" /\ reader = "tick"
  /\ IF Readable(supply)
     THEN /\ half' = [level |-> Percentage(supply), status |-> parseStatus(supply.status)]
          /\ reader' = "details" /\ UNCHANGED queue
     ELSE /\ Post([kind |-> IF supply.dir = "none" THEN "none" ELSE "error"])
          /\ UNCHANGED <<reader, half>>
  /\ UNCHANGED <<gui, appearance, supply, changes, shown, readings>>

\* Mutant: one update at the start and no ticker.
BugReadOnce == "done"

\* The loop over the ticker.
NextRead == "tick"

\* The rest, which a supply that has changed meanwhile may contradict.
ReadDetails ==
  /\ gui = "open" /\ reader = "details" /\ reader' = NextRead /\ half' = NoHalf
  /\ Post([kind |-> "battery", level |-> half.level, status |-> half.status,
           time |-> TimeLeft(supply, half.status), size |-> SizeWh(supply),
           cycles |-> Cycles(supply), rate |-> RateW(supply)])
  /\ UNCHANGED <<gui, appearance, supply, changes, shown, readings>>

-----------------------------------------------------------------------------
(* The display *)

Clamp(x, lo, hi) == IF x < lo THEN lo ELSE IF x > hi THEN hi ELSE x
Positive(x) == IF x > 0 THEN x ELSE 0

\* emaSmooth.update computes in float32, of 24 bits: the conversions, weights,
\* products and sum together are off by less than one part in 2^21, and the
\* conversion back drops a fraction.
Roundoff == 2097152
Rounding(x) == x \div Roundoff + 1

\* The average with its alpha of 0.2, one of the values its rounding may leave;
\* 0 is no estimate yet.
Smooth(value, new) ==
  IF value = 0 THEN {new}
  ELSE LET exact == (new + 4 * value) \div 5
           off == Rounding((new + 4 * Abs(value)) \div 5)
       IN  {Convert(x) : x \in (exact - off)..(exact + off)}

\* setIcon: nine levels of two fonts, by tens of percent.
Icon(level, status) ==
  CASE status = "full" -> "full"
    [] status \in {"not-charging", "unknown"} -> "plain"
    [] OTHER -> <<status, Clamp(level \div 10, 0, 8)>>

\* clearDetails and an empty track; icon, estimate and last status stay.
Cleared(note) ==
  [shown EXCEPT !.note = note, !.level = 0, !.track = 0, !.size = 0, !.time = 0,
                !.timeLabel = "", !.cycles = 0, !.rate = 0, !.rateLabel = ""]

\* Mutant: the estimate goes on across a change of status.
BugNoReset(bat) == FALSE

StatusChanged(bat) == bat.status # shown.lastStatus

\* The averages that may follow: a reading without a time leaves it alone.
Estimates(bat) ==
  LET kept == IF StatusChanged(bat) THEN 0 ELSE shown.ema
  IN  IF bat.time > 0 THEN Smooth(kept, bat.time) ELSE {kept}

\* batteryDisplay.update; 0 stands for an empty text.
Updated(bat, ema) ==
  [note |-> "%", level |-> bat.level, track |-> Clamp(bat.level, 0, 100),
   icon |-> Icon(bat.level, bat.status), size |-> Positive(bat.size),
   time |-> IF bat.time > 0 THEN ema ELSE 0,
   timeLabel |-> IF bat.status = "charging" THEN "Time to full:" ELSE "Time left:",
   cycles |-> Positive(bat.cycles), rate |-> Positive(bat.rate),
   rateLabel |-> CASE bat.status = "charging" -> "Charging:"
                   [] bat.status = "discharging" -> "Discharging:"
                   [] OTHER -> "Power:",
   ema |-> ema, lastStatus |-> bat.status]

\* The main goroutine runs the next posted function.
Update ==
  /\ gui = "open" /\ queue # <<>> /\ queue' = Tail(queue)
  /\ LET bat == Head(queue) IN
       CASE bat.kind = "error" -> shown' = Cleared("Error") /\ UNCHANGED readings
         [] bat.kind = "none" -> shown' = Cleared("No battery") /\ UNCHANGED readings
         [] OTHER ->
              /\ \E ema \in Estimates(bat) : shown' = Updated(bat, ema)
              /\ readings' = (IF bat.status = shown.lastStatus THEN readings ELSE {})
                               \cup (IF bat.time > 0 THEN {bat.time} ELSE {})
  /\ UNCHANGED <<gui, appearance, supply, changes, reader, half>>

-----------------------------------------------------------------------------
(* The outside *)

SupplyChanges ==
  /\ gui = "open" /\ changes < MaxChanges /\ changes' = changes + 1
  /\ supply' \in Supplies \ {supply}
  /\ UNCHANGED <<gui, appearance, reader, half, queue, shown, readings>>

\* ShowAndRun returns and with it main: nothing of the process goes on.
Close ==
  /\ gui = "open" /\ gui' = "closed"
  /\ UNCHANGED <<appearance, supply, changes, reader, half, queue, shown, readings>>

Ended == gui \in {"fatal", "closed"} /\ UNCHANGED vars

Read == ReadStatus \/ ReadDetails

Next == Start \/ Read \/ Update \/ SupplyChanges \/ Close \/ Ended

Spec == Init /\ [][Next]_vars

\* The ticker fires, sysfs answers and Fyne runs what is posted.
FairSpec == Spec /\ WF_vars(Read) /\ WF_vars(Update)

-----------------------------------------------------------------------------
(* Properties *)

\* How far the rounding of the averages so far may carry an estimate of time t.
Tolerance(t) == 15 * Rounding(t)

\* No average can come so near to the largest duration that its rounding makes
\* the conversion overflow to a negative one (only where it does so: amd64).
Unsaturated ==
  Overflow = MaxDuration \/ \A t \in readings : t + Tolerance(t) <= MaxDuration

\* The smoothed estimate lies, but for the rounding of float32, between the
\* smallest and the largest estimate read since the status shown last changed:
\* hours to empty never leak into the time to full, whatever errors, missing
\* batteries, overflows and reads across a change of the supply come in
\* between, and the rounding errors of many averages do not add up.
EstimateBounded ==
  Unsaturated /\ shown.ema # 0 =>
    /\ shown.ema > 0
    /\ \E least, most \in readings :
         /\ least - Tolerance(most) <= shown.ema
         /\ shown.ema <= most + Tolerance(most)

\* A window opens only for a file without a bad mode, action or colour, shows
\* every colour set in it without blanks around and lets the unset ones that
\* follow the accent follow the one it shows (palette.go:65-68).  A colour in
\* blanks is accepted as well, and painted black: nothing is said of it here.
ColoursHonoured ==
  gui = "open" =>
    /\ file.mode # "bad" /\ file.action # "bad"
    /\ \A r \in Roles :
         /\ file.ui[r].form # "bad"
         /\ file.ui[r].form = "plain" => pal[r] = file.ui[r].colour
         /\ file.ui[r].form = "unset" /\ r \in AccentDriven => pal[r] = pal["accent"]

\* What the display is to say of a supply that stays as it is, up to the
\* rounding of the average; no time where there is none to tell.
Shows(s) ==
  LET status == parseStatus(s.status)
      t == TimeLeft(s, status)
  IN
  CASE s.dir = "none" -> shown.note = "No battery" /\ shown.time = 0 /\ shown.track = 0
    [] s.dir # "none" /\ ~Readable(s) ->
         shown.note = "Error" /\ shown.time = 0 /\ shown.track = 0
    [] OTHER ->
         /\ shown.note = "%" /\ shown.level = Percentage(s)
         /\ shown.track = Clamp(Percentage(s), 0, 100)
         /\ shown.lastStatus = status /\ shown.rate = RateW(s)
         /\ IF t > 0 THEN shown.time \in (t - Tolerance(t))..(t + Tolerance(t))
                     ELSE shown.time = 0

\* A window that stays open comes to show the supply as it stays, with the
\* estimate converged, whatever was shown, queued or half read before.
DisplayCatchesUp ==
  \A s \in Supplies : <>[](gui = "open" /\ supply = s) => <>[]Shows(s)

=============================================================================
