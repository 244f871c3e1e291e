---------------------------- MODULE WindowProofs ----------------------------
(***************************************************************************)
(* Proofs about Window for every config file, every power supply, and any  *)
(* number of readings and changes: what the estimate is bounded by, and    *)
(* the user's colours.                                                     *)
(***************************************************************************)
EXTENDS Window, TLAPS

Duration == {d \in Int : d <= MaxDuration}

Detail == [kind : {"battery"}, level : Int, status : Status, time : Duration,
           size : Int, cycles : Int, rate : Int]
Posted == [kind : {"error", "none"}] \cup Detail

-----------------------------------------------------------------------------
(* Appearance *)

\* Merging the defaults touches neither the colours nor their validity.
LEMMA MergeKeepsColours ==
  ASSUME NEW config \in File
  PROVE  Merge(config).ui = config.ui
BY DEF Merge, File

\* A file that opens a window has no bad mode, action or colour; every colour it
\* sets without blanks around is shown, and the unset ones that follow the
\* accent follow the one shown.
THEOREM UserColourWins ==
  ASSUME NEW config \in File, NEW dark \in BOOLEAN, Validate(Merge(config))
  PROVE  LET palette == BuildPalette(Merge(config), dark) IN
         /\ config.mode # "bad" /\ config.action # "bad"
         /\ \A r \in Roles :
              /\ config.ui[r].form # "bad"
              /\ config.ui[r].form = "plain" => palette[r] = config.ui[r].colour
              /\ config.ui[r].form = "unset" /\ r \in AccentDriven
                   => palette[r] = palette["accent"]
<1> DEFINE cfg == Merge(config)
<1>1. cfg.ui = config.ui
  BY MergeKeepsColours
<1>2. config.mode # "bad" /\ config.action # "bad"
  BY DEF Validate, Merge, File
<1>3. ASSUME NEW r \in Roles
      PROVE  /\ config.ui[r].form # "bad"
             /\ config.ui[r].form = "plain" => BuildPalette(cfg, dark)[r] = config.ui[r].colour
             /\ config.ui[r].form = "unset" /\ r \in AccentDriven
                  => BuildPalette(cfg, dark)[r] = BuildPalette(cfg, dark)["accent"]
  <2>1. "accent" \in Roles /\ (r \in AccentDriven => r \notin Neutral /\ r # "accent")
    BY DEF Roles, AccentDriven, Neutral
  <2>2. config.ui[r].form # "bad"
    BY <1>1 DEF Validate, isValidHexColor
  <2>3. config.ui[r].form = "plain" => BuildPalette(cfg, dark)[r] = config.ui[r].colour
    BY <1>1, <2>1 DEF BuildPalette, pick, parseHexColor
  <2>4. config.ui[r].form = "unset" /\ r \in AccentDriven
          => BuildPalette(cfg, dark)[r] = BuildPalette(cfg, dark)["accent"]
    BY <1>1, <2>1 DEF BuildPalette, pick
  <2> QED
    BY <2>2, <2>3, <2>4
<1> QED
  BY <1>2, <1>3

Apart(c, d) ==
  \/ Luminance(c) - Luminance(d) >= 115000
  \/ Luminance(d) - Luminance(c) >= 115000

\* The text onColor picks differs from its background by 45 % of the scale at
\* least, whatever the background (palette.go:130).
THEOREM TextReadable ==
  ASSUME NEW bg \in Rgb
  PROVE  Apart(onColor(bg), bg)
<1>1. Luminance(bg) \in Int
  <2>1. bg[1] \in Int /\ bg[2] \in Int /\ bg[3] \in Int
    BY DEF Rgb
  <2> QED
    BY <2>1 DEF Luminance
<1>2. Luminance(White) = 255000 /\ Luminance(Black) = 0
  BY DEF Luminance, White, Black
<1>3. CASE Luminance(bg) < 140000
  BY <1>1, <1>2, <1>3 DEF Apart, onColor
<1>4. CASE ~(Luminance(bg) < 140000)
  BY <1>1, <1>2, <1>4 DEF Apart, onColor
<1> QED
  BY <1>3, <1>4

\* The text of a selected, hovered or focused button is readable under every
\* palette; that of a plain button is the user's choice.
THEOREM ButtonsReadable ==
  ASSUME NEW palette \in [Roles -> Rgb], NEW active \in BOOLEAN, NEW hovered \in BOOLEAN,
         active \/ hovered
  PROVE  Apart(Style(palette, active, hovered).text, Style(palette, active, hovered).background)
<1>1. palette["button_active"] \in Rgb /\ palette["button_hover"] \in Rgb
  BY DEF Roles, AccentDriven
<1>2. CASE active
  BY <1>1, <1>2, TextReadable DEF Style
<1>3. CASE ~active /\ hovered
  BY <1>1, <1>3, TextReadable DEF Style
<1> QED
  BY <1>2, <1>3

\* The built-in palettes keep what palette.go:91 and 101 say of them: values
\* stand out more than labels, and titles most, on either background.
THEOREM EmphasisOrdered ==
  /\ Luminance(Light["title"]) < Luminance(Light["category"])
  /\ Luminance(Light["category"]) < Luminance(Light["value"])
  /\ Luminance(Light["value"]) < Luminance(Light["label"])
  /\ Luminance(Light["label"]) < Luminance(Light["background"])
  /\ Luminance(Dark["background"]) < Luminance(Dark["label"])
  /\ Luminance(Dark["label"]) < Luminance(Dark["value"])
  /\ Luminance(Dark["value"]) < Luminance(Dark["category"])
  /\ Luminance(Dark["category"]) < Luminance(Dark["title"])
BY DEF Luminance, Light, Dark, Light2, Light3, Light4, Light5, Dark1, Dark2, Dark3, Dark4

-----------------------------------------------------------------------------
(* Battery *)

\* The two units drivers use for one voltage give one value (battery.go:208-210).
THEOREM VoltageUnitsAgree ==
  ASSUME NEW mv \in 26..25000
  PROVE  Millivolts(mv) = mv /\ Millivolts(1000 * mv) = mv
BY DEF Millivolts

Numeric == {"charge_now", "charge_full", "current_avg", "current_now", "voltage_now",
            "energy_now", "energy_full", "capacity", "power_now", "cycle_count"}

\* A file that can be read holds a number, the others count as 0.
LEMMA FilesTyped ==
  ASSUME NEW s \in Supply, NEW n \in Numeric
  PROVE  s[n] \in Int \cup {Absent} /\ Number(s, n) \in Int
<1>1. s[n] \in Int \cup {Absent}
  BY DEF Supply, Numeric
<1> QED
  BY <1>1 DEF Number

LEMMA RatioTyped ==
  ASSUME NEW s \in Supply, NEW num \in Numeric, NEW den \in Numeric
  PROVE  Ratio(s, num, den) \in Int
<1>1. s[num] \in Int \cup {Absent} /\ s[den] \in Int \cup {Absent}
  BY FilesTyped
<1>2. CASE s[num] # Absent /\ Number(s, den) > 0
  <2>1. s[num] \in Int /\ s[den] \in Int /\ s[den] > 0
    BY <1>1, <1>2 DEF Number
  <2>2. (200 * s[num] + s[den]) \div (2 * s[den]) \in Int
    BY <2>1
  <2> QED
    BY <1>2, <2>2 DEF Ratio
<1>3. CASE ~(s[num] # Absent /\ Number(s, den) > 0)
  BY <1>3 DEF Ratio
<1> QED
  BY <1>2, <1>3

LEMMA LevelTyped ==
  ASSUME NEW s \in Supply, Percentage(s) # Absent
  PROVE  Percentage(s) \in Int
<1>1. "charge_now" \in Numeric /\ "charge_full" \in Numeric /\ "energy_now" \in Numeric
      /\ "energy_full" \in Numeric /\ "capacity" \in Numeric
  BY DEF Numeric
<1>2. Ratio(s, "charge_now", "charge_full") \in Int /\ Ratio(s, "energy_now", "energy_full") \in Int
  BY <1>1, RatioTyped
<1>3. s["capacity"] \in Int \cup {Absent}
  BY <1>1, FilesTyped
<1> QED
  BY <1>2, <1>3 DEF Percentage

LEMMA StatusTyped == ASSUME NEW w PROVE parseStatus(w) \in Status
BY DEF parseStatus, Status

LEMMA TimeTyped ==
  ASSUME NEW s \in Supply, NEW status \in Status
  PROVE  TimeLeft(s, status) \in Duration
<1>1. Remaining(s, status) \in Int
  <2>1. Number(s, "charge_now") \in Int
    BY FilesTyped DEF Numeric
  <2>2. s["charge_full"] \in Int \cup {Absent} /\ s["charge_now"] \in Int \cup {Absent}
    BY FilesTyped DEF Numeric
  <2> QED
    BY <2>1, <2>2 DEF Remaining
<1>2. Current(s) \in Int
  <2>1. Number(s, "current_now") \in Int
    BY FilesTyped DEF Numeric
  <2>2. Number(s, "current_avg") # 0 => s["current_avg"] \in Int
    BY FilesTyped DEF Numeric, Number
  <2> QED
    BY <2>1, <2>2 DEF Current, Abs
<1>3. ASSUME NEW c \in Int, NEW i \in Int, i > 0 PROVE Convert((c * Hour) \div i) \in Duration
  <2>1. c * Hour \in Int
    BY BatteryAssumption
  <2>2. (c * Hour) \div i \in Int
    BY <2>1, <1>3
  <2> QED
    BY <2>2, BatteryAssumption DEF Convert, Duration
<1>4. 0 \in Duration
  BY BatteryAssumption DEF Duration
<1> QED
  BY <1>1, <1>2, <1>3, <1>4 DEF TimeLeft, chargeDuration

LEMMA DetailsTyped ==
  ASSUME NEW s \in Supply
  PROVE  SizeWh(s) \in Int /\ Cycles(s) \in Int /\ RateW(s) \in Int
<1>1. Voltage(s) \in Int
  BY FilesTyped DEF Voltage, Millivolts, Numeric
<1>2. \A x \in Int : Abs(x) \in Int
  BY DEF Abs
<1>3. SizeWh(s) \in Int
  BY <1>1, FilesTyped DEF SizeWh, Numeric
<1>4. Cycles(s) \in Int
  BY FilesTyped DEF Cycles, Numeric
<1>5. RateW(s) \in Int
  <2>1. Number(s, "power_now") # 0 => s["power_now"] \in Int
    BY FilesTyped DEF Numeric, Number
  <2>2. s["current_avg"] \in Int \cup {Absent} /\ Number(s, "current_now") \in Int
    BY FilesTyped DEF Numeric
  <2> QED
    BY <1>1, <1>2, <2>1, <2>2 DEF RateW
<1> QED
  BY <1>3, <1>4, <1>5

-----------------------------------------------------------------------------
(* The average *)

\* A tolerance is a positive number that grows with the time.
LEMMA ToleranceGrows ==
  ASSUME NEW t \in Nat, NEW u \in Nat, t <= u
  PROVE  Tolerance(t) \in Nat /\ Tolerance(t) <= Tolerance(u)
BY SMT DEF Tolerance, Rounding, Roundoff

\* One average of values within the tolerance, rounding included, stays within
\* it: four fifths of the old error and one rounding make less than a whole.
LEMMA AverageWithin ==
  ASSUME NEW least \in Nat, NEW most \in Nat,
         NEW value \in Nat, NEW new \in Nat, value > 0, new > 0,
         least <= new, new <= most,
         least - Tolerance(most) <= value, value <= most + Tolerance(most),
         NEW x \in Int,
         LET exact == (new + 4 * value) \div 5
             off == Rounding((new + 4 * Abs(value)) \div 5)
         IN  x \in (exact - off)..(exact + off)
  PROVE  0 <= x /\ least - Tolerance(most) <= x /\ x <= most + Tolerance(most)
<1> DEFINE exact == (new + 4 * value) \div 5
           off == Rounding(exact)
           q == Rounding(most)
<1>1. q \in Nat /\ q >= 1 /\ most < 2097152 * q /\ Tolerance(most) = 15 * q
  BY SMT DEF Rounding, Roundoff, Tolerance
<1>2. exact \in Nat /\ 5 * exact <= new + 4 * value /\ new + 4 * value <= 5 * exact + 4
  BY SMT
<1>3. off \in Nat /\ off >= 1 /\ 2097152 * (off - 1) <= exact
  BY <1>2, SMT DEF Rounding, Roundoff
<1>4. exact - off <= x /\ x <= exact + off
  BY SMT DEF Abs
<1> HIDE DEF exact, off, q
<1>5. exact <= most + 12 * q /\ least - 12 * q <= exact /\ exact >= 1
  BY <1>1, <1>2, SMT
<1>6. off <= 3 * q
  BY <1>1, <1>2, <1>3, <1>5, SMT
<1>7. off <= exact
  BY <1>2, <1>3, <1>5, SMT
<1> QED
  BY <1>1, <1>2, <1>3, <1>4, <1>5, <1>6, <1>7, SMT

\* What an average may be.
LEMMA SmoothPick ==
  ASSUME NEW value \in Int, value # 0, NEW new \in Nat, NEW ema \in Smooth(value, new)
  PROVE  \E x \in Int :
           /\ ema = Convert(x)
           /\ LET exact == (new + 4 * value) \div 5
                  off == Rounding((new + 4 * Abs(value)) \div 5)
              IN  x \in (exact - off)..(exact + off)
BY DEF Smooth

LEMMA SmoothTyped ==
  ASSUME NEW value \in Int, NEW new \in Int, new > 0, NEW ema \in Smooth(value, new)
  PROVE  ema \in Int
<1>1. CASE value = 0
  BY <1>1 DEF Smooth
<1>2. CASE value # 0
  <2>1. PICK x \in Int : ema = Convert(x)
    BY <1>2, SmoothPick
  <2> QED
    BY <2>1, BatteryAssumption DEF Convert
<1> QED
  BY <1>1, <1>2

-----------------------------------------------------------------------------
(* The inductive invariant *)

ReaderTyped ==
  /\ supply \in Supply /\ half \in [level : Int, status : Status]
  /\ queue \in Seq(Posted)

EstimateTyped ==
  /\ "ema" \in DOMAIN shown /\ shown.ema \in Int
  /\ readings \subseteq {t \in Nat : 0 < t /\ t <= MaxDuration}

\* The window is painted with what BuildPalette made of a valid file.
Painted ==
  /\ file \in File /\ sysDark \in BOOLEAN
  /\ gui = "open" => Validate(Merge(file)) /\ pal = BuildPalette(Merge(file), sysDark)

IInv == ReaderTyped /\ EstimateTyped /\ EstimateBounded /\ Painted

LEMMA InitIInv == Init => IInv
<1> SUFFICES ASSUME Init PROVE IInv
  OBVIOUS
<1>1. ReaderTyped
  <2>1. supply \in Supply
    BY WindowAssumption DEF Init
  <2>2. half = NoHalf /\ queue = <<>>
    BY DEF Init
  <2>3. NoHalf \in [level : Int, status : Status] /\ <<>> \in Seq(Posted)
    BY DEF NoHalf, Status
  <2> QED
    BY <2>1, <2>2, <2>3 DEF ReaderTyped
<1>2. EstimateTyped
  <2>1. shown.ema = 0 /\ "ema" \in DOMAIN shown /\ readings = {}
    BY DEF Init
  <2> QED
    BY <2>1 DEF EstimateTyped
<1>3. EstimateBounded
  BY DEF Init, EstimateBounded
<1>4. Painted
  BY WindowAssumption DEF Init, Painted
<1> QED
  BY <1>1, <1>2, <1>3, <1>4 DEF IInv

\* What the display does with the next update keeps the estimate bounded.
LEMMA UpdateBounded == IInv /\ Update => EstimateTyped' /\ EstimateBounded'
<1> SUFFICES ASSUME IInv, Update PROVE EstimateTyped' /\ EstimateBounded'
  OBVIOUS
<1> DEFINE bat == Head(queue)
<1>1. bat \in Posted
  <2>1. queue \in Seq(Posted) /\ queue # <<>>
    BY DEF IInv, ReaderTyped, Update
  <2> QED
    BY <2>1
<1>2. CASE bat.kind \in {"error", "none"}
  <2>1. \A note \in {"Error", "No battery"} :
          "ema" \in DOMAIN Cleared(note) /\ Cleared(note).ema = shown.ema
    BY DEF IInv, EstimateTyped, Cleared
  <2>2. UNCHANGED readings /\ shown' \in {Cleared("Error"), Cleared("No battery")}
    BY <1>2 DEF Update
  <2> QED
    BY <2>1, <2>2 DEF IInv, EstimateTyped, EstimateBounded, Unsaturated
<1>3. CASE bat.kind \notin {"error", "none"}
  <2> DEFINE kept == IF StatusChanged(bat) THEN 0 ELSE shown.ema
             last == IF StatusChanged(bat) THEN {} ELSE readings
  <2>1. bat.time \in Int /\ bat.time <= MaxDuration
    BY <1>1, <1>3 DEF Posted, Detail, Duration
  <2>2. PICK ema \in Estimates(bat) : shown' = Updated(bat, ema)
    BY <1>3 DEF Update
  <2>3. readings' = last \cup (IF bat.time > 0 THEN {bat.time} ELSE {})
    BY <1>3 DEF Update, StatusChanged
  <2>4. "ema" \in DOMAIN shown' /\ shown'.ema = ema
    BY <2>2 DEF Updated
  <2>5. kept \in Int /\ last \subseteq {t \in Nat : 0 < t /\ t <= MaxDuration}
    <3>1. shown.ema \in Int /\ readings \subseteq {t \in Nat : 0 < t /\ t <= MaxDuration}
      BY DEF IInv, EstimateTyped
    <3>2. kept \in {0, shown.ema} /\ (last = {} \/ last = readings)
      OBVIOUS
    <3> HIDE DEF kept, last
    <3>3. kept \in Int
      BY <3>1, <3>2
    <3>4. last \subseteq {t \in Nat : 0 < t /\ t <= MaxDuration}
      BY <3>1, <3>2
    <3> QED
      BY <3>3, <3>4
  <2>6. readings' \subseteq {t \in Nat : 0 < t /\ t <= MaxDuration} /\ last \subseteq readings'
    BY <2>1, <2>3, <2>5
  <2>7. ema \in IF bat.time > 0 THEN Smooth(kept, bat.time) ELSE {kept}
    BY <2>2 DEF Estimates
  <2>8. ASSUME Unsaturated', kept # 0
        PROVE  /\ kept > 0
               /\ \E least, most \in last :
                    least - Tolerance(most) <= kept /\ kept <= most + Tolerance(most)
    <3>1. ~StatusChanged(bat) /\ kept = shown.ema /\ last = readings
      BY <2>8
    <3>2. Unsaturated
      BY <2>6, <2>8, <3>1 DEF Unsaturated
    <3> QED
      BY <2>8, <3>1, <3>2 DEF IInv, EstimateBounded
  <2> HIDE DEF kept, last
  <2>9. ema \in Int
    BY <2>1, <2>5, <2>7, SmoothTyped
  <2>10. CASE ~(bat.time > 0)
    <3>1. ema = kept
      BY <2>7, <2>10
    <3> QED
      BY <2>4, <2>6, <2>8, <2>9, <3>1 DEF EstimateTyped, EstimateBounded
  <2>11. CASE bat.time > 0 /\ kept = 0
    <3>1. ema = bat.time
      BY <2>7, <2>11 DEF Smooth
    <3>2. bat.time \in readings' /\ bat.time \in Nat
      BY <2>1, <2>3, <2>11
    <3>3. Tolerance(bat.time) \in Nat
      BY <3>2, ToleranceGrows
    <3> QED
      BY <2>4, <2>6, <2>9, <2>11, <3>1, <3>2, <3>3 DEF EstimateTyped, EstimateBounded
  <2>12. CASE bat.time > 0 /\ kept # 0
    <3> SUFFICES ASSUME Unsaturated', ema # 0
                 PROVE  /\ ema > 0
                        /\ \E least, most \in readings' :
                             least - Tolerance(most) <= ema /\ ema <= most + Tolerance(most)
      BY <2>4, <2>6, <2>9 DEF EstimateTyped, EstimateBounded
    <3>1. kept > 0
      BY <2>8, <2>12
    <3>2. PICK old \in last, older \in last :
            old - Tolerance(older) <= kept /\ kept <= older + Tolerance(older)
      BY <2>8, <2>12
    <3> DEFINE least == IF old <= bat.time THEN old ELSE bat.time
               most == IF older <= bat.time THEN bat.time ELSE older
    <3>3. old \in Nat /\ older \in Nat /\ older <= MaxDuration /\ bat.time \in Nat
          /\ old \in readings' /\ older \in readings' /\ bat.time \in readings'
      BY <2>1, <2>3, <2>5, <2>6, <2>12
    <3>4. /\ least \in Nat /\ most \in Nat /\ least \in readings' /\ most \in readings'
          /\ least <= bat.time /\ bat.time <= most /\ least <= old /\ older <= most
          /\ most <= MaxDuration
      BY <2>1, <3>3
    <3> HIDE DEF least, most
    <3>5. Tolerance(older) \in Nat /\ Tolerance(most) \in Nat /\ Tolerance(older) <= Tolerance(most)
      BY <3>3, <3>4, ToleranceGrows
    <3>6. least - Tolerance(most) <= kept /\ kept <= most + Tolerance(most)
      BY <2>5, <3>2, <3>3, <3>4, <3>5
    <3>7. PICK x \in Int :
            /\ ema = Convert(x)
            /\ LET exact == (bat.time + 4 * kept) \div 5
                   off == Rounding((bat.time + 4 * Abs(kept)) \div 5)
               IN  x \in (exact - off)..(exact + off)
      BY <2>5, <2>7, <2>12, SmoothPick, <3>3
    <3>8. 0 <= x /\ least - Tolerance(most) <= x /\ x <= most + Tolerance(most)
      BY <2>5, <2>12, <3>1, <3>3, <3>4, <3>6, <3>7, AverageWithin
    <3>9. Overflow = MaxDuration \/ most + Tolerance(most) <= MaxDuration
      BY <3>4 DEF Unsaturated
    <3>10. ema = x \/ (ema = MaxDuration /\ MaxDuration < x)
      BY <3>4, <3>5, <3>7, <3>8, <3>9, BatteryAssumption DEF Convert
    <3>11. ema >= 0 /\ least - Tolerance(most) <= ema /\ ema <= most + Tolerance(most)
      BY <3>3, <3>4, <3>5, <3>8, <3>10, BatteryAssumption
    <3> QED
      BY <2>9, <3>4, <3>11
  <2> QED
    BY <2>10, <2>11, <2>12
<1> QED
  BY <1>2, <1>3

LEMMA StepIInv == IInv /\ [Next]_vars => IInv'
<1> SUFFICES ASSUME IInv, [Next]_vars PROVE IInv'
  OBVIOUS
<1> USE DEF IInv
<1>1. CASE Start
  BY <1>1 DEF Start, ReaderTyped, EstimateTyped, EstimateBounded, Unsaturated, Painted
<1>2. CASE ReadStatus
  <2>1. queue' \in Seq(Posted)
    BY <1>2 DEF ReadStatus, Post, ReaderTyped, Posted
  <2>2. half' \in [level : Int, status : Status]
    BY <1>2, LevelTyped, StatusTyped DEF ReadStatus, Readable, ReaderTyped
  <2> QED
    BY <1>2, <2>1, <2>2
       DEF ReadStatus, appearance, ReaderTyped, EstimateTyped, EstimateBounded, Unsaturated, Painted
<1>3. CASE ReadDetails
  <2>1. queue' = Append(queue,
          [kind |-> "battery", level |-> half.level, status |-> half.status,
           time |-> TimeLeft(supply, half.status), size |-> SizeWh(supply),
           cycles |-> Cycles(supply), rate |-> RateW(supply)])
    BY <1>3 DEF ReadDetails, Post
  <2>2. half.level \in Int /\ half.status \in Status
    BY DEF ReaderTyped
  <2>3. TimeLeft(supply, half.status) \in Duration
    BY <2>2, TimeTyped DEF ReaderTyped
  <2>4. SizeWh(supply) \in Int /\ Cycles(supply) \in Int /\ RateW(supply) \in Int
    BY DetailsTyped DEF ReaderTyped
  <2>5. queue' \in Seq(Posted)
    BY <2>1, <2>2, <2>3, <2>4 DEF ReaderTyped, Posted, Detail
  <2>6. half' \in [level : Int, status : Status]
    BY <1>3 DEF ReadDetails, NoHalf, Status
  <2> QED
    BY <1>3, <2>5, <2>6
       DEF ReadDetails, appearance, ReaderTyped, EstimateTyped, EstimateBounded, Unsaturated, Painted
<1>4. CASE Update
  <2>1. EstimateTyped' /\ EstimateBounded'
    BY <1>4, UpdateBounded
  <2>2. queue' \in Seq(Posted)
    <3>1. queue \in Seq(Posted) /\ queue # <<>> /\ queue' = Tail(queue)
      BY <1>4 DEF Update, ReaderTyped
    <3> QED
      BY <3>1
  <2> QED
    BY <1>4, <2>1, <2>2 DEF Update, appearance, ReaderTyped, Painted
<1>5. CASE SupplyChanges
  BY <1>5, WindowAssumption
     DEF SupplyChanges, appearance, ReaderTyped, EstimateTyped, EstimateBounded, Unsaturated, Painted
<1>6. CASE Close
  BY <1>6 DEF Close, appearance, ReaderTyped, EstimateTyped, EstimateBounded, Unsaturated, Painted
<1>7. CASE UNCHANGED vars
  BY <1>7 DEF vars, appearance, ReaderTyped, EstimateTyped, EstimateBounded, Unsaturated, Painted
<1> QED
  BY <1>1, <1>2, <1>3, <1>4, <1>5, <1>6, <1>7 DEF Next, Read, Ended

LEMMA InvariantIInv == Spec => []IInv
BY InitIInv, StepIInv, PTL DEF Spec

\* The estimate shown never leaves, by more than the rounding of float32, the
\* range of what was read since the status last changed, however many averages
\* were rounded.
THEOREM EstimateStaysBounded == Spec => []EstimateBounded
<1>1. IInv => EstimateBounded
  BY DEF IInv
<1> QED
  BY <1>1, InvariantIInv, PTL

\* A window opens for no file with a bad value, and shows every colour the file
\* sets without blanks around.
THEOREM ColoursAsConfigured == Spec => []ColoursHonoured
<1>1. IInv => ColoursHonoured
  BY UserColourWins DEF IInv, Painted, ColoursHonoured
<1> QED
  BY <1>1, InvariantIInv, PTL

=============================================================================
