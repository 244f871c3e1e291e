------------------------------ MODULE Battery ------------------------------
(***************************************************************************)
(* internal/battery/battery.go: what Read makes of the files of one power  *)
(* supply.  A file is its number, or Absent when it cannot be read or      *)
(* parsed; charges are in microampere hours and currents in microamperes,  *)
(* as in sysfs, energies and powers of the results in thousandths.         *)
(***************************************************************************)
EXTENDS Integers

CONSTANTS
  Absent,
  Hour,         \* time.Hour
  MaxDuration,  \* the largest time.Duration
  Overflow      \* what a float too large for a time.Duration converts to: the
                \* smallest int64 on amd64, the largest on arm64

ASSUME BatteryAssumption ==
  /\ Hour \in Nat \ {0} /\ MaxDuration \in Nat \ {0}
  /\ Overflow \in {-MaxDuration - 1, MaxDuration} /\ Absent \notin Int

\* The first power supply of type Battery and its files; "none" without one,
\* "unreadable" when the directory cannot be read.
Supply ==
  LET Numeric == Int \cup {Absent} IN
  [dir : {"battery", "none", "unreadable"},
   status : {"Charging", "Discharging", "Full", "Not charging", "Unknown", Absent},
   charge_now : Numeric, charge_full : Numeric, current_avg : Numeric,
   current_now : Numeric, voltage_now : Numeric, energy_now : Numeric,
   energy_full : Numeric, capacity : Numeric, power_now : Numeric,
   cycle_count : Numeric]

Status == {"charging", "discharging", "full", "not-charging", "unknown"}

\* The kernel's words for the status file.
parseStatus(s) ==
  CASE s = "Charging" -> "charging"
    [] s = "Discharging" -> "discharging"
    [] s = "Full" -> "full"
    [] s = "Not charging" -> "not-charging"
    [] OTHER -> "unknown"

Abs(x) == IF x < 0 THEN -x ELSE x

\* readFloatFile; callers take 0 for a file they cannot read.
Number(f, n) == IF f[n] = Absent THEN 0 ELSE f[n]

\* readRatio, rounded; 0 also stands for its errors: both mean the fallback.
Ratio(f, num, den) ==
  IF f[num] # Absent /\ Number(f, den) > 0
  THEN (200 * f[num] + f[den]) \div (2 * f[den])
  ELSE 0

\* Absent is readBatteryPercentage's error.
Percentage(f) ==
  IF Ratio(f, "charge_now", "charge_full") > 0
  THEN Ratio(f, "charge_now", "charge_full")
  ELSE IF Ratio(f, "energy_now", "energy_full") > 0
  THEN Ratio(f, "energy_now", "energy_full")
  ELSE f["capacity"]

\* The charge to run on or to fill up; 0 if it cannot be told.
Remaining(f, status) ==
  CASE status = "discharging" -> Number(f, "charge_now")
    [] status = "charging" /\ Absent \notin {f["charge_full"], f["charge_now"]} ->
         f["charge_full"] - f["charge_now"]
    [] OTHER -> 0

\* The average, or the present current where there is no average.
Current(f) ==
  IF Number(f, "current_avg") # 0 THEN Abs(f["current_avg"])
  ELSE Abs(Number(f, "current_now"))

\* time.Duration of a float.
Convert(d) == IF d <= MaxDuration THEN d ELSE Overflow

chargeDuration(charge, current) ==
  IF charge <= 0 \/ current <= 0 THEN 0 ELSE Convert((charge * Hour) \div current)

TimeLeft(f, status) == chargeDuration(Remaining(f, status), Current(f))

\* readVoltageV in millivolts: more than 25000 must be microvolts.
Millivolts(v) == IF v > 25000 THEN v \div 1000 ELSE v

Voltage(f) == Millivolts(Number(f, "voltage_now"))

\* Battery size; a voltage that is not positive is unknown.
SizeWh(f) ==
  IF f["energy_full"] # Absent THEN f["energy_full"] \div 1000
  ELSE IF Voltage(f) > 0
  THEN ((Number(f, "charge_full") \div 1000) * Voltage(f)) \div 1000
  ELSE 0

Cycles(f) == Number(f, "cycle_count")

RateW(f) ==
  LET current == IF f["current_avg"] # Absent THEN f["current_avg"]
                 ELSE Number(f, "current_now")
  IN  IF Number(f, "power_now") # 0 THEN Abs(f["power_now"]) \div 1000
      ELSE IF Voltage(f) > 0
      THEN ((Abs(current) \div 1000) * Voltage(f)) \div 1000
      ELSE 0

=============================================================================
