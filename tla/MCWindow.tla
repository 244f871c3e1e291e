------------------------------ MODULE MCWindow ------------------------------
(* Small instances of Window for TLC: coarse units for durations, config   *)
(* files that open a window and some that do not, and the supplies at      *)
(* which the reader takes another branch.                                  *)
EXTENDS Window

Unset == [form |-> "unset", colour |-> Black]
Plain(c) == [form |-> "plain", colour |-> c]

Plainly == [mode |-> "", action |-> "", ui |-> [r \in Roles |-> Unset]]

MCFiles == {
  [Plainly EXCEPT !.ui["accent"] = Plain(Light5),
                  !.ui["button_hover"] = Plain(Dark4), !.ui["title"] = Plain(Blue3),
                  !.ui["track"] = [form |-> "padded", colour |-> Blue3]],
  [Plainly EXCEPT !.ui["track"].form = "bad"],
  [Plainly EXCEPT !.mode = "bad"], [Plainly EXCEPT !.action = "bad"]}

Laptop == [
  dir |-> "battery", status |-> "Discharging",
  charge_now |-> 3000000, charge_full |-> 4000000, current_avg |-> -1500000,
  current_now |-> -2000000, voltage_now |-> 12000000, energy_now |-> Absent,
  energy_full |-> Absent, capacity |-> 74, power_now |-> Absent, cycle_count |-> 42]

MCSupplies == {
  Laptop,
  [Laptop EXCEPT !.current_avg = Absent],
  \* on the mains: an hour and a half to full
  [Laptop EXCEPT !.status = "Charging", !.current_avg = 666666],
  \* next to no current: the duration overflows
  [Laptop EXCEPT !.status = "Charging", !.current_avg = 1, !.charge_now = 1000000],
  \* over the brim, in energy units
  [Laptop EXCEPT !.status = "Full", !.charge_now = Absent, !.energy_now = 10400000,
                 !.energy_full = 10000000, !.power_now = 0],
  \* drained: zero charge falls back to a capacity that cannot be read
  [Laptop EXCEPT !.charge_now = 0, !.capacity = Absent],
  [Laptop EXCEPT !.dir = "none"]}

=============================================================================
