----------------------------- MODULE Appearance -----------------------------
(***************************************************************************)
(* From config.yaml to colours: internal/config/config.go (defaults, merge *)
(* and validation), ui/palette.go, parseHexColor of ui/utils.go, the theme *)
(* of ui/theme.go and the style of ui/toggle_button_widget.go.             *)
(*                                                                         *)
(* A colour in the file is told by its form: "unset" (empty), "plain" (six *)
(* hex digits, # or not), "padded" (the same in blanks) or "bad".          *)
(***************************************************************************)
EXTENDS Integers

Rgb == (0..255) \X (0..255) \X (0..255)
Black == <<0, 0, 0>>
White == <<255, 255, 255>>

AccentDriven == {"icon", "button_border", "button_hover", "button_active"}
Neutral == {"background", "track", "label", "value", "category", "title",
            "button", "button_label"}
Roles == {"accent"} \cup AccentDriven \cup Neutral

Mode == {"auto", "light", "dark"}
Setting == [form : {"unset", "plain", "padded", "bad"}, colour : Rgb]

\* What yaml.Unmarshal makes of config.yaml.
File == [mode : Mode \cup {"", "bad"}, action : {"", "lock", "sleep", "nothing", "bad"},
         ui : [Roles -> Setting]]

\* merge over Default: an empty field keeps the default.
Merge(file) ==
  [file EXCEPT !.mode = IF @ = "" THEN "auto" ELSE @,
               !.action = IF @ = "" THEN "lock" ELSE @]

isValidHexColor(v) == v.form \in {"plain", "padded"}

Validate(cfg) ==
  /\ cfg.mode \in {"", "auto", "light", "dark"}
  /\ \A r \in Roles : cfg.ui[r].form # "unset" => isValidHexColor(cfg.ui[r])
  /\ cfg.action \in {"", "lock", "sleep", "nothing"}

\* parseHexColor does not trim: anything but six digits is black.
parseHexColor(v) == IF v.form = "plain" THEN v.colour ELSE Black

-----------------------------------------------------------------------------
(* The palette *)

Blue3 == <<53, 132, 228>>
Light2 == <<246, 245, 244>>
Light3 == <<222, 221, 218>>
Light4 == <<192, 191, 188>>
Light5 == <<154, 153, 150>>
Dark1 == <<119, 118, 123>>
Dark2 == <<94, 92, 100>>
Dark3 == <<61, 56, 70>>
Dark4 == <<36, 31, 49>>

Light == [background |-> Light2, track |-> Light3, label |-> Dark1, value |-> Dark2,
          category |-> Dark3, title |-> Dark4, button |-> Light3, button_label |-> Dark2]

Dark == [background |-> Dark3, track |-> Dark2, label |-> Light5, value |-> Light4,
         category |-> Light3, title |-> Light2, button |-> Dark2, button_label |-> Light4]

pick(v, def) == IF v.form = "unset" THEN def ELSE parseHexColor(v)

\* A thousand times the luminance of palette.go.
Luminance(c) == 299 * c[1] + 587 * c[2] + 114 * c[3]

onColor(bg) == IF Luminance(bg) < 140000 THEN White ELSE Black

PaletteMode(cfg, sysDark) ==
  IF cfg.mode \in {"light", "dark"} THEN cfg.mode
  ELSE IF sysDark THEN "dark" ELSE "light"

\* Mutant: the defaults follow the built-in accent.
BugFixedAccent(cfg, sysDark) ==
  LET default(r) == IF r \notin Neutral THEN Blue3
                    ELSE IF PaletteMode(cfg, sysDark) = "light" THEN Light[r] ELSE Dark[r]
  IN  [r \in Roles |-> pick(cfg.ui[r], default(r))]

BuildPalette(cfg, sysDark) ==
  LET accent == pick(cfg.ui["accent"], Blue3)
      default(r) == IF r \notin Neutral THEN accent
                    ELSE IF PaletteMode(cfg, sysDark) = "light" THEN Light[r] ELSE Dark[r]
  IN  [r \in Roles |-> IF r = "accent" THEN accent ELSE pick(cfg.ui[r], default(r))]

\* Text and background of a button; hover and focus look the same.
Style(pal, active, hovered) ==
  CASE active -> [background |-> pal["button_active"], text |-> onColor(pal["button_active"])]
    [] ~active /\ hovered ->
         [background |-> pal["button_hover"], text |-> onColor(pal["button_hover"])]
    [] OTHER -> [background |-> pal["button"], text |-> pal["button_label"]]

=============================================================================
