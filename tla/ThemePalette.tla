---------------------------- MODULE ThemePalette ----------------------------
(***************************************************************************)
(* How the colours of the window follow from the theme settings            *)
(* (component/theme): a palette of the theme or of a chosen accent, colours*)
(* derived from it, overrides on top.  A colour is its lightness in        *)
(* thousandths, which is what the derivations compare and shift; hue,      *)
(* saturation and the components that repeat a colour are left out.        *)
(***************************************************************************)
EXTENDS Integers

Unset == -1          \* an override that is None

Within(low, high, l) == IF l < low THEN low ELSE IF l > high THEN high ELSE l
Distance(a, b) == IF a < b THEN b - a ELSE a - b

\* The lightness of an RGB colour, from its largest and smallest channel.
Lightness(largest, smallest) == (1000 * (largest + smallest)) \div 510

Shifted(l, delta) == Within(20, 980, l + delta)
Dark(l) == l < 500
DefaultForeground(dark) == IF dark THEN 955 ELSE 67
MutedForeground(dark) == IF dark THEN 698 ELSE 476

DerivedRegion(background) == Shifted(background, IF Dark(background) THEN 20 ELSE -20)
DerivedBorder(background) == Shifted(background, IF Dark(background) THEN 120 ELSE -120)
DerivedSelected(background, accent) ==
    IF Dark(background) THEN Shifted(background, 180)
    ELSE IF accent > 700 THEN accent ELSE 930

\* Mutant: the hover colour keeps its own lightness, however close.
DerivedHoverAlone(soft, selected) == Shifted(soft, -50)

DerivedHover(soft, selected) ==
    LET hover == Shifted(soft, -50) IN
    IF Distance(hover, selected) < 80 THEN Within(20, 980, selected - 80) ELSE hover

Themes == {"RoseBerry", "DefaultTheme", "LightBlue", "LightOrange", "LightPurple",
           "LightPink", "Custom"}

Tokens(accent, soft, border, foreground, muted) ==
    [accent |-> accent, soft |-> soft, background |-> soft, border |-> border,
     foreground |-> foreground, muted |-> muted]

BuiltIn == [
    RoseBerry |-> Tokens(Lightness(255, 58), Lightness(255, 204), Lightness(255, 135),
                         Lightness(138, 0), Lightness(219, 0)),
    LightBlue |-> Tokens(Lightness(255, 117), Lightness(252, 214), Lightness(252, 169),
                         Lightness(164, 0), Lightness(255, 5)),
    LightOrange |-> Tokens(Lightness(255, 117), Lightness(252, 214), Lightness(252, 169),
                           Lightness(164, 0), Lightness(255, 5)),
    LightPurple |-> Tokens(Lightness(255, 54), Lightness(250, 195), Lightness(251, 130),
                           Lightness(136, 0), Lightness(216, 0)),
    LightPink |-> Tokens(Lightness(255, 64), Lightness(251, 198), Lightness(251, 136),
                         Lightness(140, 0), Lightness(223, 0)),
    DefaultTheme |-> [accent |-> Lightness(209, 34), soft |-> Lightness(255, 234),
                      background |-> 1000, border |-> Lightness(250, 175),
                      foreground |-> Lightness(93, 22), muted |-> Lightness(147, 89)]]

CustomPalette(accent) ==
    [accent |-> accent, soft |-> Shifted(accent, IF Dark(accent) THEN 110 ELSE -80),
     background |-> accent, border |-> DerivedBorder(accent),
     foreground |-> DefaultForeground(Dark(accent)),
     muted |-> MutedForeground(Dark(accent))]

PaletteOf(s) == IF s.theme = "Custom" THEN CustomPalette(s.accent) ELSE BuiltIn[s.theme]

Or(override, derived) == IF override = Unset THEN derived ELSE override
Overridden(s) == \E f \in {"font", "background", "hover", "selected"} : s[f] # Unset
HasWallpaper(s) == s.wallpaper /\ s.opacity > 0

\* Without any choice the default theme has its own soft surfaces.
SoftDefault(s) == s.theme = "DefaultTheme" /\ ~Overridden(s) /\ ~HasWallpaper(s)

\* Mutant: a background of the user's own keeps the text colour of the theme.
ForegroundOfTheme(s, background) == Or(s.font, PaletteOf(s).foreground)

ForegroundOn(s, background) ==
    Or(s.font, IF s.theme = "Custom" \/ s.background # Unset
               THEN DefaultForeground(Dark(background)) ELSE PaletteOf(s).foreground)

\* The component theme that apply_theme writes.
Applied(s) ==
    LET palette == PaletteOf(s)
        background == Or(s.background, palette.background)
        selected == Or(s.selected, DerivedSelected(background, palette.accent))
        hover == Or(s.hover, DerivedHover(palette.soft, selected))
        derived ==
          [background |-> background, foreground |-> ForegroundOn(s, background),
           muted |-> IF s.theme = "Custom" \/ s.font # Unset \/ s.background # Unset
                     THEN MutedForeground(Dark(background)) ELSE palette.muted,
           region |-> DerivedRegion(background),
           border |-> IF s.background = Unset THEN palette.border
                      ELSE DerivedBorder(s.background),
           selected |-> selected, hover |-> hover]
    IN IF SoftDefault(s)
       THEN [derived EXCEPT !.region = Lightness(255, 234), !.hover = Lightness(253, 220),
                            !.selected = Lightness(255, 182)]
       ELSE derived

\* What the terminal shows: behind a wallpaper its background is transparent
\* black; a selection too close to the background is replaced.
WorkspaceBackground(s, applied) == IF HasWallpaper(s) THEN 0 ELSE applied.background

\* Mutant: a chosen selection colour is taken as it is.
TerminalSelectionChosen(s, applied) ==
    LET background == WorkspaceBackground(s, applied)
    IN IF s.selected # Unset \/ Distance(applied.selected, background) >= 120
       THEN applied.selected
       ELSE Within(80, 920, background + IF background >= 500 THEN -140 ELSE 140)

TerminalSelection(s, applied) ==
    LET background == WorkspaceBackground(s, applied)
        selected == Or(s.selected, applied.selected)
    IN IF Distance(selected, background) >= 120 THEN selected
       ELSE Within(80, 920, background + IF background >= 500 THEN -140 ELSE 140)

TerminalCursor(s, applied) ==
    LET background == WorkspaceBackground(s, applied)
        accent == PaletteOf(s).accent
    IN IF Distance(accent, background) >= 300 THEN accent ELSE Or(s.font, applied.foreground)

=============================================================================
