--------------------------- MODULE ThemeSettings ---------------------------
(***************************************************************************)
(* The theme settings from the GUI to the file and back (component/theme,  *)
(* application/theme, infrastructure/theme).  A setter of the GUI changes  *)
(* the settings, applies the theme to the components unless only the       *)
(* wallpaper changed, raises the flag settings_changed and replaces the    *)
(* value of a watch channel.  One worker saves what it reads from the      *)
(* channel; the shutdown makes it save once more if the flag is raised.    *)
(* The file is written in place.                                           *)
(***************************************************************************)
EXTENDS ThemePalette

CONSTANTS
    ChosenThemes,      \* the themes that are selected
    Backgrounds,       \* the background colours that are set, and Unset
    Absent, Torn,      \* a file that is missing, or is not valid
    MaxCrashes         \* bound: crashes of the program in one behaviour

VARIABLES
    app,       \* "off", "running", "closing" (shutdown_runtime), "ended"
    settings,  \* CustomerUiThemeState
    applied,   \* the component theme
    channel,   \* the value of the watch channel
    unseen,    \* the worker has not seen it
    edited,    \* settings_changed
    worker,    \* "none", "select", "save", "last" (the final check), "saveLast"
    hand,      \* the settings the worker saves
    failed,    \* the last save failed
    file,
    crashes

vars == <<app, settings, applied, channel, unseen, edited, worker, hand, failed, file, crashes>>

DefaultSettings ==
    [theme |-> "DefaultTheme", accent |-> Lightness(255, 58), font |-> Unset,
     background |-> Unset, hover |-> Unset, selected |-> Unset,
     wallpaper |-> FALSE, opacity |-> 0]
Settings ==
    [theme : ChosenThemes, accent : {Lightness(255, 58)}, font : {Unset},
     background : Backgrounds, hover : {Unset}, selected : {Unset},
     wallpaper : BOOLEAN, opacity : {0, 100}]

TypeOK ==
    /\ app \in {"off", "running", "closing", "ended"}
    /\ {settings, channel, hand} \subseteq Settings
    /\ applied \in {Applied(s) : s \in Settings}
    /\ file \in Settings \cup {Absent, Torn}
    /\ unseen \in BOOLEAN /\ edited \in BOOLEAN /\ failed \in BOOLEAN
    /\ worker \in {"none", "select", "save", "last", "saveLast"}
    /\ crashes \in 0..MaxCrashes

Init ==
    /\ app = "off" /\ file \in Settings \cup {Absent, Torn}
    /\ settings = DefaultSettings /\ applied = Applied(DefaultSettings)
    /\ channel = DefaultSettings /\ unseen = FALSE /\ edited = FALSE
    /\ worker = "none" /\ hand = DefaultSettings /\ failed = FALSE
    /\ crashes = 0

\* A missing file is the default, and so is one that cannot be read.
Loaded == IF file \in Settings THEN file ELSE DefaultSettings

Initialize ==
    /\ app = "off"
    /\ app' = "running" /\ worker' = "select"
    /\ channel' = Loaded /\ unseen' = FALSE /\ edited' = FALSE
    /\ settings' = Loaded /\ applied' = Applied(Loaded)
    /\ UNCHANGED <<hand, failed, file, crashes>>

-----------------------------------------------------------------------------
(* The GUI                                                                 *)

\* Mutant: the component theme is left as it is.
RefreshOnly(new, reapply) ==
    /\ app = "running"
    /\ settings' = new /\ UNCHANGED applied
    /\ edited' = TRUE /\ channel' = new /\ unseen' = TRUE
    /\ UNCHANGED <<app, worker, hand, failed, file, crashes>>

Refresh(new, reapply) ==
    /\ app = "running"
    /\ settings' = new
    /\ applied' = IF reapply THEN Applied(new) ELSE applied
    /\ edited' = TRUE /\ channel' = new /\ unseen' = TRUE
    /\ UNCHANGED <<app, worker, hand, failed, file, crashes>>

SelectTheme(theme) == Refresh([settings EXCEPT !.theme = theme], TRUE)
SetBackground(color) == Refresh([settings EXCEPT !.background = color], TRUE)
SetOpacity(opacity) == Refresh([settings EXCEPT !.opacity = opacity], FALSE)

\* The picture is copied by an application operation first; a picture that is
\* refused or cannot be copied leaves the settings alone.
ChooseWallpaper == Refresh([settings EXCEPT !.wallpaper = TRUE], FALSE)
ClearWallpaper == Refresh([settings EXCEPT !.wallpaper = FALSE], FALSE)

-----------------------------------------------------------------------------
(* The worker                                                              *)

Work(next) ==
    /\ worker' = next
    /\ UNCHANGED <<app, settings, applied, channel, edited, crashes>>

\* select! takes either branch that is ready.
TakeChange ==
    /\ worker = "select" /\ unseen
    /\ hand' = channel /\ unseen' = FALSE
    /\ Work("save") /\ UNCHANGED <<failed, file>>

TakeShutdown ==
    /\ worker = "select" /\ app = "closing"
    /\ Work("last") /\ UNCHANGED <<unseen, hand, failed, file>>

Written(ok) ==
    /\ failed' = ~ok
    /\ IF ok THEN file' = hand ELSE file' \in {file, Torn}

\* An error is only logged.
Save ==
    /\ worker = "save"
    /\ \E ok \in BOOLEAN : Written(ok)
    /\ Work("select") /\ UNCHANGED <<unseen, hand>>

TakeLast ==
    /\ worker = "last" /\ edited
    /\ hand' = channel /\ unseen' = FALSE
    /\ Work("saveLast") /\ UNCHANGED <<failed, file>>

SaveLast ==
    /\ worker = "saveLast"
    /\ \E ok \in BOOLEAN : Written(ok)
    /\ Work("none") /\ UNCHANGED <<unseen, hand>>

\* Mutant: the worker ends when it is told to.
EndAtOnce ==
    /\ worker = "last"
    /\ Work("none") /\ UNCHANGED <<unseen, hand, failed, file>>

EndUnchanged ==
    /\ worker = "last" /\ ~edited
    /\ Work("none") /\ UNCHANGED <<unseen, hand, failed, file>>

-----------------------------------------------------------------------------
\* The event loop has returned: no setter runs any more.
Shutdown ==
    /\ app = "running" /\ app' = "closing"
    /\ UNCHANGED <<settings, applied, channel, unseen, edited, worker, hand, failed,
                   file, crashes>>

ShutdownEnds ==
    /\ app = "closing" /\ worker = "none"
    /\ app' = "ended"
    /\ UNCHANGED <<settings, applied, channel, unseen, edited, worker, hand, failed,
                   file, crashes>>

Restart ==
    /\ app = "ended" /\ app' = "off"
    /\ UNCHANGED <<settings, applied, channel, unseen, edited, worker, hand, failed,
                   file, crashes>>

Crash ==
    /\ app \in {"running", "closing"} /\ crashes < MaxCrashes
    /\ crashes' = crashes + 1
    /\ file' \in IF worker \in {"save", "saveLast"} THEN {file, hand, Torn} ELSE {file}
    /\ app' = "off" /\ worker' = "none" /\ unseen' = FALSE /\ edited' = FALSE
    /\ UNCHANGED <<settings, applied, channel, hand, failed>>

Worker == TakeChange \/ TakeShutdown \/ Save \/ TakeLast \/ SaveLast \/ EndUnchanged

Next ==
    \/ Initialize
    \/ \E t \in ChosenThemes : SelectTheme(t)
    \/ \E b \in Backgrounds : SetBackground(b)
    \/ \E o \in {0, 100} : SetOpacity(o)
    \/ ChooseWallpaper \/ ClearWallpaper
    \/ Worker \/ Shutdown \/ ShutdownEnds \/ Restart \/ Crash

Fairness == WF_vars(Worker) /\ WF_vars(ShutdownEnds)
Spec == Init /\ [][Next]_vars /\ Fairness

-----------------------------------------------------------------------------
(* Properties                                                              *)

\* After a shutdown whose last save succeeded the file has the settings the
\* user saw last, whichever branch the worker's select took; without an edit
\* the file is what it was, also when it could not be read.
NewestSaved ==
    app = "ended" => IF edited THEN failed \/ file = settings ELSE file # Torn => file \in {Absent, settings}

\* The components show what a restart would show, but for the soft surfaces of
\* the default theme: whether they apply depends on the wallpaper, and a change
\* of the wallpaper does not apply the theme again.
ShownAsAfterRestart ==
    app = "running" =>
        \/ applied = Applied(settings)
        \/ settings.theme = "DefaultTheme" /\ ~Overridden(settings)

\* The program ends although every save may fail.
ShutdownEndsEventually == app = "closing" ~> app \in {"ended", "off"}

=============================================================================
