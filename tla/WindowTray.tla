------------------------------ MODULE WindowTray ------------------------------
(***************************************************************************)
(* How the main window hides in the system tray and comes back             *)
(* (SystemTray, SetShowing and ToggleShowHide of                           *)
(* UI/window-basic-main.cpp), with its dialogs and its preview.            *)
(*                                                                         *)
(* The window hides and shows at once, and once more by a timer of Qt a    *)
(* quarter of a second later; timers of one length go off in their order.  *)
(* There is a system tray, and dialogs are closed by the user only.        *)
(***************************************************************************)
EXTENDS Integers, Sequences, FiniteSets

CONSTANTS
  Dialogs,           \* the kinds of dialogs, of each there is one at most
  MaxTraySteps,      \* bound on what the user does
  TrayEnvironments   \* the surroundings, see TrayEnvironment

(* prompt: the timers go off before the user does anything more.           *)
(* config: SysTrayWhenStarted, SysTrayEnabled and SysTrayMinimizeToTray at *)
(* the start.                                                              *)
TrayConfig == [whenStarted : BOOLEAN, enabled : BOOLEAN, minimize : BOOLEAN]
(* option: the command line says that the window starts in the tray.       *)
TrayEnvironment == [prompt : BOOLEAN, config : TrayConfig, preview : BOOLEAN,
                    option : BOOLEAN]

ASSUME WindowTrayAssumption ==
  /\ MaxTraySteps \in Nat /\ IsFiniteSet(Dialogs)
  /\ TrayEnvironments \subseteq TrayEnvironment /\ TrayEnvironments # {}

VARIABLES
  trayEnv,         \* the environment of this behaviour, which stays as it is
  trayConfig,      \* the configuration, which the settings change
  visible,         \* the window
  timers,          \* Qt's timers: "hide" and "show", in their order
  trayIcon,        \* whether the icon is shown
  showHide,        \* the text of its entry
  previewEnabled,  \* what the user wants of the preview
  display,         \* whether the preview is drawn
  dialogs,         \* each: "none", "open", or "hidden" with the window
  visDialogs,      \* the dialogs that were visible, as EnumDialogs saw them
  visDlgPositions, \* the number of their positions
  gone,            \* those of visDialogs that are destroyed
  misused,         \* history: one of those was shown, or one without position
  modal,           \* the settings are open
  optMinimizeTray, \* opt_minimize_tray
  early,           \* history: the preview or the settings were used while
                   \* timers waited
  clicks           \* the number of things the user did

trayVars == <<trayEnv, trayConfig, visible, timers, trayIcon, showHide,
              previewEnabled, display, dialogs, visDialogs, visDlgPositions,
              gone, misused, modal, optMinimizeTray, early, clicks>>

User ==
  /\ clicks < MaxTraySteps
  /\ clicks' = clicks + 1
  /\ trayEnv.prompt => timers = <<>>
  /\ UNCHANGED <<trayEnv, optMinimizeTray>>

ByIcon == User /\ UNCHANGED early
InWindow == User /\ visible /\ early' = (early \/ timers # <<>>)

(* EnablePreviewDisplay, if the preview is enabled.                        *)
Preview(on) == display' = IF previewEnabled THEN on ELSE display

-----------------------------------------------------------------------------
SetShowing_PreviewStays ==
  /\ visible
  /\ visible' = FALSE
  /\ dialogs' = [k \in Dialogs |-> IF k \in visDialogs' THEN "hidden" ELSE dialogs[k]]
  /\ visDlgPositions' = Cardinality(visDialogs')
  /\ showHide' = "Show"
  /\ timers' = Append(timers, "hide")
  /\ UNCHANGED <<display, misused>>

(* SetShowing(false), after EnumDialogs.                                   *)
SetShowing_Hide ==
  /\ visible
  /\ visible' = FALSE
  /\ dialogs' = [k \in Dialogs |-> IF k \in visDialogs' THEN "hidden" ELSE dialogs[k]]
  /\ visDlgPositions' = Cardinality(visDialogs')
  /\ showHide' = "Show"
  /\ timers' = Append(timers, "hide")
  /\ Preview(FALSE)
  /\ UNCHANGED misused

SetShowing_Show ==
  /\ ~visible
  /\ visible' = TRUE
  /\ dialogs' = [k \in Dialogs |-> IF k \in visDialogs \ gone THEN "open" ELSE dialogs[k]]
  /\ misused' = (misused \/ gone # {} \/ Cardinality(visDialogs) > visDlgPositions)
  /\ showHide' = "Hide"
  /\ timers' = Append(timers, "show")
  /\ Preview(TRUE)
  /\ UNCHANGED <<visDialogs, visDlgPositions, gone>>

(* A window with a modal dialog remains.                                   *)
EnumDialogs ==
  /\ visible
  /\ visDialogs' = {k \in Dialogs : dialogs[k] = "open"}
  /\ gone' = {}

Stays == UNCHANGED <<visible, dialogs, visDlgPositions, showHide, timers, display, misused>>

(* A click on the icon or its entry.                                       *)
ToggleShowHide ==
  /\ ByIcon
  /\ trayIcon
  /\ \/ EnumDialogs /\ ~modal /\ SetShowing_Hide
     \/ EnumDialogs /\ modal /\ Stays
     \/ SetShowing_Show
  /\ UNCHANGED <<trayConfig, trayIcon, previewEnabled, modal>>

(* changeEvent: the user minimizes the window.                             *)
Minimize ==
  /\ ByIcon
  /\ trayIcon /\ trayConfig.minimize
  /\ ~modal
  /\ EnumDialogs /\ SetShowing_Hide
  /\ UNCHANGED <<trayConfig, trayIcon, previewEnabled, modal>>

(* closeEvent while an output is active, answered with no.                 *)
AskBeforeExit ==
  /\ ByIcon
  /\ SetShowing_Show
  /\ UNCHANGED <<trayConfig, trayIcon, previewEnabled, modal>>

(* A timer of SetShowing goes off.                                         *)
Timer ==
  /\ timers # <<>>
  /\ visible' = (Head(timers) = "show")
  /\ timers' = Tail(timers)
  /\ UNCHANGED <<trayEnv, trayConfig, trayIcon, showHide, previewEnabled, display,
                 dialogs, visDialogs, visDlgPositions, gone, misused, modal,
                 optMinimizeTray, early, clicks>>

-----------------------------------------------------------------------------
(* SystemTray: when the icon is shown; and when the window starts in it.   *)
IconShown(c, option) == c.enabled \/ (c.whenStarted /\ option)

StartsInTray(c, option) ==
  (c.whenStarted /\ c.enabled) \/ (option /\ (c.whenStarted \/ c.enabled))

Text(shown) == IF shown THEN "Hide" ELSE "Show"

TogglePreview ==
  /\ InWindow
  /\ ~modal
  /\ previewEnabled' = ~previewEnabled
  /\ display' = previewEnabled'
  /\ UNCHANGED <<trayConfig, visible, timers, trayIcon, showHide, dialogs, visDialogs,
                 visDlgPositions, gone, misused, modal>>

on_action_Settings_triggered ==
  /\ InWindow
  /\ ~modal
  /\ modal' = TRUE
  /\ UNCHANGED <<trayConfig, visible, timers, trayIcon, showHide, previewEnabled,
                 display, dialogs, visDialogs, visDlgPositions, gone, misused>>

(* The settings close: SystemTray(false).                                  *)
SystemTray(c) ==
  /\ User
  /\ early' = (early \/ timers # <<>>)
  /\ modal
  /\ modal' = FALSE
  /\ trayConfig' = c
  /\ trayIcon' = IconShown(c, optMinimizeTray)
  /\ showHide' = Text(visible)
  /\ UNCHANGED <<visible, timers, previewEnabled, display, dialogs, visDialogs,
                 visDlgPositions, gone, misused>>

(* Dialogs that are closed are destroyed.                                  *)
Closed(ks) ==
  /\ dialogs' = [k \in Dialogs |-> IF k \in ks THEN "none" ELSE dialogs[k]]
  /\ gone' = gone \cup {k \in ks \cap visDialogs : dialogs[k] # "none"}

(* CreatePropertiesWindow and the like: the dialog there is goes.          *)
CreateWindow(k) ==
  /\ InWindow
  /\ ~modal
  /\ dialogs' = [dialogs EXCEPT ![k] = "open"]
  /\ gone' = IF k \in visDialogs /\ dialogs[k] # "none" THEN gone \cup {k} ELSE gone
  /\ UNCHANGED <<trayConfig, visible, timers, trayIcon, showHide, previewEnabled,
                 display, visDialogs, visDlgPositions, misused, modal>>

CloseDialog(k) ==
  /\ ByIcon
  /\ dialogs[k] = "open" /\ ~modal
  /\ Closed({k})
  /\ UNCHANGED <<trayConfig, visible, timers, trayIcon, showHide, previewEnabled,
                 display, visDialogs, visDlgPositions, misused, modal>>

(* on_actionAlwaysOnTop_triggered: all dialogs close, and the window shows *)
(* in its other mode as soon as they have.                                 *)
ToggleAlwaysOnTop ==
  /\ InWindow
  /\ ~modal
  /\ Closed(Dialogs)
  /\ UNCHANGED <<trayConfig, visible, timers, trayIcon, showHide, previewEnabled,
                 display, visDialogs, visDlgPositions, misused, modal>>

-----------------------------------------------------------------------------
(* The end of OBSInit: SystemTray(true).                                   *)
TrayInit(envs) ==
  /\ trayEnv \in envs
  /\ trayConfig = trayEnv.config
  /\ visible = ~StartsInTray(trayConfig, trayEnv.option)
  /\ timers = IF ~visible THEN <<"hide">> ELSE <<>>
  /\ trayIcon = IconShown(trayConfig, trayEnv.option)
  /\ showHide = Text(visible)
  /\ previewEnabled = trayEnv.preview
  /\ display = (trayEnv.preview /\ visible)
  /\ dialogs = [k \in Dialogs |-> "none"]
  /\ visDialogs = {} /\ visDlgPositions = 0 /\ gone = {} /\ misused = FALSE
  /\ modal = FALSE
  /\ optMinimizeTray = (trayEnv.option /\ visible)
  /\ early = FALSE
  /\ clicks = 0

TrayNext ==
  \/ ToggleShowHide \/ Minimize \/ AskBeforeExit \/ Timer
  \/ TogglePreview \/ on_action_Settings_triggered \/ ToggleAlwaysOnTop
  \/ \E c \in TrayConfig : SystemTray(c)
  \/ \E k \in Dialogs : CreateWindow(k) \/ CloseDialog(k)

-----------------------------------------------------------------------------
(* Once the timers have gone off, however fast the user was with the icon, *)
(* the preview is drawn if the window is visible and the user wants it,    *)
(* and the entry of the icon says what a click does.  If the user waits    *)
(* for the timers, the dialogs that hid with the window are there again    *)
(* when it is; a window in the tray has an icon to come back by; and no    *)
(* dialog that is destroyed was ever brought back.                         *)
(* Not so in the code when the user is faster than the timers with the     *)
(* preview or the settings.                                                *)
TrayTruthful ==
  /\ timers = <<>> /\ ~early =>
       /\ display = (visible /\ previewEnabled)
       /\ showHide = Text(visible)
  /\ trayEnv.prompt =>
       /\ \A k \in Dialogs : dialogs[k] # "none" => (dialogs[k] = "open" <=> visible)
       /\ visible \/ trayIcon
       /\ ~misused
=============================================================================
