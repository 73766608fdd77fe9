------------------------------ MODULE MainWindow ------------------------------
(***************************************************************************)
(* The main window beside its lists of scenes and its outputs              *)
(* (UI/window-basic-main.cpp): the views of sources, the system tray, the  *)
(* transforms of items and the profile.  These parts share no state, so    *)
(* that what happens in the window is a shuffle of what happens in each;   *)
(* a behaviour here is that of one of them, while the others stay as they  *)
(* are.                                                                    *)
(***************************************************************************)
EXTENDS SourceViews, WindowTray, ItemTransform, ProfileStart

CONSTANT Parts

ASSUME PartsAssumption == Parts \subseteq {"views", "tray", "items", "profile"}

VARIABLE part   \* the part that moves, always the same

windowVars == <<part, viewVars, trayVars, itemVars, profileVars>>

(* All surroundings for the part that moves, any of them for the others.   *)
Surroundings(p, environments) ==
  IF part = p THEN environments ELSE {CHOOSE e \in environments : TRUE}

Init ==
  /\ part \in Parts
  /\ ViewInit(Surroundings("views", ViewEnvironments))
  /\ TrayInit(Surroundings("tray", TrayEnvironments))
  /\ ItemInit(Surroundings("items", ItemEnvironments))
  /\ ProfileInit(Surroundings("profile", ProfileEnvironments))

Views ==
  /\ part = "views" /\ ViewNext
  /\ UNCHANGED <<part, trayVars, itemVars, profileVars>>

Tray ==
  /\ part = "tray" /\ TrayNext
  /\ UNCHANGED <<part, viewVars, itemVars, profileVars>>

Transforms ==
  /\ part = "items" /\ ItemNext
  /\ UNCHANGED <<part, viewVars, trayVars, profileVars>>

Profile ==
  /\ part = "profile" /\ ProfileNext
  /\ UNCHANGED <<part, viewVars, trayVars, itemVars>>

Next == Views \/ Tray \/ Transforms \/ Profile

Spec == Init /\ [][Next]_windowVars
=============================================================================
