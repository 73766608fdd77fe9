-------------------------- MODULE MainWindow_proofs --------------------------
(* Proofs about MainWindow, for any surroundings of its parts and any number *)
(* of steps.                                                                 *)
EXTENDS MainWindow, FiniteSetTheorems, SequenceTheorems, TLAPS

-----------------------------------------------------------------------------
(* The parts.                                                                *)

(* The parts of the window that do not move stay as they are.                *)
LEMMA OtherParts ==
  ASSUME [Next]_windowVars
  PROVE  /\ TrayNext \/ UNCHANGED trayVars
         /\ ViewNext \/ UNCHANGED viewVars
         /\ ItemNext \/ UNCHANGED itemVars
         /\ ProfileNext \/ UNCHANGED profileVars
BY DEF Next, Views, Tray, Transforms, Profile, windowVars

(* Whichever part moves, each begins in surroundings of its own.             *)
LEMMA SomeSurroundings ==
  ASSUME NEW p, NEW E, E # {}
  PROVE  Surroundings(p, E) \subseteq E
<1>1. (CHOOSE e \in E : TRUE) \in E
  OBVIOUS
<1> QED BY <1>1 DEF Surroundings

(* The least of some numbers is one of them.                                 *)
LEMMA LeastIsIn ==
  ASSUME NEW I, I \subseteq Nat, I # {}
  PROVE  Min(I) \in I
<1> DEFINE Less == OpToRel(<, Nat)
<1>1. IsWellFoundedOn(Less, Nat)
  BY NatLessThanWellFounded, Zenon DEF Less
<1> HIDE DEF Less
<1>2. PICK m \in I : \A y \in Nat : <<y, m>> \in Less => y \notin I
  BY <1>1, WFMin
<1>3. \A y \in Nat : y < m => y \notin I
  BY <1>2 DEF Less, OpToRel
<1>4. \A y \in I : m <= y
  BY <1>3
<1> QED BY <1>4 DEF Min

-----------------------------------------------------------------------------
(* The system tray.                                                          *)

(* Where the window will be when the timers have gone off.                   *)
Heading == IF timers = <<>> THEN visible ELSE timers[Len(timers)] = "show"

TrayTypes ==
  /\ trayEnv \in TrayEnvironment
  /\ visible \in BOOLEAN /\ display \in BOOLEAN /\ previewEnabled \in BOOLEAN
  /\ timers \in Seq({"hide", "show"})
  /\ dialogs \in [Dialogs -> {"none", "open", "hidden"}]
  /\ visDialogs \subseteq Dialogs

(* The preview and the entry of the icon follow the last click.              *)
Follows ==
  ~early => /\ display <=> (Heading /\ previewEnabled)
            /\ showHide = Text(Heading)

(* What the dialogs, the icon and the settings are like when the user waits  *)
(* for the timers.                                                           *)
InTray ==
  ~visible =>
    /\ trayIcon /\ ~modal /\ gone = {}
    /\ visDlgPositions = Cardinality(visDialogs)
    /\ \A k \in Dialogs : dialogs[k] = "hidden" => k \in visDialogs

Prompt ==
  trayEnv.prompt =>
    /\ timers # <<>> => timers = <<IF visible THEN "show" ELSE "hide">>
    /\ \A k \in Dialogs : dialogs[k] # "none" => (dialogs[k] = "open" <=> visible)
    /\ InTray
    /\ ~misused

TrayInv == TrayTypes /\ Follows /\ Prompt

-----------------------------------------------------------------------------
(* A new timer is the last to go off.                                        *)
LEMMA HeadingOfTimer ==
  ASSUME TrayTypes, NEW t \in {"hide", "show"}, timers' = Append(timers, t)
  PROVE  /\ timers' \in Seq({"hide", "show"}) /\ timers' # <<>>
         /\ Heading' <=> t = "show"
         /\ timers = <<>> => timers' = <<t>>
<1>1. timers \in Seq({"hide", "show"})
  BY DEF TrayTypes
<1>2. /\ timers' \in Seq({"hide", "show"}) /\ timers' # <<>>
      /\ timers'[Len(timers')] = t
  BY <1>1
<1>3. ASSUME timers = <<>> PROVE timers' = <<t>>
  BY <1>3
<1> QED BY <1>2, <1>3 DEF Heading

(* The types hold at the start, and every step keeps them.                   *)
LEMMA TrayTypesStep ==
  ASSUME TrayTypes, TrayNext
  PROVE  TrayTypes'
<1>1. ASSUME EnumDialogs, SetShowing_Hide
      PROVE  /\ visible' \in BOOLEAN /\ display' \in BOOLEAN
             /\ timers' \in Seq({"hide", "show"})
             /\ dialogs' \in [Dialogs -> {"none", "open", "hidden"}]
             /\ visDialogs' \subseteq Dialogs
  <2>1. visible' \in BOOLEAN /\ timers' \in Seq({"hide", "show"}) /\ visDialogs' \subseteq Dialogs
    BY <1>1, HeadingOfTimer DEF EnumDialogs, SetShowing_Hide
  <2>2. display' \in BOOLEAN
    BY <1>1, Zenon DEF SetShowing_Hide, Preview, TrayTypes
  <2>3. dialogs' \in [Dialogs -> {"none", "open", "hidden"}]
    BY <1>1 DEF SetShowing_Hide, TrayTypes
  <2> QED BY <2>1, <2>2, <2>3
<1>2. ASSUME SetShowing_Show
      PROVE  /\ visible' \in BOOLEAN /\ display' \in BOOLEAN
             /\ timers' \in Seq({"hide", "show"})
             /\ dialogs' \in [Dialogs -> {"none", "open", "hidden"}]
             /\ visDialogs' \subseteq Dialogs
  <2>1. visible' \in BOOLEAN /\ timers' \in Seq({"hide", "show"})
    BY <1>2, HeadingOfTimer DEF SetShowing_Show
  <2>2. display' \in BOOLEAN
    BY <1>2, Zenon DEF SetShowing_Show, Preview, TrayTypes
  <2>3. dialogs' \in [Dialogs -> {"none", "open", "hidden"}] /\ visDialogs' \subseteq Dialogs
    BY <1>2 DEF SetShowing_Show, TrayTypes
  <2> QED BY <2>1, <2>2, <2>3
<1>3. CASE ToggleShowHide
  <2>1. CASE EnumDialogs /\ Stays
    BY <1>3, <2>1 DEF ToggleShowHide, ByIcon, User, EnumDialogs, Stays, TrayTypes
  <2>2. CASE EnumDialogs /\ SetShowing_Hide
    <3>1. UNCHANGED <<trayEnv, previewEnabled>>
      BY <1>3 DEF ToggleShowHide, ByIcon, User
    <3> QED BY <1>1, <2>2, <3>1 DEF TrayTypes
  <2>3. CASE SetShowing_Show
    <3>1. UNCHANGED <<trayEnv, previewEnabled>>
      BY <1>3 DEF ToggleShowHide, ByIcon, User
    <3> QED BY <1>2, <2>3, <3>1 DEF TrayTypes
  <2> QED BY <1>3, <2>1, <2>2, <2>3 DEF ToggleShowHide
<1>4. CASE Minimize
  <2>1. EnumDialogs /\ SetShowing_Hide /\ UNCHANGED <<trayEnv, previewEnabled>>
    BY <1>4 DEF Minimize, ByIcon, User
  <2> QED BY <1>1, <2>1 DEF TrayTypes
<1>5. CASE AskBeforeExit
  <2>1. SetShowing_Show /\ UNCHANGED <<trayEnv, previewEnabled>>
    BY <1>5 DEF AskBeforeExit, ByIcon, User
  <2> QED BY <1>2, <2>1 DEF TrayTypes
<1>6. CASE Timer
  <2>1. timers' \in Seq({"hide", "show"}) /\ visible' \in BOOLEAN
    BY <1>6 DEF Timer, TrayTypes
  <2> QED BY <1>6, <2>1 DEF Timer, TrayTypes
<1>7. CASE TogglePreview
  <2>1. previewEnabled' \in BOOLEAN /\ display' \in BOOLEAN
    BY <1>7, Zenon DEF TogglePreview, TrayTypes
  <2> QED BY <1>7, <2>1 DEF TogglePreview, InWindow, User, TrayTypes
<1>8. CASE on_action_Settings_triggered
  BY <1>8 DEF on_action_Settings_triggered, InWindow, User, TrayTypes
<1>9. CASE ToggleAlwaysOnTop
  BY <1>9 DEF ToggleAlwaysOnTop, InWindow, User, Closed, TrayTypes
<1>10. ASSUME NEW c \in TrayConfig, SystemTray(c) PROVE TrayTypes'
  BY <1>10 DEF SystemTray, User, TrayTypes
<1>11. ASSUME NEW k \in Dialogs, CreateWindow(k) PROVE TrayTypes'
  BY <1>11 DEF CreateWindow, InWindow, User, TrayTypes
<1>12. ASSUME NEW k \in Dialogs, CloseDialog(k) PROVE TrayTypes'
  BY <1>12 DEF CloseDialog, ByIcon, User, Closed, TrayTypes
<1> QED BY <1>3, <1>4, <1>5, <1>6, <1>7, <1>8, <1>9, <1>10, <1>11, <1>12 DEF TrayNext

(* The preview and the entry of the icon keep following the last click.      *)
LEMMA FollowsStep ==
  ASSUME TrayTypes, Follows, TrayNext
  PROVE  Follows'
<1>1. ASSUME UNCHANGED <<visible, timers, showHide, previewEnabled, display, early>>
      PROVE  Follows'
  BY <1>1 DEF Follows, Heading
<1>2. ASSUME SetShowing_Hide, UNCHANGED <<previewEnabled, early>> PROVE Follows'
  <2>1. ~Heading' /\ showHide' = "Show"
    BY <1>2, HeadingOfTimer DEF SetShowing_Hide
  <2>2. ~early => (display' <=> FALSE)
    BY <1>2, Zenon DEF SetShowing_Hide, Preview, Follows
  <2> QED BY <1>2, <2>1, <2>2 DEF Follows, Text
<1>3. ASSUME SetShowing_Show, UNCHANGED <<previewEnabled, early>> PROVE Follows'
  <2>1. Heading' /\ showHide' = "Hide"
    BY <1>3, HeadingOfTimer DEF SetShowing_Show
  <2>2. ~early => (display' <=> previewEnabled)
    BY <1>3, Zenon DEF SetShowing_Show, Preview, Follows
  <2> QED BY <1>3, <2>1, <2>2 DEF Follows, Text
<1>4. CASE ToggleShowHide
  BY <1>1, <1>2, <1>3, <1>4 DEF ToggleShowHide, ByIcon, User, Stays
<1>5. CASE Minimize
  BY <1>2, <1>5 DEF Minimize, ByIcon, User
<1>6. CASE AskBeforeExit
  BY <1>3, <1>6 DEF AskBeforeExit, ByIcon, User
<1>7. CASE Timer
  <2>1. timers \in Seq({"hide", "show"}) /\ timers # <<>>
    BY <1>7 DEF Timer, TrayTypes
  <2>2. Heading' <=> Heading
    <3>1. timers' = Tail(timers) /\ (visible' <=> Head(timers) = "show")
      BY <1>7 DEF Timer
    <3>2. CASE Len(timers) = 1
      <4>1. timers' = <<>> /\ timers[Len(timers)] = Head(timers)
        BY <2>1, <3>1, <3>2
      <4> QED BY <2>1, <3>1, <4>1, Zenon DEF Heading
    <3>3. CASE Len(timers) # 1
      <4>1. timers' # <<>> /\ timers'[Len(timers')] = timers[Len(timers)]
        <5>1. /\ Len(timers) \in Nat /\ Len(timers) > 1
              /\ Len(timers') = Len(timers) - 1
              /\ timers' \in Seq({"hide", "show"})
          <6>1. Len(timers) \in Nat /\ Len(timers) # 0
            BY <2>1, EmptySeq, LenProperties
          <6>2. timers' \in Seq({"hide", "show"}) /\ Len(timers') = Len(timers) - 1
            BY <2>1, <3>1, HeadTailProperties
          <6> QED BY <3>3, <6>1, <6>2
        <5>2. \A i \in 1..Len(timers') : timers'[i] = timers[i + 1]
          BY <2>1, <3>1, HeadTailProperties
        <5>3. Len(timers') \in 1..Len(timers') /\ Len(timers') + 1 = Len(timers)
          BY <5>1
        <5>4. timers'[Len(timers')] = timers[Len(timers)]
          BY <5>2, <5>3
        <5> QED BY <5>1, <5>4
      <4> QED BY <2>1, <4>1, Zenon DEF Heading
    <3> QED BY <3>2, <3>3
  <2> QED BY <1>7, <2>2 DEF Timer, Follows, Text
<1>8. CASE TogglePreview
  <2>1. ~early' => timers = <<>> /\ visible
    BY <1>8, Zenon DEF TogglePreview, InWindow
  <2>2. ~early' => Heading' /\ Heading /\ ~early
    BY <1>8, <2>1, Zenon DEF TogglePreview, InWindow, Heading
  <2>3. UNCHANGED showHide /\ display' = previewEnabled'
    BY <1>8 DEF TogglePreview
  <2> QED BY <2>2, <2>3 DEF Follows, Text
<1>9. ASSUME UNCHANGED <<visible, timers, showHide, previewEnabled, display>>,
             early' = (early \/ timers # <<>>)
      PROVE  Follows'
  <2>1. early => early'
    BY <1>9, Zenon
  <2> QED BY <1>9, <2>1 DEF Follows, Heading
<1>10. CASE on_action_Settings_triggered
  BY <1>9, <1>10 DEF on_action_Settings_triggered, InWindow
<1>11. CASE ToggleAlwaysOnTop
  BY <1>9, <1>11 DEF ToggleAlwaysOnTop, InWindow
<1>12. ASSUME NEW c \in TrayConfig, SystemTray(c) PROVE Follows'
  <2>1. ~early' => timers = <<>> /\ ~early
    BY <1>12, Zenon DEF SystemTray
  <2>2. /\ UNCHANGED <<visible, timers, previewEnabled, display>>
        /\ showHide' = Text(visible)
    BY <1>12 DEF SystemTray
  <2>3. ~early' => (Heading' <=> visible) /\ (Heading <=> visible)
    BY <2>1, <2>2, Zenon DEF Heading
  <2> QED BY <2>1, <2>2, <2>3 DEF Follows, Text
<1>13. ASSUME NEW k \in Dialogs, CreateWindow(k) PROVE Follows'
  BY <1>9, <1>13 DEF CreateWindow, InWindow
<1>14. ASSUME NEW k \in Dialogs, CloseDialog(k) PROVE Follows'
  BY <1>1, <1>14 DEF CloseDialog, ByIcon
<1> QED BY <1>4, <1>5, <1>6, <1>7, <1>8, <1>10, <1>11, <1>12, <1>13, <1>14 DEF TrayNext

-----------------------------------------------------------------------------
(* Hiding, when no timer waits.                                              *)
LEMMA PromptHides ==
  ASSUME TrayTypes, Prompt, trayEnv.prompt, timers = <<>>, trayIcon, ~modal,
         EnumDialogs, SetShowing_Hide, UNCHANGED <<trayEnv, trayIcon, modal>>
  PROVE  Prompt'
<1>1. timers' = <<"hide">> /\ ~visible' /\ visible
  BY HeadingOfTimer DEF SetShowing_Hide
<1>2. /\ visDialogs' = {k \in Dialogs : dialogs[k] = "open"} /\ gone' = {}
      /\ dialogs' = [k \in Dialogs |-> IF k \in visDialogs' THEN "hidden" ELSE dialogs[k]]
      /\ visDlgPositions' = Cardinality(visDialogs') /\ UNCHANGED misused
  BY DEF EnumDialogs, SetShowing_Hide
<1>3. \A k \in Dialogs : dialogs[k] = "none" \/ dialogs[k] = "open"
  BY <1>1 DEF Prompt
<1>4. \A k \in Dialogs : /\ dialogs'[k] = "none" \/ dialogs'[k] = "hidden"
                         /\ dialogs'[k] = "hidden" => k \in visDialogs'
  BY <1>2, <1>3
<1> QED BY <1>1, <1>2, <1>4 DEF Prompt, InTray

(* Showing, when no timer waits: the timer is the one the show starts.       *)
LEMMA PromptShows ==
  ASSUME TrayTypes, Prompt, trayEnv.prompt, timers = <<>>,
         SetShowing_Show, UNCHANGED trayEnv
  PROVE  Prompt'
<1>1. timers' = <<"show">> /\ visible' /\ ~visible
  BY HeadingOfTimer DEF SetShowing_Show
<1>2. /\ gone = {} /\ visDlgPositions = Cardinality(visDialogs) /\ ~misused
      /\ \A k \in Dialogs : dialogs[k] = "none" \/ (dialogs[k] # "open" /\ k \in visDialogs)
  BY <1>1 DEF Prompt, InTray, TrayTypes
<1>3. Cardinality(visDialogs) \in Nat
  <2>1. IsFiniteSet(visDialogs)
    BY WindowTrayAssumption, FS_Subset DEF TrayTypes
  <2> QED BY <2>1, FS_CardinalityType
<1>4. ~misused'
  <2>1. ~ (Cardinality(visDialogs) > visDlgPositions)
    BY <1>2, <1>3
  <2> QED BY <1>2, <2>1, Zenon DEF SetShowing_Show
<1>5. \A k \in Dialogs : dialogs'[k] = "none" \/ dialogs'[k] = "open"
  BY <1>2 DEF SetShowing_Show
<1> QED BY <1>1, <1>4, <1>5 DEF Prompt, InTray

(* Every step of a user who waits for the timers.                            *)
LEMMA PromptStep ==
  ASSUME TrayTypes, Prompt, TrayNext
  PROVE  Prompt'
<1> SUFFICES ASSUME trayEnv.prompt PROVE Prompt'
  <2>1. trayEnv' = trayEnv
    BY DEF TrayNext, ToggleShowHide, Minimize, AskBeforeExit, Timer, TogglePreview,
           on_action_Settings_triggered, ToggleAlwaysOnTop, SystemTray, CreateWindow,
           CloseDialog, ByIcon, InWindow, User
  <2> QED BY <2>1, Zenon DEF Prompt
<1>1. User => timers = <<>> /\ UNCHANGED trayEnv
  BY DEF User
<1>2. CASE ToggleShowHide
  <2>1. /\ User /\ trayIcon /\ UNCHANGED <<trayIcon, modal, trayEnv>> /\ timers = <<>>
    BY <1>1, <1>2 DEF ToggleShowHide, ByIcon
  <2>2. CASE EnumDialogs /\ ~modal /\ SetShowing_Hide
    BY <2>1, <2>2, PromptHides
  <2>3. CASE EnumDialogs /\ Stays
    BY <2>1, <2>3 DEF EnumDialogs, Stays, Prompt, InTray
  <2>4. CASE SetShowing_Show
    BY <2>1, <2>4, PromptShows
  <2> QED BY <1>2, <2>2, <2>3, <2>4 DEF ToggleShowHide
<1>3. CASE Minimize
  BY <1>1, <1>3, PromptHides DEF Minimize, ByIcon
<1>4. CASE AskBeforeExit
  BY <1>1, <1>4, PromptShows DEF AskBeforeExit, ByIcon
<1>5. CASE Timer
  <2>1. timers = <<IF visible THEN "show" ELSE "hide">>
    BY <1>5 DEF Timer, Prompt
  <2>4. timers' = Tail(timers) /\ (visible' <=> Head(timers) = "show")
    BY <1>5 DEF Timer
  <2>2. timers' = <<>> /\ (visible' <=> visible)
    <3>1. CASE visible
      <4>1. timers = <<"show">>
        BY <2>1, <3>1
      <4>2. Head(timers) = "show" /\ Tail(timers) = <<>>
        BY <4>1
      <4> QED BY <2>4, <3>1, <4>2
    <3>2. CASE ~visible
      <4>1. timers = <<"hide">>
        BY <2>1, <3>2
      <4>2. Head(timers) = "hide" /\ Tail(timers) = <<>>
        BY <4>1
      <4> QED BY <2>4, <3>2, <4>2
    <3> QED BY <3>1, <3>2
  <2>3. UNCHANGED <<trayEnv, trayIcon, modal, dialogs, visDialogs, visDlgPositions, gone, misused>>
    BY <1>5 DEF Timer
  <2> QED BY <2>2, <2>3 DEF Prompt, InTray
<1>6. CASE TogglePreview
  BY <1>1, <1>6 DEF TogglePreview, InWindow, Prompt, InTray
<1>7. CASE on_action_Settings_triggered
  BY <1>1, <1>7 DEF on_action_Settings_triggered, InWindow, Prompt, InTray
<1>8. CASE ToggleAlwaysOnTop
  <2>1. /\ timers = <<>> /\ visible
        /\ UNCHANGED <<trayEnv, visible, timers, misused>>
        /\ \A k \in Dialogs : dialogs'[k] = "none"
    BY <1>1, <1>8 DEF ToggleAlwaysOnTop, InWindow, Closed
  <2> QED BY <2>1 DEF Prompt, InTray
<1>9. ASSUME NEW c \in TrayConfig, SystemTray(c) PROVE Prompt'
  <2>1. /\ timers = <<>> /\ modal
        /\ UNCHANGED <<trayEnv, visible, timers, misused, dialogs>>
    BY <1>1, <1>9 DEF SystemTray
  <2> QED BY <2>1 DEF Prompt, InTray
<1>10. ASSUME NEW k \in Dialogs, CreateWindow(k) PROVE Prompt'
  <2>1. /\ timers = <<>> /\ visible
        /\ UNCHANGED <<trayEnv, visible, timers, misused>>
        /\ dialogs' = [dialogs EXCEPT ![k] = "open"]
    BY <1>1, <1>10 DEF CreateWindow, InWindow
  <2>2. \A d \in Dialogs : dialogs'[d] = "open" \/ dialogs'[d] = dialogs[d]
    BY <2>1 DEF TrayTypes
  <2> QED BY <2>1, <2>2 DEF Prompt, InTray
<1>11. ASSUME NEW k \in Dialogs, CloseDialog(k) PROVE Prompt'
  <2>1. /\ timers = <<>> /\ dialogs[k] = "open"
        /\ UNCHANGED <<trayEnv, visible, timers, misused>>
        /\ \A d \in Dialogs : dialogs'[d] = "none" \/ dialogs'[d] = dialogs[d]
    BY <1>1, <1>11 DEF CloseDialog, ByIcon, Closed
  <2>2. visible
    BY <1>11, <2>1 DEF Prompt
  <2> QED BY <2>1, <2>2 DEF Prompt, InTray
<1> QED BY <1>2, <1>3, <1>4, <1>5, <1>6, <1>7, <1>8, <1>9, <1>10, <1>11 DEF TrayNext

(* The window starts truthfully, in the tray or not.                         *)
LEMMA TrayInitially ==
  ASSUME NEW envs, TrayInit(envs), envs \subseteq TrayEnvironment
  PROVE  TrayInv
<1>1. /\ trayEnv \in TrayEnvironment
      /\ trayEnv.preview \in BOOLEAN /\ trayEnv.option \in BOOLEAN
      /\ trayConfig = trayEnv.config
      /\ visible = ~StartsInTray(trayConfig, trayEnv.option)
      /\ timers = IF ~visible THEN <<"hide">> ELSE <<>>
      /\ trayIcon = IconShown(trayConfig, trayEnv.option)
      /\ showHide = Text(visible) /\ previewEnabled = trayEnv.preview
      /\ display = (trayEnv.preview /\ visible)
      /\ dialogs = [k \in Dialogs |-> "none"]
      /\ visDialogs = {} /\ visDlgPositions = 0 /\ gone = {} /\ misused = FALSE
      /\ modal = FALSE
  BY DEF TrayInit, TrayEnvironment
<1>2. visible \in BOOLEAN /\ display \in BOOLEAN /\ (display <=> trayEnv.preview /\ visible)
  BY <1>1, Zenon
<1>3. ~visible => trayIcon
  BY <1>1, Zenon DEF StartsInTray, IconShown
<1>4. timers \in Seq({"hide", "show"}) /\ (~visible => timers = <<"hide">>)
      /\ (visible => timers = <<>>)
  <2>1. CASE visible
    <3>1. timers = <<>>
      BY <1>1, <2>1, Zenon
    <3>2. timers \in Seq({"hide", "show"})
      BY <3>1
    <3> QED BY <2>1, <3>1, <3>2
  <2>2. CASE ~visible
    <3>1. timers = <<"hide">>
      BY <1>1, <2>2, Zenon
    <3>2. timers \in Seq({"hide", "show"})
      BY <3>1
    <3> QED BY <2>2, <3>1, <3>2
  <2> QED BY <2>1, <2>2
<1>5. Heading <=> visible
  BY <1>4 DEF Heading
<1>6. TrayTypes
  BY <1>1, <1>2, <1>4 DEF TrayTypes
<1>7. Follows
  BY <1>1, <1>2, <1>5 DEF Follows, Text
<1>8. Prompt
  BY <1>1, <1>3, <1>4, FS_EmptySet DEF Prompt, InTray
<1> QED BY <1>6, <1>7, <1>8 DEF TrayInv

(* However the window is hidden and shown: once the timers have gone off the *)
(* preview and the entry of the icon are right, and for a user who waits for *)
(* them the dialogs come back with the window, no destroyed dialog is        *)
(* touched and a window in the tray has an icon to come back by.             *)
THEOREM TrayCorrect == Spec => []TrayTruthful
<1>1. Init => TrayInv
  <2>1. Surroundings("tray", TrayEnvironments) \subseteq TrayEnvironment
    BY SomeSurroundings, WindowTrayAssumption
  <2> QED BY <2>1, TrayInitially DEF Init
<1>2. TrayInv /\ [Next]_windowVars => TrayInv'
  <2> SUFFICES ASSUME TrayInv, [Next]_windowVars PROVE TrayInv'
    OBVIOUS
  <2>1. CASE TrayNext
    BY <2>1, TrayTypesStep, FollowsStep, PromptStep DEF TrayInv
  <2>2. CASE UNCHANGED trayVars
    BY <2>2 DEF trayVars, TrayInv, TrayTypes, Follows, Prompt, InTray, Heading
  <2> QED BY <2>1, <2>2, OtherParts
<1>3. TrayInv => TrayTruthful
  <2> SUFFICES ASSUME TrayInv PROVE TrayTruthful
    OBVIOUS
  <2>1. ASSUME timers = <<>>, ~early
        PROVE  display = (visible /\ previewEnabled) /\ showHide = Text(visible)
    <3>1. (Heading <=> visible) /\ visible \in BOOLEAN /\ display \in BOOLEAN
      BY <2>1, Zenon DEF TrayInv, TrayTypes, Heading
    <3>2. (display <=> (visible /\ previewEnabled)) /\ showHide = Text(Heading)
      BY <2>1, <3>1, Zenon DEF TrayInv, Follows
    <3>3. showHide = Text(visible)
      BY <3>1, <3>2 DEF Text
    <3> QED BY <3>1, <3>2, <3>3, Zenon
  <2>2. ASSUME trayEnv.prompt
        PROVE  /\ \A k \in Dialogs : dialogs[k] # "none" => (dialogs[k] = "open" <=> visible)
               /\ visible \/ trayIcon
               /\ ~misused
    BY <2>2, Zenon DEF TrayInv, Prompt, InTray
  <2> QED BY <2>1, <2>2, Zenon DEF TrayTruthful
<1> QED BY <1>1, <1>2, <1>3, PTL DEF Spec

-----------------------------------------------------------------------------
(* The transforms of items.                                                  *)

Even(n) == n % 2 = 0

(* What a transform may be: lengths of bounds and crops are even.            *)
Placed ==
  {t \in Transform : \A k \in {1, 2} : Even(t.bounds[k]) /\ Even(t.crop[k])}

(* Where the sides of a box are, seen from its position: left and right, or  *)
(* right and left, and the same for top and bottom.                          *)
XSides(t) ==
  LET s == BoxSize(t)
      a == Anchor(t)
  IN  CASE t.rot % 4 = 0 -> <<-a[1], s[1] - a[1]>>
        [] t.rot % 4 = 1 -> <<a[2], a[2] - s[2]>>
        [] t.rot % 4 = 2 -> <<a[1], a[1] - s[1]>>
        [] t.rot % 4 = 3 -> <<-a[2], s[2] - a[2]>>

YSides(t) ==
  LET s == BoxSize(t)
      a == Anchor(t)
  IN  CASE t.rot % 4 = 0 -> <<-a[2], s[2] - a[2]>>
        [] t.rot % 4 = 1 -> <<-a[1], s[1] - a[1]>>
        [] t.rot % 4 = 2 -> <<a[2], a[2] - s[2]>>
        [] t.rot % 4 = 3 -> <<a[1], a[1] - s[1]>>

Lower(p) == IF p[1] <= p[2] THEN p[1] ELSE p[2]

(* The least and the greatest of two numbers.                                *)
LEMMA LeastOfTwo ==
  ASSUME NEW u \in Int, NEW v \in Int
  PROVE  /\ Min({u, v}) = Lower(<<u, v>>)
         /\ Min({u, v}) + Max({u, v}) = u + v
         /\ Min({u, v}) \in Int /\ Max({u, v}) \in Int
<1>1. CASE u <= v
  <2>1. Min({u, v}) = u
    BY <1>1 DEF Min
  <2>2. Max({u, v}) = v
    BY <1>1 DEF Max
  <2> QED BY <1>1, <2>1, <2>2 DEF Lower
<1>2. CASE ~(u <= v)
  <2>1. Min({u, v}) = v
    BY <1>2 DEF Min
  <2>2. Max({u, v}) = u
    BY <1>2 DEF Max
  <2> QED BY <1>2, <2>1, <2>2 DEF Lower
<1> QED BY <1>1, <1>2

(* A product with an even factor.                                            *)
LEMMA EvenTimes ==
  ASSUME NEW m \in Int, NEW n \in Int, Even(m)
  PROVE  m * n \in Int /\ Even(m * n)
<1>1. PICK k \in Int : m = 2 * k
  BY DEF Even
<1>2. m * n = 2 * (k * n) /\ k * n \in Int
  BY <1>1
<1> DEFINE x == k * n
<1>3. x \in Int /\ m * n = 2 * x
  BY <1>2
<1> HIDE DEF x
<1>4. 2 * x \in Int /\ (2 * x) % 2 = 0
  BY <1>3
<1> QED BY <1>3, <1>4 DEF Even

(* The sizes of boxes are even.                                              *)
LEMMA BoxFacts ==
  ASSUME NEW t \in Placed
  PROVE  /\ BoxSize(t) \in Vector /\ Even(BoxSize(t)[1]) /\ Even(BoxSize(t)[2])
         /\ Anchor(t) \in Vector
<1>1. /\ t.bounds \in Vector /\ t.crop \in Vector /\ t.scale \in Vector
      /\ t.align \in {"topLeft", "center", "bottomRight"}
      /\ \A k \in {1, 2} : Even(t.bounds[k]) /\ Even(t.crop[k])
  BY DEF Placed, Transform
<1>2. SourceSize \in Vector /\ \A k \in {1, 2} : Even(SourceSize[k])
  BY ItemTransformAssumption DEF Even
<1> DEFINE b == BoxSize(t)
<1>3. b \in Vector /\ Even(b[1]) /\ Even(b[2])
  <2>1. CASE t.bounds # <<0, 0>>
    BY <1>1, <2>1 DEF BoxSize
  <2>2. CASE t.bounds = <<0, 0>>
    <3> DEFINE m1 == SourceSize[1] - t.crop[1]
               m2 == SourceSize[2] - t.crop[2]
    <3>1. m1 \in Int /\ m2 \in Int /\ Even(m1) /\ Even(m2)
      BY <1>1, <1>2 DEF Vector, Even
    <3>2. t.scale[1] \in Int /\ t.scale[2] \in Int
      BY <1>1 DEF Vector
    <3>3. b = <<m1 * t.scale[1], m2 * t.scale[2]>>
      BY <2>2 DEF BoxSize, Times, Minus
    <3> HIDE DEF m1, m2, b
    <3>4. /\ m1 * t.scale[1] \in Int /\ Even(m1 * t.scale[1])
          /\ m2 * t.scale[2] \in Int /\ Even(m2 * t.scale[2])
      BY <3>1, <3>2, EvenTimes
    <3> QED BY <3>3, <3>4 DEF Vector
  <2> QED BY <2>1, <2>2
<1> HIDE DEF b
<1>4. b[1] \in Int /\ b[2] \in Int
  BY <1>3 DEF Vector
<1>5. Anchor(t) \in Vector
  <2>1. Anchor(t) = CASE t.align = "topLeft" -> <<0, 0>>
                      [] t.align = "center" -> <<b[1] \div 2, b[2] \div 2>>
                      [] t.align = "bottomRight" -> b
    BY DEF Anchor, b
  <2> QED BY <1>1, <1>3, <1>4, <2>1 DEF Vector
<1> QED BY <1>3, <1>5 DEF b

(* The corners of the box lie on its sides.                                  *)
LEMMA BoxSides ==
  ASSUME NEW t \in Placed
  PROVE  /\ XSides(t) \in Vector /\ YSides(t) \in Vector
         /\ {c[1] : c \in Corners(t)} = {t.pos[1] + XSides(t)[1], t.pos[1] + XSides(t)[2]}
         /\ {c[2] : c \in Corners(t)} = {t.pos[2] + YSides(t)[1], t.pos[2] + YSides(t)[2]}
         /\ Even(XSides(t)[1] + XSides(t)[2]) /\ Even(YSides(t)[1] + YSides(t)[2])
<1> DEFINE s == BoxSize(t)
           a == Anchor(t)
           Off(c) == Turned(Minus(Times(c, s), a), t.rot)
<1>1. s \in Vector /\ Even(s[1]) /\ Even(s[2]) /\ a \in Vector
  BY BoxFacts
<1>2. t.pos \in Vector /\ t.rot \in Int
  BY DEF Placed, Transform
<1>3. Corners(t) = {Plus(t.pos, Off(c)) : c \in {0, 1} \X {0, 1}}
  BY DEF Corners
<1> HIDE DEF s, a
<1>4. s[1] \in Int /\ s[2] \in Int /\ a[1] \in Int /\ a[2] \in Int /\ t.pos[1] \in Int /\ t.pos[2] \in Int
  BY <1>1, <1>2 DEF Vector
<1>5. {0, 1} \X {0, 1} = {<<0, 0>>, <<0, 1>>, <<1, 0>>, <<1, 1>>}
  OBVIOUS
<1>6. Corners(t) = {Plus(t.pos, Off(<<0, 0>>)), Plus(t.pos, Off(<<0, 1>>)),
                    Plus(t.pos, Off(<<1, 0>>)), Plus(t.pos, Off(<<1, 1>>))}
  BY <1>3, <1>5, Zenon
<1> DEFINE m(c) == Minus(Times(c, s), a)
           x == t.pos[1]
           y == t.pos[2]
<1>7. /\ m(<<0, 0>>) = <<-a[1], -a[2]>> /\ m(<<0, 1>>) = <<-a[1], s[2] - a[2]>>
      /\ m(<<1, 0>>) = <<s[1] - a[1], -a[2]>> /\ m(<<1, 1>>) = <<s[1] - a[1], s[2] - a[2]>>
  BY <1>4 DEF Minus, Times
<1>8. \A c : Off(c) = Turned(m(c), t.rot)
  OBVIOUS
<1>9. /\ XSides(t) = CASE t.rot % 4 = 0 -> <<-a[1], s[1] - a[1]>>
                       [] t.rot % 4 = 1 -> <<a[2], a[2] - s[2]>>
                       [] t.rot % 4 = 2 -> <<a[1], a[1] - s[1]>>
                       [] t.rot % 4 = 3 -> <<-a[2], s[2] - a[2]>>
      /\ YSides(t) = CASE t.rot % 4 = 0 -> <<-a[2], s[2] - a[2]>>
                       [] t.rot % 4 = 1 -> <<-a[1], s[1] - a[1]>>
                       [] t.rot % 4 = 2 -> <<a[2], a[2] - s[2]>>
                       [] t.rot % 4 = 3 -> <<a[1], a[1] - s[1]>>
  BY DEF XSides, YSides, s, a
<1>10. t.rot % 4 \in 0..3
  BY <1>2
<1> HIDE DEF m, Off
<1> DEFINE o1 == Off(<<0, 0>>)
           o2 == Off(<<0, 1>>)
           o3 == Off(<<1, 0>>)
           o4 == Off(<<1, 1>>)
<1>11. ASSUME NEW k \in {1, 2}, NEW p \in Vector, {o1[k], o2[k], o3[k], o4[k]} = {p[1], p[2]}
       PROVE  {c[k] : c \in Corners(t)} = {t.pos[k] + p[1], t.pos[k] + p[2]}
  <2>1. {c[k] : c \in Corners(t)} = {t.pos[k] + o1[k], t.pos[k] + o2[k],
                                    t.pos[k] + o3[k], t.pos[k] + o4[k]}
    BY <1>6 DEF Plus
  <2> HIDE DEF o1, o2, o3, o4
  <2> QED BY <1>11, <2>1
<1>12. CASE t.rot % 4 = 0
  <2>1. /\ Off(<<0, 0>>) = <<-a[1], -a[2]>> /\ Off(<<0, 1>>) = <<-a[1], s[2] - a[2]>>
        /\ Off(<<1, 0>>) = <<s[1] - a[1], -a[2]>> /\ Off(<<1, 1>>) = <<s[1] - a[1], s[2] - a[2]>>
    BY <1>4, <1>7, <1>8, <1>12 DEF Turned
  <2>2. /\ XSides(t) = <<-a[1], s[1] - a[1]>>
        /\ YSides(t) = <<-a[2], s[2] - a[2]>>
    BY <1>9, <1>12
  <2>3. {o1[1], o2[1], o3[1], o4[1]} = {XSides(t)[1], XSides(t)[2]}
    BY <2>1, <2>2
  <2>4. {o1[2], o2[2], o3[2], o4[2]} = {YSides(t)[1], YSides(t)[2]}
    BY <2>1, <2>2
  <2>5. Even(XSides(t)[1] + XSides(t)[2]) /\ Even(YSides(t)[1] + YSides(t)[2])
    BY <1>1, <1>4, <2>2 DEF Even
  <2>6. XSides(t) \in Vector /\ YSides(t) \in Vector
    BY <1>4, <2>2 DEF Vector
  <2>7. {c[1] : c \in Corners(t)} = {x + XSides(t)[1], x + XSides(t)[2]}
    BY <1>11, <2>3, <2>6
  <2>8. {c[2] : c \in Corners(t)} = {y + YSides(t)[1], y + YSides(t)[2]}
    BY <1>11, <2>4, <2>6
  <2> QED BY <2>5, <2>6, <2>7, <2>8
<1>13. CASE t.rot % 4 = 1
  <2>1. /\ Off(<<0, 0>>) = <<a[2], -a[1]>> /\ Off(<<0, 1>>) = <<a[2] - s[2], -a[1]>>
        /\ Off(<<1, 0>>) = <<a[2], s[1] - a[1]>> /\ Off(<<1, 1>>) = <<a[2] - s[2], s[1] - a[1]>>
    BY <1>4, <1>7, <1>8, <1>13 DEF Turned
  <2>2. /\ XSides(t) = <<a[2], a[2] - s[2]>>
        /\ YSides(t) = <<-a[1], s[1] - a[1]>>
    BY <1>9, <1>13
  <2>3. {o1[1], o2[1], o3[1], o4[1]} = {XSides(t)[1], XSides(t)[2]}
    BY <2>1, <2>2
  <2>4. {o1[2], o2[2], o3[2], o4[2]} = {YSides(t)[1], YSides(t)[2]}
    BY <2>1, <2>2
  <2>5. Even(XSides(t)[1] + XSides(t)[2]) /\ Even(YSides(t)[1] + YSides(t)[2])
    BY <1>1, <1>4, <2>2 DEF Even
  <2>6. XSides(t) \in Vector /\ YSides(t) \in Vector
    BY <1>4, <2>2 DEF Vector
  <2>7. {c[1] : c \in Corners(t)} = {x + XSides(t)[1], x + XSides(t)[2]}
    BY <1>11, <2>3, <2>6
  <2>8. {c[2] : c \in Corners(t)} = {y + YSides(t)[1], y + YSides(t)[2]}
    BY <1>11, <2>4, <2>6
  <2> QED BY <2>5, <2>6, <2>7, <2>8
<1>14. CASE t.rot % 4 = 2
  <2>1. /\ Off(<<0, 0>>) = <<a[1], a[2]>> /\ Off(<<0, 1>>) = <<a[1], a[2] - s[2]>>
        /\ Off(<<1, 0>>) = <<a[1] - s[1], a[2]>> /\ Off(<<1, 1>>) = <<a[1] - s[1], a[2] - s[2]>>
    BY <1>4, <1>7, <1>8, <1>14 DEF Turned
  <2>2. /\ XSides(t) = <<a[1], a[1] - s[1]>>
        /\ YSides(t) = <<a[2], a[2] - s[2]>>
    BY <1>9, <1>14
  <2>3. {o1[1], o2[1], o3[1], o4[1]} = {XSides(t)[1], XSides(t)[2]}
    BY <2>1, <2>2
  <2>4. {o1[2], o2[2], o3[2], o4[2]} = {YSides(t)[1], YSides(t)[2]}
    BY <2>1, <2>2
  <2>5. Even(XSides(t)[1] + XSides(t)[2]) /\ Even(YSides(t)[1] + YSides(t)[2])
    BY <1>1, <1>4, <2>2 DEF Even
  <2>6. XSides(t) \in Vector /\ YSides(t) \in Vector
    BY <1>4, <2>2 DEF Vector
  <2>7. {c[1] : c \in Corners(t)} = {x + XSides(t)[1], x + XSides(t)[2]}
    BY <1>11, <2>3, <2>6
  <2>8. {c[2] : c \in Corners(t)} = {y + YSides(t)[1], y + YSides(t)[2]}
    BY <1>11, <2>4, <2>6
  <2> QED BY <2>5, <2>6, <2>7, <2>8
<1>15. CASE t.rot % 4 = 3
  <2>1. /\ Off(<<0, 0>>) = <<-a[2], a[1]>> /\ Off(<<0, 1>>) = <<s[2] - a[2], a[1]>>
        /\ Off(<<1, 0>>) = <<-a[2], a[1] - s[1]>> /\ Off(<<1, 1>>) = <<s[2] - a[2], a[1] - s[1]>>
    BY <1>4, <1>7, <1>8, <1>15 DEF Turned
  <2>2. /\ XSides(t) = <<-a[2], s[2] - a[2]>>
        /\ YSides(t) = <<a[1], a[1] - s[1]>>
    BY <1>9, <1>15
  <2>3. {o1[1], o2[1], o3[1], o4[1]} = {XSides(t)[1], XSides(t)[2]}
    BY <2>1, <2>2
  <2>4. {o1[2], o2[2], o3[2], o4[2]} = {YSides(t)[1], YSides(t)[2]}
    BY <2>1, <2>2
  <2>5. Even(XSides(t)[1] + XSides(t)[2]) /\ Even(YSides(t)[1] + YSides(t)[2])
    BY <1>1, <1>4, <2>2 DEF Even
  <2>6. XSides(t) \in Vector /\ YSides(t) \in Vector
    BY <1>4, <2>2 DEF Vector
  <2>7. {c[1] : c \in Corners(t)} = {x + XSides(t)[1], x + XSides(t)[2]}
    BY <1>11, <2>3, <2>6
  <2>8. {c[2] : c \in Corners(t)} = {y + YSides(t)[1], y + YSides(t)[2]}
    BY <1>11, <2>4, <2>6
  <2> QED BY <2>5, <2>6, <2>7, <2>8
<1>16. t.rot % 4 = 0 \/ t.rot % 4 = 1 \/ t.rot % 4 = 2 \/ t.rot % 4 = 3
  BY <1>10
<1> QED BY <1>12, <1>13, <1>14, <1>15, <1>16, Zenon

(* The top left corner of the box, and its middle, from its sides.           *)
LEMMA BoxEdges ==
  ASSUME NEW t \in Placed
  PROVE  /\ GetItemTL(t) \in Vector
         /\ GetItemTL(t)[1] = t.pos[1] + Lower(XSides(t))
         /\ GetItemTL(t)[2] = t.pos[2] + Lower(YSides(t))
         /\ Middle(t) = <<2 * t.pos[1] + (XSides(t)[1] + XSides(t)[2]),
                          2 * t.pos[2] + (YSides(t)[1] + YSides(t)[2])>>
<1>1. t.pos \in Vector /\ XSides(t) \in Vector /\ YSides(t) \in Vector
  BY BoxSides DEF Placed, Transform
<1> DEFINE xs == {c[1] : c \in Corners(t)}
           ys == {c[2] : c \in Corners(t)}
<1>2. xs = {t.pos[1] + XSides(t)[1], t.pos[1] + XSides(t)[2]}
  BY BoxSides, Zenon
<1>3. ys = {t.pos[2] + YSides(t)[1], t.pos[2] + YSides(t)[2]}
  BY BoxSides, Zenon
<1>4. GetItemTL(t) = <<Min(xs), Min(ys)>> /\ GetItemBR(t) = <<Max(xs), Max(ys)>>
  BY DEF GetItemTL, GetItemBR
<1> HIDE DEF xs, ys
<1>5. ASSUME NEW p \in Int, NEW q \in Vector, NEW X, X = {p + q[1], p + q[2]}
      PROVE  /\ Min(X) \in Int /\ Max(X) \in Int /\ Min(X) = p + Lower(q)
             /\ Min(X) + Max(X) = 2 * p + (q[1] + q[2])
  <2> DEFINE u == p + q[1]
             v == p + q[2]
  <2>1. q[1] \in Int /\ q[2] \in Int /\ u \in Int /\ v \in Int
    BY DEF Vector
  <2> HIDE DEF u, v
  <2>2. /\ Min({u, v}) = Lower(<<u, v>>) /\ Min({u, v}) + Max({u, v}) = u + v
        /\ Min({u, v}) \in Int /\ Max({u, v}) \in Int
    BY <2>1, LeastOfTwo
  <2>3. Min(X) = Lower(<<u, v>>) /\ Min(X) + Max(X) = u + v /\ Min(X) \in Int /\ Max(X) \in Int
    BY <1>5, <2>2 DEF u, v
  <2>4. Lower(<<u, v>>) = p + Lower(q) /\ u + v = 2 * p + (q[1] + q[2])
    BY <2>1 DEF Lower, u, v
  <2> QED BY <2>3, <2>4
<1>6. t.pos[1] \in Int /\ t.pos[2] \in Int
  BY <1>1 DEF Vector
<1>7. /\ Min(xs) \in Int /\ Max(xs) \in Int /\ Min(xs) = t.pos[1] + Lower(XSides(t))
      /\ Min(xs) + Max(xs) = 2 * t.pos[1] + (XSides(t)[1] + XSides(t)[2])
  BY <1>1, <1>2, <1>5, <1>6
<1>8. /\ Min(ys) \in Int /\ Max(ys) \in Int /\ Min(ys) = t.pos[2] + Lower(YSides(t))
      /\ Min(ys) + Max(ys) = 2 * t.pos[2] + (YSides(t)[1] + YSides(t)[2])
  BY <1>1, <1>3, <1>5, <1>6
<1>9. Middle(t) = <<Min(xs) + Max(xs), Min(ys) + Max(ys)>>
  BY <1>4 DEF Middle, Plus
<1> QED BY <1>4, <1>7, <1>8, <1>9 DEF Vector

(* Two transforms of the same shape, as far as their boxes go.               *)
SameShape(t, u) ==
  /\ t.rot % 4 = u.rot % 4
  /\ t.scale = u.scale /\ t.align = u.align /\ t.bounds = u.bounds /\ t.crop = u.crop

(* The sides of the box depend on the shape alone.                           *)
LEMMA SameSides ==
  ASSUME NEW t, NEW u, SameShape(t, u)
  PROVE  XSides(t) = XSides(u) /\ YSides(t) = YSides(u)
<1>1. BoxSize(t) = BoxSize(u)
  BY DEF SameShape, BoxSize
<1>2. Anchor(t) = Anchor(u)
  BY <1>1 DEF SameShape, Anchor
<1> QED BY <1>1, <1>2 DEF SameShape, XSides, YSides

(* An item put where its box begins at a given corner.                       *)
LEMMA SetCorner ==
  ASSUME NEW t \in Placed, NEW tl \in Vector
  PROVE  /\ SetItemTL(t, tl) \in Placed
         /\ GetItemTL(SetItemTL(t, tl)) = tl
         /\ SetItemTL(t, tl).pos = Plus(t.pos, Minus(tl, GetItemTL(t)))
         /\ SetItemTL(t, tl).rot = t.rot /\ SameShape(SetItemTL(t, tl), t)
         /\ [SetItemTL(t, tl) EXCEPT !.pos = t.pos] = t
<1> DEFINE u == SetItemTL(t, tl)
           o == GetItemTL(t)
           p == Plus(t.pos, Minus(tl, o))
<1>1. o \in Vector /\ t.pos \in Vector
  BY BoxEdges DEF Placed, Transform
<1>2. /\ o[1] = t.pos[1] + Lower(XSides(t)) /\ o[2] = t.pos[2] + Lower(YSides(t))
      /\ XSides(t) \in Vector /\ YSides(t) \in Vector
  BY BoxEdges, BoxSides
<1>3. u = [t EXCEPT !.pos = p]
  BY DEF SetItemTL
<1> HIDE DEF o, u
<1>4. p \in Vector /\ p[1] = t.pos[1] + (tl[1] - o[1]) /\ p[2] = t.pos[2] + (tl[2] - o[2])
  BY <1>1 DEF Plus, Minus, Vector
<1> HIDE DEF p
<1>5. u \in Placed
  BY <1>3, <1>4 DEF Placed, Transform
<1>6. u.pos = p /\ u.rot = t.rot /\ SameShape(u, t) /\ [u EXCEPT !.pos = t.pos] = t
  BY <1>3, <1>4 DEF SameShape, Placed, Transform
<1>7. XSides(u) = XSides(t) /\ YSides(u) = YSides(t)
  BY <1>6, SameSides
<1>8. /\ GetItemTL(u) \in Vector /\ GetItemTL(u)[1] = p[1] + Lower(XSides(t))
      /\ GetItemTL(u)[2] = p[2] + Lower(YSides(t))
  BY <1>5, <1>6, <1>7, BoxEdges
<1>9. Lower(XSides(t)) \in Int /\ Lower(YSides(t)) \in Int
  BY <1>2 DEF Lower, Vector
<1>10. GetItemTL(u)[1] = tl[1] /\ GetItemTL(u)[2] = tl[2]
  BY <1>1, <1>2, <1>4, <1>8, <1>9 DEF Vector
<1>11. GetItemTL(u) = tl
  BY <1>8, <1>10 DEF Vector
<1> QED BY <1>5, <1>6, <1>11 DEF u, o, p

(* The angle stays less than a full turn, or no more than it was.            *)
Angle(rot, rot0) == \E n \in {3, rot0, -rot0} : rot \in -n..n

(* What turns and flips leave of a transform.                                *)
Kept(t, t0) ==
  /\ GetItemTL(t) = GetItemTL(t0)
  /\ t.align = t0.align /\ t.bounds = t0.bounds /\ t.crop = t0.crop
  /\ Angle(t.rot, t0.rot)

PlaceInv ==
  /\ itemEnv \in ItemEnvironments
  /\ transform \in [Items -> Placed] /\ origin \in [Items -> Placed]
  /\ selected \subseteq Items
  /\ copied \in Placed
  /\ \A i \in Items : Kept(transform[i], origin[i])

(* An item that is as it was at first.                                       *)
LEMMA KeptItself ==
  ASSUME NEW t \in Placed
  PROVE  Kept(t, t)
<1>1. t.rot \in Int
  BY DEF Placed, Transform
<1>2. Angle(t.rot, t.rot)
  BY <1>1 DEF Angle
<1> QED BY <1>2 DEF Kept

(* What the entries of the menu do to one transform.                         *)
LEMMA TurnFacts ==
  ASSUME NEW t \in Placed, NEW t0 \in Placed, Kept(t, t0), NEW by \in {1, -1, 2}
  PROVE  RotateSelectedSources(t, by) \in Placed /\ Kept(RotateSelectedSources(t, by), t0)
<1> DEFINE u == RotateSelectedSources_Turn(t, by)
           r == t.rot + by
           rot == IF r >= 4 THEN r - 4 ELSE IF r <= -4 THEN r + 4 ELSE r
           tl == GetItemTL(t)
           v == SetItemTL(u, tl)
<1>1. t.rot \in Int /\ t0.rot \in Int
  BY DEF Placed, Transform
<1>2. rot \in Int
  BY <1>1
<1>3. Angle(rot, t0.rot)
  <2>1. PICK n \in {3, t0.rot, -t0.rot} : t.rot \in -n..n
    BY DEF Kept, Angle
  <2>2. rot \in -3..3 \/ rot \in -n..n
    BY <1>1, <2>1
  <2> HIDE DEF rot
  <2> QED BY <2>1, <2>2 DEF Angle
<1>4. u = [t EXCEPT !.rot = rot]
  BY DEF RotateSelectedSources_Turn
<1> HIDE DEF u, rot
<1>5. u \in Placed
  BY <1>2, <1>4 DEF Placed, Transform
<1>6. u.rot = rot /\ u.align = t.align /\ u.bounds = t.bounds /\ u.crop = t.crop
  BY <1>4 DEF Placed, Transform
<1>7. tl \in Vector
  BY BoxEdges
<1> HIDE DEF v, tl
<1>8. v \in Placed /\ GetItemTL(v) = tl /\ v.rot = u.rot /\ SameShape(v, u)
  BY <1>5, <1>7, SetCorner DEF v
<1>9. Kept(v, t0)
  BY <1>3, <1>6, <1>8 DEF Kept, SameShape, tl
<1>10. RotateSelectedSources(t, by) = v
  BY DEF RotateSelectedSources, v, u, tl
<1> QED BY <1>8, <1>9, <1>10

(* A flip turns the scale round where the box is.                            *)
LEMMA FlipFacts ==
  ASSUME NEW t \in Placed, NEW t0 \in Placed, Kept(t, t0), NEW mul \in {<<-1, 1>>, <<1, -1>>}
  PROVE  /\ MultiplySelectedItemScale(t, mul) \in Placed
         /\ Kept(MultiplySelectedItemScale(t, mul), t0)
<1> DEFINE s == Times(t.scale, mul)
           u == [t EXCEPT !.scale = s]
           tl == GetItemTL(t)
           v == SetItemTL(u, tl)
<1>1. t.scale \in Vector /\ mul \in Vector
  BY DEF Placed, Transform, Vector
<1>2. s \in Vector
  BY <1>1 DEF Times, Vector
<1> HIDE DEF s
<1>3. u \in Placed
  BY <1>2 DEF Placed, Transform
<1>4. u.rot = t.rot /\ u.align = t.align /\ u.bounds = t.bounds /\ u.crop = t.crop
  BY DEF Placed, Transform
<1>5. tl \in Vector
  BY BoxEdges
<1> HIDE DEF u, v, tl
<1>6. v \in Placed /\ GetItemTL(v) = tl /\ v.rot = u.rot /\ SameShape(v, u)
  BY <1>3, <1>5, SetCorner DEF v
<1>7. Kept(v, t0)
  BY <1>4, <1>6 DEF Kept, SameShape, tl
<1>8. MultiplySelectedItemScale(t, mul) = v
  BY DEF MultiplySelectedItemScale, v, u, tl, s
<1> QED BY <1>6, <1>7, <1>8

(* Centering puts the middle of the box on that of the canvas: both are      *)
(* whole numbers, so that nothing is lost by halving.                        *)
LEMMA CenterFacts ==
  ASSUME NEW t \in Placed
  PROVE  /\ CenterToScreen(t) \in Placed
         /\ Middle(CenterToScreen(t)) = Screen
         /\ [CenterToScreen(t) EXCEPT !.pos = t.pos] = t
<1> DEFINE m == Middle(t)
           h == <<(Screen[1] - m[1]) \div 2, (Screen[2] - m[2]) \div 2>>
           tl == Plus(GetItemTL(t), h)
           u == SetItemTL(t, tl)
           x == XSides(t)[1] + XSides(t)[2]
           y == YSides(t)[1] + YSides(t)[2]
<1>1. t.pos \in Vector /\ GetItemTL(t) \in Vector /\ XSides(t) \in Vector /\ YSides(t) \in Vector
  BY BoxEdges, BoxSides DEF Placed, Transform
<1>2. x \in Int /\ y \in Int /\ Even(x) /\ Even(y)
  BY <1>1, BoxSides DEF Vector
<1>3. m = <<2 * t.pos[1] + x, 2 * t.pos[2] + y>>
  BY BoxEdges
<1>4. Screen \in Vector /\ Even(Screen[1]) /\ Even(Screen[2])
  BY ItemTransformAssumption DEF Even
<1>5. Screen[1] \in Int /\ Screen[2] \in Int /\ t.pos[1] \in Int /\ t.pos[2] \in Int
  BY <1>1, <1>4 DEF Vector
<1> HIDE DEF x, y, m
<1>6. m[1] \in Int /\ m[2] \in Int /\ Even(m[1]) /\ Even(m[2])
  BY <1>2, <1>3, <1>5 DEF Even
<1>7. h[1] \in Int /\ h[2] \in Int /\ 2 * h[1] = Screen[1] - m[1] /\ 2 * h[2] = Screen[2] - m[2]
  <2>1. ASSUME NEW a \in Int, NEW b \in Int, Even(a), Even(b)
        PROVE  (a - b) \div 2 \in Int /\ 2 * ((a - b) \div 2) = a - b
    <3> DEFINE d == a - b
    <3>1. d \in Int /\ d % 2 = 0
      BY <2>1 DEF Even
    <3> HIDE DEF d
    <3>2. d \div 2 \in Int /\ 2 * (d \div 2) = d
      BY <3>1
    <3> QED BY <3>2 DEF d
  <2>2. h[1] = (Screen[1] - m[1]) \div 2 /\ h[2] = (Screen[2] - m[2]) \div 2
    OBVIOUS
  <2> HIDE DEF h
  <2> QED BY <1>4, <1>5, <1>6, <2>1, <2>2
<1>7a. h = <<h[1], h[2]>>
  OBVIOUS
<1> HIDE DEF h
<1>8. tl \in Vector /\ tl[1] = GetItemTL(t)[1] + h[1] /\ tl[2] = GetItemTL(t)[2] + h[2]
  BY <1>1, <1>7, <1>7a DEF Plus, Vector
<1> HIDE DEF tl, u
<1>9. /\ u \in Placed /\ SameShape(u, t) /\ [u EXCEPT !.pos = t.pos] = t
      /\ u.pos = Plus(t.pos, Minus(tl, GetItemTL(t)))
  BY <1>8, SetCorner DEF u
<1>10. u.pos[1] = t.pos[1] + h[1] /\ u.pos[2] = t.pos[2] + h[2]
  BY <1>1, <1>5, <1>7, <1>8, <1>9 DEF Plus, Minus, Vector
<1>11. Middle(u) = <<2 * u.pos[1] + x, 2 * u.pos[2] + y>>
  BY <1>9, BoxEdges, SameSides DEF x, y
<1>12. Screen = <<Screen[1], Screen[2]>>
  BY <1>4 DEF Vector
<1>13. 2 * u.pos[1] + x = Screen[1] /\ 2 * u.pos[2] + y = Screen[2]
  <2>1. m[1] = 2 * t.pos[1] + x /\ m[2] = 2 * t.pos[2] + y
    BY <1>3
  <2> QED BY <1>2, <1>5, <1>7, <1>10, <2>1
<1>14. CenterToScreen(t) = u
  BY DEF CenterToScreen, Minus, u, tl, h, m
<1> QED BY <1>9, <1>11, <1>12, <1>13, <1>14

(* A step after which some items are as they will be measured by.            *)
LEMMA AnewStep ==
  ASSUME PlaceInv, NEW S \in SUBSET Items, NEW f \in [Items -> Placed],
         transform' = [i \in Items |-> IF i \in S THEN f[i] ELSE transform[i]],
         Anew(S), UNCHANGED <<itemEnv, selected, copied>>
  PROVE  PlaceInv'
<1> USE DEF PlaceInv
<1>1. /\ origin' = [i \in Items |-> IF i \in S THEN transform'[i] ELSE origin[i]]
      /\ \A i \in Items : transform'[i] \in Placed
  BY DEF Anew
<1>2. transform' \in [Items -> Placed] /\ origin' \in [Items -> Placed]
  BY <1>1
<1>3. ASSUME NEW i \in Items PROVE Kept(transform'[i], origin'[i])
  <2>1. CASE i \in S
    <3>1. origin'[i] = transform'[i]
      BY <1>1, <2>1
    <3> QED BY <1>1, <3>1, KeptItself
  <2>2. CASE i \notin S
    BY <1>1, <2>2
  <2> QED BY <2>1, <2>2
<1> QED BY <1>2, <1>3

(* A step that leaves the corners where they were.                           *)
LEMMA CornersStep ==
  ASSUME PlaceInv, NEW S \in SUBSET Items, NEW f \in [Items -> Placed],
         transform' = [i \in Items |-> IF i \in S THEN f[i] ELSE transform[i]],
         \A i \in Items : Kept(f[i], origin[i]),
         UNCHANGED <<itemEnv, selected, copied, origin>>
  PROVE  PlaceInv'
<1> USE DEF PlaceInv
<1>1. \A i \in Items : transform'[i] \in Placed /\ Kept(transform'[i], origin[i])
  OBVIOUS
<1>2. transform' \in [Items -> Placed]
  BY <1>1
<1> QED BY <1>1, <1>2

(* The transforms that do not come from the item are even, too.              *)
LEMMA PlacedTransforms ==
  /\ Placements \subseteq Placed
  /\ Nothing \in Placed
  /\ \A t \in Placed : ResetTransform(t) \in Placed /\ CenterAlignSelectedItems(t) \in Placed
<1>1. Placements \subseteq Placed
  BY ItemTransformAssumption DEF Placed, Even
<1>2. Nothing \in Placed
  BY DEF Nothing, Placed, Transform, Vector, Even
<1>3. ASSUME NEW t \in Placed PROVE ResetTransform(t) \in Placed
  BY DEF ResetTransform, Placed, Transform, Vector, Even
<1>4. ASSUME NEW t \in Placed PROVE CenterAlignSelectedItems(t) \in Placed
  <2>1. Screen \in Vector /\ \A k \in {1, 2} : Even(Screen[k])
    BY ItemTransformAssumption DEF Even
  <2>2. t.crop \in Vector /\ \A k \in {1, 2} : Even(t.crop[k])
    BY DEF Placed, Transform
  <2> QED BY <2>1, <2>2 DEF CenterAlignSelectedItems, Placed, Transform, Vector
<1> QED BY <1>1, <1>2, <1>3, <1>4

(* Every click keeps the invariant.                                          *)
LEMMA PlaceStep ==
  ASSUME PlaceInv, ItemNext
  PROVE  PlaceInv'
<1> USE DEF PlaceInv
<1>0. \A i \in Items : /\ transform[i] \in Placed /\ origin[i] \in Placed
                       /\ Kept(transform[i], origin[i])
  OBVIOUS
<1>1. CASE \E items \in SUBSET Items : Select(items)
  BY <1>1 DEF Select, ItemStep
<1>2. ASSUME NEW i \in Items, NEW t \in Placements, EditTransform(i, t)
      PROVE  PlaceInv'
  <2> DEFINE f == [j \in Items |-> t]
  <2>1. t \in Placed
    BY PlacedTransforms
  <2>2. f \in [Items -> Placed] /\ {i} \in SUBSET Items
    BY <2>1
  <2>3. /\ transform' = [j \in Items |-> IF j \in {i} THEN f[j] ELSE transform[j]]
        /\ Anew({i}) /\ UNCHANGED <<itemEnv, selected, copied>>
    BY <1>2 DEF EditTransform, Each, ItemStep
  <2> HIDE DEF f, PlaceInv
  <2> QED BY <2>2, <2>3, AnewStep
<1>3. CASE on_actionCopyTransform_triggered
  BY <1>0, <1>3 DEF on_actionCopyTransform_triggered, ItemStep
<1>4. CASE on_actionPasteTransform_triggered
  <2> DEFINE f == [j \in Items |-> copied]
  <2>1. f \in [Items -> Placed] /\ selected \in SUBSET Items
    OBVIOUS
  <2>2. /\ transform' = [j \in Items |-> IF j \in selected THEN f[j] ELSE transform[j]]
        /\ Anew(selected) /\ UNCHANGED <<itemEnv, selected, copied>>
    BY <1>4 DEF on_actionPasteTransform_triggered, Each, ItemStep
  <2> HIDE DEF f, PlaceInv
  <2> QED BY <2>1, <2>2, AnewStep
<1>5. CASE on_actionResetTransform_triggered
  <2> DEFINE f == [j \in Items |-> ResetTransform(transform[j])]
  <2>1. f \in [Items -> Placed] /\ selected \in SUBSET Items
    BY <1>0, PlacedTransforms
  <2>2. /\ transform' = [j \in Items |-> IF j \in selected THEN f[j] ELSE transform[j]]
        /\ Anew(selected) /\ UNCHANGED <<itemEnv, selected, copied>>
    BY <1>5 DEF on_actionResetTransform_triggered, Each, ItemStep
  <2> HIDE DEF f, PlaceInv
  <2> QED BY <2>1, <2>2, AnewStep
<1>6. ASSUME NEW by \in {1, -1, 2}, Rotate(by)
      PROVE  PlaceInv'
  <2> DEFINE f == [j \in Items |-> RotateSelectedSources(transform[j], by)]
  <2>1. /\ f \in [Items -> Placed] /\ selected \in SUBSET Items
        /\ \A i \in Items : Kept(f[i], origin[i])
    BY <1>0, TurnFacts
  <2>2. /\ transform' = [j \in Items |-> IF j \in selected THEN f[j] ELSE transform[j]]
        /\ UNCHANGED <<itemEnv, selected, copied, origin>>
    BY <1>6 DEF Rotate, Each, ItemStep
  <2> HIDE DEF f, PlaceInv
  <2> QED BY <2>1, <2>2, CornersStep
<1>7. ASSUME NEW mul \in {<<-1, 1>>, <<1, -1>>}, Flip(mul)
      PROVE  PlaceInv'
  <2> DEFINE f == [j \in Items |-> MultiplySelectedItemScale(transform[j], mul)]
  <2>1. /\ f \in [Items -> Placed] /\ selected \in SUBSET Items
        /\ \A i \in Items : Kept(f[i], origin[i])
    BY <1>0, FlipFacts
  <2>2. /\ transform' = [j \in Items |-> IF j \in selected THEN f[j] ELSE transform[j]]
        /\ UNCHANGED <<itemEnv, selected, copied, origin>>
    BY <1>7 DEF Flip, Each, ItemStep
  <2> HIDE DEF f, PlaceInv
  <2> QED BY <2>1, <2>2, CornersStep
<1>8. CASE FitToScreen
  <2> DEFINE f == [j \in Items |-> CenterAlignSelectedItems(transform[j])]
  <2>1. f \in [Items -> Placed] /\ selected \in SUBSET Items
    BY <1>0, PlacedTransforms
  <2>2. /\ transform' = [j \in Items |-> IF j \in selected THEN f[j] ELSE transform[j]]
        /\ Anew(selected) /\ UNCHANGED <<itemEnv, selected, copied>>
    BY <1>8 DEF FitToScreen, Each, ItemStep
  <2> HIDE DEF f, PlaceInv
  <2> QED BY <2>1, <2>2, AnewStep
<1>9. CASE on_actionCenterToScreen_triggered
  <2> DEFINE f == [j \in Items |-> CenterToScreen(transform[j])]
  <2>1. f \in [Items -> Placed] /\ selected \in SUBSET Items
    BY <1>0, CenterFacts
  <2>2. /\ transform' = [j \in Items |-> IF j \in selected THEN f[j] ELSE transform[j]]
        /\ Anew(selected) /\ UNCHANGED <<itemEnv, selected, copied>>
    BY <1>9 DEF on_actionCenterToScreen_triggered, Each, ItemStep
  <2> HIDE DEF f, PlaceInv
  <2> QED BY <2>1, <2>2, AnewStep
<1>10. ASSUME NEW dir \in {<<0, -2>>, <<0, 2>>, <<-2, 0>>, <<2, 0>>}, Nudge(dir)
       PROVE  PlaceInv'
  <2> DEFINE f == [j \in Items |-> [transform[j] EXCEPT !.pos = Plus(@, dir)]]
             S == selected \ itemEnv.locked
  <2>1. ASSUME NEW t \in Placed PROVE [t EXCEPT !.pos = Plus(@, dir)] \in Placed
    <3> DEFINE p == Plus(t.pos, dir)
    <3>1. t.pos \in Vector
      BY DEF Placed, Transform
    <3>2. p \in Vector
      BY <3>1 DEF Plus, Vector
    <3> HIDE DEF p
    <3>3. [t EXCEPT !.pos = p] \in Placed
      BY <3>2 DEF Placed, Transform
    <3> QED BY <3>3 DEF p
  <2>2. f \in [Items -> Placed] /\ S \in SUBSET Items
    BY <1>0, <2>1
  <2>3. /\ transform' = [j \in Items |-> IF j \in S THEN f[j] ELSE transform[j]]
        /\ Anew(S) /\ UNCHANGED <<itemEnv, selected, copied>>
    BY <1>10 DEF Nudge, Each, ItemStep
  <2> HIDE DEF f, PlaceInv
  <2> QED BY <2>2, <2>3, AnewStep
<1> QED BY <1>1, <1>2, <1>3, <1>4, <1>5, <1>6, <1>7, <1>8, <1>9, <1>10 DEF ItemNext

(* Turns and flips leave the corner of an item's box where it was and, if    *)
(* they add up to nothing, put the item back exactly; centering puts the     *)
(* middle of the box on that of the canvas and changes nothing else.         *)
THEOREM PlaceCorrect == Spec => PlaceKept
<1>1. Init => PlaceInv
  <2> SUFFICES ASSUME Init PROVE PlaceInv
    OBVIOUS
  <2>1. Surroundings("items", ItemEnvironments) \subseteq ItemEnvironments
    BY SomeSurroundings, ItemTransformAssumption
  <2>2. /\ itemEnv \in ItemEnvironments /\ transform = itemEnv.start /\ origin = transform
        /\ selected = {} /\ copied = Nothing
    BY <2>1 DEF Init, ItemInit
  <2>3. transform \in [Items -> Placed]
    BY <2>2, ItemTransformAssumption, PlacedTransforms DEF ItemEnvironment
  <2>4. \A i \in Items : Kept(transform[i], origin[i])
    BY <2>2, <2>3, KeptItself
  <2> QED BY <2>2, <2>3, <2>4, PlacedTransforms DEF PlaceInv
<1>2. PlaceInv /\ [Next]_windowVars => PlaceInv'
  <2> SUFFICES ASSUME PlaceInv, [Next]_windowVars PROVE PlaceInv'
    OBVIOUS
  <2>1. CASE ItemNext
    BY <2>1, PlaceStep
  <2>2. CASE UNCHANGED itemVars
    BY <2>2 DEF itemVars, PlaceInv
  <2> QED BY <2>1, <2>2, OtherParts
<1> DEFINE Place ==
             \A i \in Items :
               /\ \E n \in {3, origin[i].rot, -origin[i].rot} : transform[i].rot \in -n..n
               /\ GetItemTL(transform[i]) = GetItemTL(origin[i])
               /\ transform[i].rot % 4 = origin[i].rot % 4 /\ transform[i].scale = origin[i].scale
                    => transform[i].pos = origin[i].pos
           Centered ==
             on_actionCenterToScreen_triggered =>
               \A i \in selected :
                 /\ Middle(transform'[i]) = Screen
                 /\ [transform'[i] EXCEPT !.pos = transform[i].pos] = transform[i]
<1>3. PlaceInv => Place
  <2> SUFFICES ASSUME PlaceInv, NEW i \in Items
               PROVE  /\ Angle(transform[i].rot, origin[i].rot)
                      /\ GetItemTL(transform[i]) = GetItemTL(origin[i])
                      /\ transform[i].rot % 4 = origin[i].rot % 4 /\ transform[i].scale = origin[i].scale
                           => transform[i].pos = origin[i].pos
    BY DEF Angle
  <2> DEFINE t == transform[i]
             o == origin[i]
  <2>1. t \in Placed /\ o \in Placed /\ Kept(t, o)
    BY DEF PlaceInv
  <2>2. ASSUME t.rot % 4 = o.rot % 4, t.scale = o.scale
        PROVE  t.pos = o.pos
    <3>1. SameShape(t, o)
      BY <2>1, <2>2 DEF Kept, SameShape
    <3>2. /\ GetItemTL(t)[1] = t.pos[1] + Lower(XSides(t)) /\ GetItemTL(t)[2] = t.pos[2] + Lower(YSides(t))
          /\ GetItemTL(t)[1] = o.pos[1] + Lower(XSides(t)) /\ GetItemTL(t)[2] = o.pos[2] + Lower(YSides(t))
      BY <2>1, <3>1, BoxEdges, SameSides DEF Kept
    <3>3. Lower(XSides(t)) \in Int /\ Lower(YSides(t)) \in Int
      BY <2>1, BoxSides DEF Lower, Vector
    <3>4. t.pos \in Vector /\ o.pos \in Vector
      BY <2>1 DEF Placed, Transform
    <3> DEFINE lx == Lower(XSides(t))
               ly == Lower(YSides(t))
    <3>5. t.pos[1] + lx = o.pos[1] + lx /\ t.pos[2] + ly = o.pos[2] + ly
      BY <3>2
    <3>6. /\ t.pos[1] \in Int /\ t.pos[2] \in Int /\ o.pos[1] \in Int /\ o.pos[2] \in Int
          /\ lx \in Int /\ ly \in Int
      BY <3>3, <3>4 DEF Vector
    <3> HIDE DEF t, o, lx, ly
    <3>7. t.pos[1] = o.pos[1] /\ t.pos[2] = o.pos[2]
      <4>1. \A a, b, c \in Int : a + c = b + c => a = b
        OBVIOUS
      <4> QED BY <3>5, <3>6, <4>1, Zenon
    <3> QED BY <3>4, <3>7 DEF Vector
  <2> QED BY <2>1, <2>2 DEF Kept
<1>4. PlaceInv => Centered
  <2> SUFFICES ASSUME PlaceInv, on_actionCenterToScreen_triggered, NEW i \in selected
               PROVE  /\ Middle(transform'[i]) = Screen
                      /\ [transform'[i] EXCEPT !.pos = transform[i].pos] = transform[i]
    OBVIOUS
  <2>1. i \in Items /\ transform[i] \in Placed
    BY DEF PlaceInv
  <2>2. transform'[i] = CenterToScreen(transform[i])
    BY <2>1 DEF on_actionCenterToScreen_triggered, Each
  <2> QED BY <2>1, <2>2, CenterFacts
<1> HIDE DEF Place, Centered
<1>5. Spec => []PlaceInv
  BY <1>1, <1>2, PTL DEF Spec
<1>6. []PlaceInv => []Place /\ [][Centered]_itemVars
  BY <1>3, <1>4, PTL
<1> QED BY <1>5, <1>6 DEF PlaceKept, Place, Centered

-----------------------------------------------------------------------------
(* The mixer and the projectors.                                             *)

Kinds == {"activate", "deactivate"}
Control == [source : Sources, name : Names]
ViewSlot ==
  [slot : Kinds, source : Sources]
    \cup [slot : {"rename"}, source : Sources, newName : Names, prevName : Names]

(* What waits may turn a source on or off, or give it another name.          *)
Turn(x, s) == x.slot \in Kinds /\ x.source = s
Rename(x) == x.slot = "rename"

(* Of some controls: those of a source are any, or one at most.              *)
Shows(vols, s) == \E i \in DOMAIN vols : vols[i].source = s
AtMostOne(vols, s) ==
  \A i, j \in DOMAIN vols : vols[i].source = s /\ vols[j].source = s => i = j

ViewTypes ==
  /\ name \in [Sources -> Names \cup {NoName}] /\ IsFiniteSet(Existing)
  /\ active \subseteq Existing /\ hidden \subseteq Existing
  /\ volumes \in Seq(Control) /\ \A i \in DOMAIN volumes : volumes[i].source \in Existing
  /\ slots \in Seq(ViewSlot) /\ \A i \in DOMAIN slots : slots[i].source \in Existing
  /\ projectors \in [Monitors -> Existing \cup {"preview", Nobody}]
  /\ projectorArray \in [Monitors -> Names \cup {NoName}]
  /\ previewArray \in [Monitors -> BOOLEAN]

(* No two sources have a name, nor has one a name whose change waits.        *)
Unique ==
  /\ \A s, t \in Existing : name[s] = name[t] => s = t
  /\ \A i \in DOMAIN slots : Rename(slots[i]) => \A s \in Sources : name[s] # slots[i].prevName
  /\ \A i, j \in DOMAIN slots :
       Rename(slots[i]) /\ Rename(slots[j]) /\ slots[i].prevName = slots[j].prevName => i = j

(* The slots after number k make n the name of the source.                   *)
Leads(n, s, k) ==
  \/ n = name[s]
  \/ \E j \in DOMAIN slots :
       j > k /\ Rename(slots[j]) /\ slots[j].source = s /\ slots[j].prevName = n

(* What the window knows by its name becomes right with the slots.           *)
Leading ==
  /\ \A i \in DOMAIN slots :
       Rename(slots[i]) /\ slots[i].source \notin odd
         => Leads(slots[i].newName, slots[i].source, i)
  /\ \A i \in DOMAIN volumes :
       volumes[i].source \notin odd => Leads(volumes[i].name, volumes[i].source, 0)
  /\ \A m \in Monitors :
       projectors[m] \in Sources \ odd => Leads(projectorArray[m], projectors[m], 0)

Saved ==
  \A m \in Monitors :
    /\ projectors[m] = "preview" => previewArray[m]
    /\ ~(previewArray[m] /\ projectorArray[m] # NoName)

(* The slots in q turn the source from one state to another: f is what it    *)
(* was last turned to.                                                       *)
Course(q, s, from, to) ==
  \E f \in [0..Len(q) -> Kinds] :
    /\ f[0] = from
    /\ \A i \in 1..Len(q) :
         IF Turn(q[i], s) THEN f[i] = q[i].slot /\ f[i - 1] # f[i] ELSE f[i] = f[i - 1]
    /\ \A i \in 0..Len(q) : (\A k \in 1..Len(q) : k > i => ~Turn(q[k], s)) => f[i] = to

LastTurn(s) == IF s \in active THEN "activate" ELSE "deactivate"

(* The mixer shows what is right for the state before the slots.             *)
Shown(s) ==
  \E from \in Kinds :
    /\ Course(slots, s, from, LastTurn(s))
    /\ Shows(volumes, s) <=> (from = "activate" /\ s \notin hidden)

Mixer == \A s \in Sources \ odd : AtMostOne(volumes, s) /\ Shown(s)

ViewInv == ViewTypes /\ Unique /\ Leading /\ Saved /\ Mixer

-----------------------------------------------------------------------------
(* Lists of controls.                                                        *)

(* What becomes of a list when controls of some sources are added to it.     *)
Grown(v, w, on) ==
  /\ w \in Seq(Control)
  /\ \A j \in DOMAIN w :
       \/ \E i \in DOMAIN v : w[j] = v[i]
       \/ w[j].source \in on /\ w[j].name = name[w[j].source]
  /\ \A s \in Sources :
       /\ Shows(w, s) <=> Shows(v, s) \/ s \in on
       /\ AtMostOne(v, s) /\ ~(Shows(v, s) /\ s \in on) => AtMostOne(w, s)

(* What becomes of a list that loses a control of a source.                  *)
Shrunk(v, w, s) ==
  /\ w \in Seq(Control)
  /\ \A j \in DOMAIN w : \E i \in DOMAIN v : w[j] = v[i]
  /\ \A t \in Sources :
       /\ t # s => (Shows(w, t) <=> Shows(v, t))
       /\ AtMostOne(v, t) => AtMostOne(w, t)
  /\ AtMostOne(v, s) => ~Shows(w, s)

(* The sources that exist have names.                                        *)
LEMMA Named ==
  ASSUME ViewTypes
  PROVE  /\ Existing \subseteq Sources
         /\ \A s \in Existing : name[s] \in Names
         /\ \A s \in Sources : s \notin Existing => name[s] = NoName
<1>1. name \in [Sources -> Names \cup {NoName}]
  BY DEF ViewTypes
<1> QED BY <1>1 DEF Existing

(* A list with new controls at its end.                                      *)
LEMMA Concatenated ==
  ASSUME NEW v \in Seq(Control), NEW c \in Seq(Control), NEW on \in SUBSET Sources,
         \A i \in DOMAIN c : c[i].source \in on /\ c[i].name = name[c[i].source],
         \A s \in on : Shows(c, s),
         \A s \in Sources : AtMostOne(c, s)
  PROVE  Grown(v, v \o c, on)
<1> DEFINE w == v \o c
           m == Len(v)
           n == Len(c)
<1>1. /\ m \in Nat /\ n \in Nat /\ DOMAIN v = 1..m /\ DOMAIN c = 1..n
      /\ w \in Seq(Control) /\ DOMAIN w = 1..(m + n)
  OBVIOUS
<1>2. /\ \A i \in 1..m : w[i] = v[i]
      /\ \A i \in 1..n : w[m + i] = c[i]
  OBVIOUS
<1>3. \A j \in 1..(m + n) : j \in 1..m \/ ((j - m) \in 1..n /\ j = m + (j - m))
  BY <1>1
<1>4. \A i \in 1..n : m + i \in 1..(m + n)
  BY <1>1
<1> HIDE DEF w, m, n
<1>5. \A j \in DOMAIN w : \/ j \in DOMAIN v /\ w[j] = v[j]
                          \/ (j - m) \in DOMAIN c /\ w[j] = c[j - m]
  BY <1>1, <1>2, <1>3
<1>6. \A j \in DOMAIN w :
        \/ \E i \in DOMAIN v : w[j] = v[i]
        \/ w[j].source \in on /\ w[j].name = name[w[j].source]
  BY <1>5, Zenon
<1>7. ASSUME NEW s \in Sources
      PROVE  Shows(w, s) <=> Shows(v, s) \/ s \in on
  <2>1. ASSUME Shows(w, s) PROVE Shows(v, s) \/ s \in on
    <3>1. PICK j \in DOMAIN w : w[j].source = s
      BY <2>1 DEF Shows
    <3> QED BY <1>5, <3>1 DEF Shows
  <2>2. ASSUME Shows(v, s) PROVE Shows(w, s)
    BY <1>1, <1>2, <2>2 DEF Shows
  <2>3. ASSUME s \in on PROVE Shows(w, s)
    <3>1. PICK i \in 1..n : c[i].source = s
      BY <1>1, <2>3 DEF Shows
    <3> QED BY <1>1, <1>2, <1>4, <3>1 DEF Shows
  <2> QED BY <2>1, <2>2, <2>3
<1>8. ASSUME NEW s \in Sources, AtMostOne(v, s), ~(Shows(v, s) /\ s \in on)
      PROVE  AtMostOne(w, s)
  <2> SUFFICES ASSUME NEW i \in DOMAIN w, NEW j \in DOMAIN w, w[i].source = s, w[j].source = s
               PROVE  i = j
    BY DEF AtMostOne
  <2>1. CASE s \in on
    <3>1. \A k \in DOMAIN v : v[k].source # s
      BY <1>8, <2>1 DEF Shows
    <3>2. (i - m) \in DOMAIN c /\ c[i - m].source = s /\ (j - m) \in DOMAIN c /\ c[j - m].source = s
      BY <1>5, <3>1
    <3>3. i - m = j - m
      BY <3>2 DEF AtMostOne
    <3> QED BY <1>1, <3>3
  <2>2. CASE s \notin on
    <3>1. i \in DOMAIN v /\ v[i].source = s /\ j \in DOMAIN v /\ v[j].source = s
      BY <1>5, <2>2
    <3> QED BY <1>8, <3>1 DEF AtMostOne
  <2> QED BY <2>1, <2>2
<1> QED BY <1>1, <1>6, <1>7, <1>8 DEF Grown, w

(* The controls of several sources, one for each.                            *)
LEMMA ControlsFacts ==
  ASSUME ViewTypes, NEW on \in SUBSET Existing
  PROVE  /\ Controls(on) \in Seq(Control)
         /\ \A i \in DOMAIN Controls(on) :
              Controls(on)[i].source \in on /\ Controls(on)[i].name = name[Controls(on)[i].source]
         /\ \A s \in on : Shows(Controls(on), s)
         /\ \A s \in Sources : AtMostOne(Controls(on), s)
<1> DEFINE C == {[source |-> s, name |-> name[s]] : s \in on}
           q == Controls(on)
           n == Cardinality(C)
<1>1. IsFiniteSet(C)
  <2>1. IsFiniteSet(Existing)
    BY DEF ViewTypes
  <2>2. IsFiniteSet(on)
    BY <2>1, FS_Subset, Zenon
  <2> DEFINE f == [s \in on |-> [source |-> s, name |-> name[s]]]
  <2>3. f \in Surjection(on, C)
    BY DEF Surjection
  <2> HIDE DEF f, C
  <2> QED BY <2>2, <2>3, FS_Surjection
<1>2. n \in Nat /\ ExistsBijection(1..n, C)
  BY <1>1, FS_CardinalityType
<1>3. PICK b : b \in Bijection(1..n, C)
  BY <1>2 DEF ExistsBijection
<1>4. b \in [1..n -> C] /\ IsInjective(b)
  BY <1>3 DEF Bijection, Injection
<1>5. q = SetToSeq(C)
  BY DEF Controls
<1> HIDE DEF C, q
<1>6. q \in [1..n -> C] /\ IsInjective(q)
  BY <1>4, <1>5 DEF SetToSeq
<1> HIDE DEF n
<1>7. q \in Injection(1..n, C)
  BY <1>6 DEF Injection
<1>8. IsFiniteSet(1..n) /\ Cardinality(1..n) = n
  BY <1>2, FS_Interval
<1>9. q \in Surjection(1..n, C)
  BY <1>1, <1>7, <1>8, FS_Injection DEF n
<1>10. \A c \in C : \E i \in 1..n : q[i] = c
  BY <1>9 DEF Surjection
<1>11. C \subseteq Control
  <2>1. Existing \subseteq Sources /\ \A s \in Existing : name[s] \in Names
    BY Named, Zenon
  <2> QED BY <2>1 DEF C, Control
<1>12. q \in Seq(Control) /\ DOMAIN q = 1..n
  BY <1>2, <1>6, <1>11
<1>13. \A c \in C : c.source \in on /\ c.name = name[c.source]
  BY DEF C
<1>14. \A i \in DOMAIN q : q[i].source \in on /\ q[i].name = name[q[i].source]
  BY <1>6, <1>12, <1>13
<1>15. ASSUME NEW s \in on PROVE Shows(q, s)
  <2>1. [source |-> s, name |-> name[s]] \in C
    BY DEF C
  <2>2. PICK i \in 1..n : q[i] = [source |-> s, name |-> name[s]]
    BY <1>10, <2>1
  <2> QED BY <1>12, <2>2 DEF Shows
<1>16. ASSUME NEW s \in Sources PROVE AtMostOne(q, s)
  <2>1. \A c, d \in C : c.source = d.source => c = d
    BY DEF C
  <2> QED BY <1>6, <1>12, <2>1 DEF AtMostOne, IsInjective
<1> QED BY <1>12, <1>14, <1>15, <1>16 DEF q

(* A source becomes active: it gets a control unless it is hidden.           *)
LEMMA ActivateFacts ==
  ASSUME ViewTypes, NEW v \in Seq(Control), NEW s \in Existing, NEW hid
  PROVE  Grown(v, ActivateAudioSource(v, s, hid), {s} \ hid)
<1> DEFINE c == [source |-> s, name |-> name[s]]
<1>1. s \in Sources /\ name[s] \in Names /\ c \in Control
  <2>1. s \in Sources /\ name[s] \in Names
    BY Named, Zenon
  <2> QED BY <2>1 DEF Control
<1>2. CASE s \in hid
  <2>1. ActivateAudioSource(v, s, hid) = v /\ {s} \ hid = {}
    BY <1>2 DEF ActivateAudioSource
  <2>2. Grown(v, v, {})
    BY DEF Grown
  <2> QED BY <2>1, <2>2
<1>3. CASE s \notin hid
  <2>1. ActivateAudioSource(v, s, hid) = v \o <<c>> /\ {s} \ hid = {s}
    BY <1>1, <1>3 DEF ActivateAudioSource
  <2> DEFINE q == <<c>>
  <2>2. q \in Seq(Control) /\ DOMAIN q = {1} /\ q[1] = c
    BY <1>1
  <2>3. c.source = s /\ c.name = name[s]
    OBVIOUS
  <2> HIDE DEF c, q
  <2>4. \A i \in DOMAIN q : q[i].source \in {s} /\ q[i].name = name[q[i].source]
    BY <2>2, <2>3
  <2>5. \A t \in {s} : Shows(q, t)
    BY <2>2, <2>3 DEF Shows
  <2>6. \A t \in Sources : AtMostOne(q, t)
    BY <2>2 DEF AtMostOne
  <2>7. {s} \in SUBSET Sources
    BY <1>1
  <2>8. Grown(v, v \o q, {s})
    BY <2>2, <2>4, <2>5, <2>6, <2>7, Concatenated
  <2> QED BY <2>1, <2>8 DEF q
<1> QED BY <1>2, <1>3

(* A source becomes inactive: the first of its controls goes.                *)
LEMMA DeactivateFacts ==
  ASSUME NEW v \in Seq(Control), NEW s \in Sources
  PROVE  Shrunk(v, DeactivateAudioSource(v, s), s)
<1> DEFINE I == {k \in 1..Len(v) : v[k].source = s}
           i == IF I # {} THEN Min(I) ELSE 0
<1> SUFFICES ASSUME NEW w, w = DeactivateAudioSource(v, s)
             PROVE  Shrunk(v, w, s)
  OBVIOUS
<1>1. w = IF i = 0 THEN v ELSE RemoveAt(v, i)
  BY DEF DeactivateAudioSource, SelectInSeq
<1>2. CASE I = {}
  <2>1. w = v
    BY <1>1, <1>2
  <2>2. ~Shows(v, s)
    BY <1>2 DEF Shows
  <2> QED BY <2>1, <2>2 DEF Shrunk
<1>3. CASE I # {}
  <2> DEFINE n == Len(v)
  <2>1. Min(I) \in I
    BY <1>3, LeastIsIn
  <2>2. i = Min(I)
    BY <1>3
  <2>3. i \in 1..n /\ v[i].source = s
    BY <2>1, <2>2
  <2>4. n \in Nat /\ DOMAIN v = 1..n
    OBVIOUS
  <2> HIDE DEF i, I
  <2>5. w = RemoveAt(v, i)
    BY <1>1, <2>3
  <2> DEFINE a == SubSeq(v, 1, i - 1)
             b == SubSeq(v, i + 1, n)
  <2>6. /\ a \in Seq(Control) /\ Len(a) = i - 1
        /\ \A j \in 1..(i - 1) : a[j] = v[j]
    BY <2>3
  <2>7. /\ b \in Seq(Control) /\ Len(b) = n - i
        /\ \A j \in 1..(n - i) : b[j] = v[i + j]
    BY <2>3
  <2>8. w = a \o b
    BY <2>5 DEF RemoveAt
  <2> HIDE DEF a, b, n
  <2>9. /\ w \in Seq(Control) /\ DOMAIN w = 1..(n - 1)
        /\ \A j \in 1..(n - 1) : w[j] = v[IF j < i THEN j ELSE j + 1]
    <3>1. w \in Seq(Control) /\ Len(w) = n - 1
      BY <2>3, <2>4, <2>6, <2>7, <2>8
    <3>2. \A j \in 1..(n - 1) : w[j] = IF j <= i - 1 THEN a[j] ELSE b[j - (i - 1)]
      BY <2>3, <2>4, <2>6, <2>7, <2>8
    <3>3. ASSUME NEW j \in 1..(n - 1) PROVE w[j] = v[IF j < i THEN j ELSE j + 1]
      <4>1. CASE j < i
        BY <2>3, <2>4, <2>6, <3>2, <4>1
      <4>2. CASE ~(j < i)
        <5>1. j - (i - 1) \in 1..(n - i) /\ i + (j - (i - 1)) = j + 1
          BY <2>3, <2>4, <4>2
        <5> QED BY <2>3, <2>4, <2>7, <3>2, <4>2, <5>1
      <4> QED BY <4>1, <4>2
    <3> QED BY <3>1, <3>3
  <2> DEFINE at(j) == IF j < i THEN j ELSE j + 1
  <2>10. \A j \in 1..(n - 1) : at(j) \in 1..n /\ at(j) # i
    BY <2>3, <2>4
  <2>11. \A k \in 1..n : k # i => \E j \in 1..(n - 1) : at(j) = k
    <3> SUFFICES ASSUME NEW k \in 1..n, k # i
                 PROVE  \E j \in 1..(n - 1) : at(j) = k
      OBVIOUS
    <3>1. CASE k < i
      BY <2>3, <2>4, <3>1
    <3>2. CASE k > i
      <4>1. k - 1 \in 1..(n - 1) /\ at(k - 1) = k
        BY <2>3, <2>4, <3>2
      <4> QED BY <4>1
    <3> QED BY <2>3, <2>4, <3>1, <3>2
  <2>12. \A j, k \in 1..(n - 1) : at(j) = at(k) => j = k
    BY <2>3, <2>4
  <2>13. \A j \in 1..(n - 1) : w[j] = v[at(j)]
    BY <2>9
  <2> HIDE DEF at
  <2>14. \A j \in DOMAIN w : \E k \in DOMAIN v : w[j] = v[k]
    BY <2>4, <2>9, <2>10, <2>13, Zenon
  <2>15. ASSUME NEW t \in Sources, t # s
         PROVE  Shows(w, t) <=> Shows(v, t)
    <3>1. ASSUME Shows(w, t) PROVE Shows(v, t)
      BY <2>14, <3>1, Zenon DEF Shows
    <3>2. ASSUME Shows(v, t) PROVE Shows(w, t)
      <4>1. PICK k \in 1..n : v[k].source = t
        BY <2>4, <3>2 DEF Shows
      <4>2. k # i
        BY <2>3, <2>15, <4>1
      <4>3. PICK j \in 1..(n - 1) : at(j) = k
        BY <2>11, <4>2
      <4> QED BY <2>9, <2>13, <4>1, <4>3 DEF Shows
    <3> QED BY <3>1, <3>2
  <2>16. ASSUME NEW t \in Sources, AtMostOne(v, t)
         PROVE  AtMostOne(w, t)
    <3> SUFFICES ASSUME NEW j \in 1..(n - 1), NEW k \in 1..(n - 1),
                        w[j].source = t, w[k].source = t
                 PROVE  j = k
      BY <2>9 DEF AtMostOne
    <3>1. at(j) = at(k)
      BY <2>4, <2>10, <2>13, <2>16 DEF AtMostOne
    <3> QED BY <2>12, <3>1
  <2>17. ASSUME AtMostOne(v, s)
         PROVE  ~Shows(w, s)
    <3> SUFFICES ASSUME NEW j \in 1..(n - 1), w[j].source = s
                 PROVE  FALSE
      BY <2>9 DEF Shows
    <3>1. at(j) = i
      BY <2>3, <2>4, <2>10, <2>13, <2>17 DEF AtMostOne
    <3> QED BY <2>10, <3>1
  <2> QED BY <2>9, <2>14, <2>15, <2>16, <2>17 DEF Shrunk
<1> QED BY <1>2, <1>3

-----------------------------------------------------------------------------
(* Courses.                                                                  *)

(* Without a turn of the source, what it was is what it is.                  *)
LEMMA CourseStill ==
  ASSUME NEW q \in Seq(ViewSlot), NEW s, NEW a \in Kinds,
         \A i \in DOMAIN q : ~Turn(q[i], s)
  PROVE  /\ Course(q, s, a, a)
         /\ \A b : Course(q, s, b, a) => b = a
<1>1. Len(q) \in Nat /\ DOMAIN q = 1..Len(q)
  OBVIOUS
<1> DEFINE n == Len(q)
<1>2. Course(q, s, a, a)
  <2> DEFINE f == [i \in 0..n |-> a]
  <2>1. /\ f \in [0..n -> Kinds] /\ \A i \in 0..n : f[i] = a
        /\ 0 \in 0..n /\ \A i \in 1..n : i \in 0..n /\ i - 1 \in 0..n
    BY <1>1
  <2> HIDE DEF f, n
  <2>2. /\ f[0] = a
        /\ \A i \in 1..n : ~Turn(q[i], s) /\ f[i] = f[i - 1]
        /\ \A i \in 0..n : f[i] = a
    BY <1>1, <2>1 DEF n
  <2> QED BY <2>1, <2>2 DEF Course, n
<1>3. ASSUME NEW b, Course(q, s, b, a) PROVE b = a
  <2>1. PICK f \in [0..n -> Kinds] :
          /\ f[0] = b
          /\ \A i \in 0..n : (\A k \in 1..n : k > i => ~Turn(q[k], s)) => f[i] = a
    BY <1>3 DEF Course
  <2> QED BY <1>1, <2>1
<1> QED BY <1>2, <1>3

(* The first slot runs.                                                      *)
LEMMA CourseTail ==
  ASSUME NEW q \in Seq(ViewSlot), q # <<>>, NEW s, NEW from, NEW to, Course(q, s, from, to)
  PROVE  IF Turn(Head(q), s)
         THEN Head(q).slot # from /\ Course(Tail(q), s, Head(q).slot, to)
         ELSE Course(Tail(q), s, from, to)
<1> DEFINE n == Len(q)
           r == Tail(q)
<1>1. /\ n \in Nat /\ n >= 1 /\ r \in Seq(ViewSlot) /\ Len(r) = n - 1
      /\ \A i \in 1..(n - 1) : r[i] = q[i + 1]
      /\ Head(q) = q[1]
  OBVIOUS
<1>2. PICK f \in [0..n -> Kinds] :
        /\ f[0] = from
        /\ \A i \in 1..n :
             IF Turn(q[i], s) THEN f[i] = q[i].slot /\ f[i - 1] # f[i] ELSE f[i] = f[i - 1]
        /\ \A i \in 0..n : (\A k \in 1..n : k > i => ~Turn(q[k], s)) => f[i] = to
  BY DEF Course
<1> DEFINE g == [i \in 0..(n - 1) |-> f[i + 1]]
<1>3. g \in [0..(n - 1) -> Kinds] /\ \A i \in 0..(n - 1) : g[i] = f[i + 1]
  BY <1>1
<1> HIDE DEF g, n, r
<1>4. IF Turn(q[1], s) THEN f[1] = q[1].slot /\ from # f[1] ELSE f[1] = from
  BY <1>1, <1>2
<1>5. g[0] = f[1]
  BY <1>1, <1>3
<1>6. ASSUME NEW i \in 1..(n - 1)
      PROVE  IF Turn(r[i], s) THEN g[i] = r[i].slot /\ g[i - 1] # g[i] ELSE g[i] = g[i - 1]
  <2>1. /\ i + 1 \in 1..n /\ i \in 0..(n - 1) /\ i - 1 \in 0..(n - 1)
        /\ i + 1 - 1 = i /\ i - 1 + 1 = i
    BY <1>1
  <2>2. g[i] = f[i + 1] /\ g[i - 1] = f[i] /\ r[i] = q[i + 1]
    BY <1>1, <1>3, <2>1
  <2>3. IF Turn(q[i + 1], s) THEN f[i + 1] = q[i + 1].slot /\ f[i] # f[i + 1] ELSE f[i + 1] = f[i]
    BY <1>2, <2>1
  <2> QED BY <2>2, <2>3
<1>7. ASSUME NEW i \in 0..(n - 1), \A k \in 1..(n - 1) : k > i => ~Turn(r[k], s)
      PROVE  g[i] = to
  <2>1. ASSUME NEW k \in 1..n, k > i + 1 PROVE ~Turn(q[k], s)
    <3>1. k - 1 \in 1..(n - 1) /\ k - 1 > i /\ (k - 1) + 1 = k
      BY <1>1, <2>1
    <3> QED BY <1>1, <1>7, <3>1
  <2>2. i + 1 \in 0..n
    BY <1>1
  <2> QED BY <1>2, <1>3, <2>1, <2>2
<1>8. Course(r, s, f[1], to)
  BY <1>1, <1>3, <1>5, <1>6, <1>7 DEF Course
<1> QED BY <1>1, <1>4, <1>8 DEF r

(* A slot waits behind the others.                                           *)
LEMMA CourseAppend ==
  ASSUME NEW q \in Seq(ViewSlot), NEW x \in ViewSlot, NEW s, NEW from, NEW to,
         Course(q, s, from, to), Turn(x, s) => x.slot # to
  PROVE  Course(Append(q, x), s, from, IF Turn(x, s) THEN x.slot ELSE to)
<1> DEFINE n == Len(q)
           r == Append(q, x)
           end == IF Turn(x, s) THEN x.slot ELSE to
<1>1. /\ n \in Nat /\ Len(r) = n + 1
      /\ \A i \in 1..n : r[i] = q[i]
      /\ r[n + 1] = x
  OBVIOUS
<1>2. PICK f \in [0..n -> Kinds] :
        /\ f[0] = from
        /\ \A i \in 1..n :
             IF Turn(q[i], s) THEN f[i] = q[i].slot /\ f[i - 1] # f[i] ELSE f[i] = f[i - 1]
        /\ \A i \in 0..n : (\A k \in 1..n : k > i => ~Turn(q[k], s)) => f[i] = to
  BY DEF Course
<1>3. f[n] = to /\ to \in Kinds
  <2>1. n \in 0..n /\ \A k \in 1..n : ~(k > n)
    BY <1>1
  <2>2. f[n] = to
    BY <1>2, <2>1
  <2> QED BY <2>1, <2>2
<1>4. end \in Kinds
  BY <1>3 DEF Turn
<1> DEFINE g == [i \in 0..(n + 1) |-> IF i <= n THEN f[i] ELSE end]
<1> HIDE DEF end
<1>5. /\ g \in [0..(n + 1) -> Kinds]
      /\ \A i \in 0..n : g[i] = f[i]
      /\ g[n + 1] = end
  <2>1. \A i \in 0..(n + 1) : i <= n => i \in 0..n
    BY <1>1
  <2>2. g \in [0..(n + 1) -> Kinds]
    BY <1>4, <2>1
  <2> QED BY <1>1, <2>2
<1> HIDE DEF g, n, r
<1>6. g[0] = from
  BY <1>1, <1>2, <1>5
<1>7. ASSUME NEW i \in 1..(n + 1)
      PROVE  IF Turn(r[i], s) THEN g[i] = r[i].slot /\ g[i - 1] # g[i] ELSE g[i] = g[i - 1]
  <2>1. CASE i = n + 1
    <3>1. r[i] = x /\ g[i] = end /\ g[i - 1] = to
      BY <1>1, <1>3, <1>5, <2>1
    <3> QED BY <3>1 DEF end
  <2>2. CASE i # n + 1
    <3>1. i \in 1..n /\ i \in 0..n /\ i - 1 \in 0..n
      BY <1>1, <2>2
    <3> QED BY <1>1, <1>2, <1>5, <3>1
  <2> QED BY <2>1, <2>2
<1>8. ASSUME NEW i \in 0..(n + 1), \A k \in 1..(n + 1) : k > i => ~Turn(r[k], s)
      PROVE  g[i] = end
  <2>1. CASE i = n + 1
    BY <1>5, <2>1
  <2>2. CASE i # n + 1
    <3>1. i \in 0..n /\ n + 1 \in 1..(n + 1) /\ n + 1 > i
      BY <1>1, <2>2
    <3>2. ~Turn(x, s)
      BY <1>1, <1>8, <3>1
    <3>3. \A k \in 1..n : k > i => ~Turn(q[k], s)
      BY <1>1, <1>8
    <3> QED BY <1>2, <1>5, <3>1, <3>2, <3>3 DEF end
  <2> QED BY <2>1, <2>2
<1>9. Course(r, s, from, end)
  BY <1>1, <1>5, <1>6, <1>7, <1>8 DEF Course
<1> QED BY <1>9 DEF r, end

-----------------------------------------------------------------------------
(* What a slot does.                                                         *)

(* What is called n before the slot.                                         *)
Called(n, x) == IF Rename(x) THEN Renamed(n, x.newName, x.prevName) ELSE n

(* A slot leaves controls of sources, one of which may be new.               *)
LEMMA RunControls ==
  ASSUME ViewTypes, NEW x \in ViewSlot, x.source \in Existing, Run(x)
  PROVE  /\ volumes' \in Seq(Control)
         /\ \A j \in DOMAIN volumes' :
              \/ \E i \in DOMAIN volumes :
                   /\ volumes'[j].source = volumes[i].source
                   /\ volumes'[j].name = Called(volumes[i].name, x)
              \/ /\ volumes'[j].source \in Existing
                 /\ volumes'[j].name = name[volumes'[j].source]
         /\ \A m \in Monitors : projectorArray'[m] = Called(projectorArray[m], x)
         /\ \A s \in Sources : AtMostOne(volumes, s) =>
              IF Turn(x, s)
              THEN x.slot = "activate" /\ ~Shows(volumes, s) =>
                     AtMostOne(volumes', s) /\ (Shows(volumes', s) <=> s \notin hidden)
              ELSE AtMostOne(volumes', s) /\ (Shows(volumes', s) <=> Shows(volumes, s))
         /\ \A s \in Sources : AtMostOne(volumes, s) /\ Turn(x, s) /\ x.slot = "deactivate" =>
              AtMostOne(volumes', s) /\ ~Shows(volumes', s)
         /\ projectorArray' \in [Monitors -> Names \cup {NoName}]
         /\ \A m \in Monitors : projectorArray'[m] = NoName <=> projectorArray[m] = NoName
<1>1. volumes \in Seq(Control)
  BY DEF ViewTypes
<1>2. projectorArray \in [Monitors -> Names \cup {NoName}]
  BY DEF ViewTypes
<1>3. x.source \in Sources
  BY DEF Existing
<1>4. CASE x.slot = "activate"
  <2>1. ~Rename(x) /\ \A n : Called(n, x) = n
    BY <1>4 DEF Rename, Called
  <2>2. projectorArray' = projectorArray
    BY <1>4 DEF Run
  <2>3. volumes' = ActivateAudioSource(volumes, x.source, hidden)
    BY <1>4 DEF Run
  <2>4. Grown(volumes, volumes', {x.source} \ hidden)
    BY <1>1, <2>3, ActivateFacts
  <2>5. \A s : Turn(x, s) <=> s = x.source
    BY <1>4 DEF Turn, Kinds
  <2>6. \A j \in DOMAIN volumes' :
              \/ \E i \in DOMAIN volumes : volumes'[j] = volumes[i]
              \/ /\ volumes'[j].source \in Existing
                 /\ volumes'[j].name = name[volumes'[j].source]
    BY <2>4 DEF Grown
  <2>7. volumes' \in Seq(Control)
    BY <2>4 DEF Grown
  <2>8. \A s \in Sources : AtMostOne(volumes, s) =>
              IF Turn(x, s)
              THEN x.slot = "activate" /\ ~Shows(volumes, s) =>
                     AtMostOne(volumes', s) /\ (Shows(volumes', s) <=> s \notin hidden)
              ELSE AtMostOne(volumes', s) /\ (Shows(volumes', s) <=> Shows(volumes, s))
    BY <2>4, <2>5 DEF Grown
  <2> QED BY <1>2, <1>4, <2>1, <2>2, <2>6, <2>7, <2>8
<1>5. CASE x.slot = "deactivate"
  <2>1. ~Rename(x) /\ \A n : Called(n, x) = n
    BY <1>5 DEF Rename, Called
  <2>2. projectorArray' = projectorArray
    BY <1>5 DEF Run
  <2>3. volumes' = DeactivateAudioSource(volumes, x.source)
    BY <1>5 DEF Run
  <2>4. Shrunk(volumes, volumes', x.source)
    BY <1>1, <1>3, <2>3, DeactivateFacts
  <2>5. \A s : Turn(x, s) <=> s = x.source
    BY <1>5 DEF Turn, Kinds
  <2> QED BY <1>2, <1>5, <2>1, <2>2, <2>4, <2>5 DEF Shrunk
<1>6. CASE x.slot = "rename"
  <2>1. x \in [slot : {"rename"}, source : Sources, newName : Names, prevName : Names]
    BY <1>6 DEF ViewSlot, Kinds
  <2>2. RenameSources(x.newName, x.prevName) /\ Rename(x)
    BY <1>6 DEF Run, Rename
  <2>3. \A n : Called(n, x) = Renamed(n, x.newName, x.prevName)
    BY <2>2 DEF Called
  <2>4. x.newName \in Names /\ x.prevName \in Names
    BY <2>1
  <2>5. \A n \in Names : Called(n, x) \in Names
    BY <2>3, <2>4 DEF Renamed
  <2>6. /\ Called(NoName, x) = NoName
        /\ \A n \in Names \cup {NoName} :
             Called(n, x) \in Names \cup {NoName} /\ (Called(n, x) = NoName <=> n = NoName)
    BY <2>3, <2>4, NamesAssumption DEF Renamed
  <2>7. /\ projectorArray' \in [Monitors -> Names \cup {NoName}]
        /\ \A m \in Monitors : projectorArray'[m] = Called(projectorArray[m], x)
    BY <1>2, <2>2, <2>3, <2>6 DEF RenameSources
  <2>8. \A m \in Monitors : projectorArray'[m] = NoName <=> projectorArray[m] = NoName
    BY <1>2, <2>6, <2>7
  <2>9. DOMAIN volumes = 1..Len(volumes) /\ Len(volumes) \in Nat
    BY <1>1
  <2>10. volumes' = [i \in DOMAIN volumes |->
                      [volumes[i] EXCEPT !.name = Called(volumes[i].name, x)]]
    BY <2>2, <2>3 DEF RenameSources
  <2>11. \A i \in DOMAIN volumes :
           /\ volumes[i] \in Control
           /\ volumes'[i] \in Control
           /\ volumes'[i].source = volumes[i].source
           /\ volumes'[i].name = Called(volumes[i].name, x)
    <3>1. \A i \in DOMAIN volumes : volumes[i] \in Control
      BY <1>1
    <3> QED BY <2>5, <2>10, <3>1 DEF Control
  <2>12. DOMAIN volumes' = DOMAIN volumes
    BY <2>10
  <2>13. volumes' \in Seq(Control)
    <3>1. volumes' \in [1..Len(volumes) -> Control]
      BY <2>9, <2>10, <2>11, <2>12
    <3> QED BY <2>9, <3>1
  <2>14. \A s \in Sources : /\ ~Turn(x, s)
                            /\ AtMostOne(volumes', s) <=> AtMostOne(volumes, s)
                            /\ Shows(volumes', s) <=> Shows(volumes, s)
    BY <1>6, <2>11, <2>12 DEF Turn, Kinds, AtMostOne, Shows
  <2> QED BY <2>7, <2>8, <2>11, <2>12, <2>13, <2>14
<1> QED BY <1>4, <1>5, <1>6 DEF Run

-----------------------------------------------------------------------------
(* The mixer is kept.                                                        *)

(* What has no turn in a slot that waits is what the last one made it.       *)
LEMMA NoTurns ==
  ASSUME ViewTypes, NEW s, ~Waits(s), Shown(s)
  PROVE  /\ \A i \in DOMAIN slots : ~Turn(slots[i], s)
         /\ Shows(volumes, s) <=> s \in active /\ s \notin hidden
<1>1. \A i \in DOMAIN slots : ~Turn(slots[i], s)
  BY DEF Waits, Turn
<1>2. slots \in Seq(ViewSlot)
  BY DEF ViewTypes
<1>3. LastTurn(s) \in Kinds /\ (LastTurn(s) = "activate" <=> s \in active)
  BY DEF LastTurn, Kinds
<1>4. PICK from \in Kinds :
        /\ Course(slots, s, from, LastTurn(s))
        /\ Shows(volumes, s) <=> (from = "activate" /\ s \notin hidden)
  BY DEF Shown
<1>5. from = LastTurn(s)
  BY <1>1, <1>2, <1>3, <1>4, CourseStill
<1> QED BY <1>1, <1>3, <1>4, <1>5

(* Conversely, if that is so after a step, it is right of a source without a *)
(* turn.                                                                     *)
LEMMA ShownStill ==
  ASSUME NEW s, slots' \in Seq(ViewSlot), \A i \in DOMAIN slots' : ~Turn(slots'[i], s),
         Shows(volumes', s) <=> s \in active' /\ s \notin hidden'
  PROVE  Shown(s)'
<1>1. LastTurn(s)' \in Kinds /\ (LastTurn(s)' = "activate" <=> s \in active')
  BY DEF LastTurn, Kinds
<1>2. Course(slots', s, LastTurn(s)', LastTurn(s)')
  BY <1>1, CourseStill
<1> QED BY <1>1, <1>2 DEF Shown

(* A source for which nothing changes.                                       *)
LEMMA ShownSame ==
  ASSUME NEW s, Shown(s), s \in active' <=> s \in active, s \in hidden' <=> s \in hidden,
         Shows(volumes', s) <=> Shows(volumes, s),
         UNCHANGED slots
  PROVE  Shown(s)'
<1>1. LastTurn(s)' = LastTurn(s)
  BY DEF LastTurn
<1> QED BY <1>1 DEF Shown

(* The types are kept by changes to the mixer, the projectors and the queue. *)
LEMMA TypesKept ==
  ASSUME ViewTypes, UNCHANGED name,
         active' \subseteq Existing, hidden' \subseteq Existing,
         volumes' \in Seq(Control), \A i \in DOMAIN volumes' : volumes'[i].source \in Existing,
         slots' \in Seq(ViewSlot), \A i \in DOMAIN slots' : slots'[i].source \in Existing,
         projectors' \in [Monitors -> Existing \cup {"preview", Nobody}],
         projectorArray' \in [Monitors -> Names \cup {NoName}],
         previewArray' \in [Monitors -> BOOLEAN]
  PROVE  ViewTypes'
<1>1. Existing' = Existing
  BY DEF Existing
<1> QED BY <1>1 DEF ViewTypes

(* A source is hidden, and the first of its controls goes.                   *)
LEMMA HiddenStep ==
  ASSUME ViewInv, NEW s \in Existing, hidden' = hidden \cup {s},
         volumes' = DeactivateAudioSource(volumes, s),
         UNCHANGED <<name, active, slots, projectors, projectorArray, previewArray, odd>>
  PROVE  ViewInv'
<1> USE DEF ViewInv
<1>1. s \in Sources /\ volumes \in Seq(Control)
  BY DEF Existing, ViewTypes
<1>2. Shrunk(volumes, volumes', s)
  BY <1>1, DeactivateFacts
<1>3. \A j \in DOMAIN volumes' : \E i \in DOMAIN volumes : volumes'[j] = volumes[i]
  BY <1>2 DEF Shrunk
<1>4. ViewTypes'
  <2>1. volumes' \in Seq(Control)
    BY <1>2 DEF Shrunk
  <2>2. \A j \in DOMAIN volumes' : volumes'[j].source \in Existing
    BY <1>3 DEF ViewTypes
  <2>3. hidden' \subseteq Existing
    BY DEF ViewTypes
  <2>4. /\ active \subseteq Existing /\ slots \in Seq(ViewSlot)
        /\ \A i \in DOMAIN slots : slots[i].source \in Existing
        /\ projectors \in [Monitors -> Existing \cup {"preview", Nobody}]
        /\ projectorArray \in [Monitors -> Names \cup {NoName}]
        /\ previewArray \in [Monitors -> BOOLEAN]
    BY DEF ViewTypes
  <2> QED BY <2>1, <2>2, <2>3, <2>4, TypesKept
<1>5. Unique'
  BY DEF Unique, Existing
<1>6. Leading'
  <2>1. \A n, t, k : Leads(n, t, k)' <=> Leads(n, t, k)
    BY DEF Leads
  <2>2. \A j \in DOMAIN volumes' :
          volumes'[j].source \notin odd => Leads(volumes'[j].name, volumes'[j].source, 0)
    BY <1>3 DEF Leading
  <2> QED BY <2>1, <2>2 DEF Leading
<1>7. Saved'
  BY DEF Saved
<1>8. ASSUME NEW t \in Sources \ odd
      PROVE  AtMostOne(volumes, t)' /\ Shown(t)'
  <2>1. AtMostOne(volumes, t) /\ Shown(t)
    BY DEF Mixer
  <2>2. AtMostOne(volumes', t)
    BY <1>2, <2>1 DEF Shrunk
  <2>3. CASE t = s
    <3>1. ~Shows(volumes', t) /\ t \in hidden'
      BY <1>2, <2>1, <2>3 DEF Shrunk
    <3>2. LastTurn(t)' = LastTurn(t)
      BY DEF LastTurn
    <3>3. PICK from \in Kinds : Course(slots, t, from, LastTurn(t))
      BY <2>1 DEF Shown
    <3>4. Shown(t)'
      BY <3>1, <3>2, <3>3 DEF Shown
    <3> QED BY <2>2, <3>4
  <2>4. CASE t # s
    <3>1. Shows(volumes', t) <=> Shows(volumes, t)
      BY <1>2, <2>4 DEF Shrunk
    <3>2. Shown(t)'
      BY <2>1, <2>4, <3>1, ShownSame
    <3> QED BY <2>2, <3>2
  <2> QED BY <2>3, <2>4
<1>9. Mixer'
  BY <1>8 DEF Mixer
<1> QED BY <1>4, <1>5, <1>6, <1>7, <1>9

(* Sources are no longer hidden, and each gets a control; one that is not    *)
(* active, or about which a slot waits, is among the odd ones.               *)
LEMMA UnhiddenStep ==
  ASSUME ViewInv, NEW on \in SUBSET hidden, hidden' = hidden \ on,
         Grown(volumes, volumes', on), odd \subseteq odd',
         \A s \in on : s \in odd' \/ (s \in active /\ ~Waits(s)),
         UNCHANGED <<name, active, slots, projectors, projectorArray, previewArray>>
  PROVE  ViewInv'
<1> USE DEF ViewInv
<1>1. hidden \subseteq Existing /\ on \subseteq Existing
  BY DEF ViewTypes
<1>2. \A j \in DOMAIN volumes' :
        \/ \E i \in DOMAIN volumes : volumes'[j] = volumes[i]
        \/ volumes'[j].source \in on /\ volumes'[j].name = name[volumes'[j].source]
  BY DEF Grown
<1>4. ViewTypes'
  <2>1. volumes' \in Seq(Control)
    BY DEF Grown
  <2>2. \A j \in DOMAIN volumes' : volumes'[j].source \in Existing
    BY <1>1, <1>2 DEF ViewTypes
  <2>3. hidden' \subseteq Existing
    BY <1>1
  <2>4. /\ active \subseteq Existing /\ slots \in Seq(ViewSlot)
        /\ \A i \in DOMAIN slots : slots[i].source \in Existing
        /\ projectors \in [Monitors -> Existing \cup {"preview", Nobody}]
        /\ projectorArray \in [Monitors -> Names \cup {NoName}]
        /\ previewArray \in [Monitors -> BOOLEAN]
    BY DEF ViewTypes
  <2> QED BY <2>1, <2>2, <2>3, <2>4, TypesKept
<1>5. Unique'
  BY DEF Unique, Existing
<1>6. Leading'
  <2>1. \A n, t, k : Leads(n, t, k)' <=> Leads(n, t, k)
    BY DEF Leads
  <2>2. \A j \in DOMAIN volumes' :
          volumes'[j].source \notin odd' => Leads(volumes'[j].name, volumes'[j].source, 0)
    <3>1. \A t : Leads(name[t], t, 0)
      BY DEF Leads
    <3> QED BY <1>2, <3>1 DEF Leading
  <2> QED BY <2>1, <2>2 DEF Leading
<1>7. Saved'
  BY DEF Saved
<1>8. ASSUME NEW t \in Sources \ odd'
      PROVE  AtMostOne(volumes, t)' /\ Shown(t)'
  <2>1. AtMostOne(volumes, t) /\ Shown(t)
    BY DEF Mixer
  <2>3. CASE t \in on
    <3>1. t \in active /\ ~Waits(t)
      BY <2>3
    <3>2. /\ \A i \in DOMAIN slots : ~Turn(slots[i], t)
          /\ ~Shows(volumes, t)
      BY <2>1, <2>3, <3>1, NoTurns
    <3>3. AtMostOne(volumes', t) /\ Shows(volumes', t)
      BY <2>1, <2>3, <3>2 DEF Grown
    <3>4. slots' \in Seq(ViewSlot)
      BY <1>4 DEF ViewTypes
    <3>5. \A i \in DOMAIN slots' : ~Turn(slots'[i], t)
      BY <3>2
    <3>6. Shows(volumes', t) <=> t \in active' /\ t \notin hidden'
      BY <2>3, <3>1, <3>3
    <3>7. Shown(t)'
      BY <3>4, <3>5, <3>6, ShownStill
    <3> QED BY <3>3, <3>7
  <2>4. CASE t \notin on
    <3>1. AtMostOne(volumes', t) /\ (Shows(volumes', t) <=> Shows(volumes, t))
      BY <2>1, <2>4 DEF Grown
    <3>2. Shown(t)'
      BY <2>1, <2>4, <3>1, ShownSame
    <3> QED BY <3>1, <3>2
  <2> QED BY <2>3, <2>4
<1>9. Mixer'
  BY <1>8 DEF Mixer
<1> QED BY <1>4, <1>5, <1>6, <1>7, <1>9

-----------------------------------------------------------------------------
(* The actions.                                                              *)

(* Clicks on controls and items.                                             *)
LEMMA HideStep ==
  ASSUME ViewInv, NEW s \in Sources, HideAudioControl(s)
  PROVE  ViewInv'
<1>1. PICK i \in DOMAIN volumes : volumes[i].source = s
  BY DEF HideAudioControl
<1>2. s \in Existing
  BY <1>1 DEF ViewInv, ViewTypes
<1> QED BY <1>2, HiddenStep DEF HideAudioControl

(* The menu of a control hides its source, or shows it again.                *)
LEMMA ToggleStep ==
  ASSUME ViewInv, NEW s \in Sources, ToggleHideMixer(s)
  PROVE  ViewInv'
<1>1. CASE s \notin hidden
  BY <1>1, HiddenStep DEF ToggleHideMixer
<1>2. CASE s \in hidden
  <2>1. /\ s \in Existing /\ hidden' = hidden \ {s}
        /\ volumes' = ActivateAudioSource(volumes, s, hidden')
        /\ UNCHANGED <<name, active, slots, projectors, projectorArray, previewArray>>
    BY <1>2 DEF ToggleHideMixer
  <2>2. odd \subseteq odd' /\ (s \in odd' \/ (s \in active /\ ~Waits(s)))
    BY <1>2 DEF ToggleHideMixer
  <2>3. ViewTypes /\ volumes \in Seq(Control)
    BY DEF ViewInv, ViewTypes
  <2>4. Grown(volumes, volumes', {s} \ hidden')
    BY <2>1, <2>3, ActivateFacts
  <2>5. {s} \ hidden' = {s}
    BY <2>1
  <2> QED BY <1>2, <2>1, <2>2, <2>4, <2>5, UnhiddenStep
<1> QED BY <1>1, <1>2

(* All sources that are active are shown again.                              *)
LEMMA UnhideAllStep ==
  ASSUME ViewInv, UnhideAllAudioControls
  PROVE  ViewInv'
<1> DEFINE on == hidden \cap active
<1>1. ViewTypes /\ volumes \in Seq(Control) /\ hidden \subseteq Existing
  BY DEF ViewInv, ViewTypes
<1>2. on \in SUBSET Existing /\ on \in SUBSET Sources
  BY <1>1 DEF Existing
<1>3. /\ volumes' = volumes \o Controls(on) /\ hidden' = hidden \ active
      /\ odd' = odd \cup {s \in on : Waits(s)}
      /\ UNCHANGED <<name, active, slots, projectors, projectorArray, previewArray>>
  BY DEF UnhideAllAudioControls
<1>4. on \in SUBSET hidden /\ on \in SUBSET active /\ hidden \ active = hidden \ on
  OBVIOUS
<1> HIDE DEF on
<1>5. Grown(volumes, volumes \o Controls(on), on)
  BY <1>1, <1>2, ControlsFacts, Concatenated
<1>6. \A s \in on : s \in odd' \/ (s \in active /\ ~Waits(s))
  BY <1>3, <1>4
<1> QED BY <1>3, <1>4, <1>5, <1>6, UnhiddenStep

(* Whatever does not touch the mixer or a name keeps what is right of them.  *)
LEMMA MixerApart ==
  ASSUME ViewInv, UNCHANGED <<name, active, hidden, volumes, slots, odd>>
  PROVE  Unique' /\ Mixer' /\ \A n, t, k : Leads(n, t, k)' <=> Leads(n, t, k)
<1>1. Unique'
  BY DEF ViewInv, Unique, Existing
<1>2. \A n, t, k : Leads(n, t, k)' <=> Leads(n, t, k)
  BY DEF Leads
<1>3. ASSUME NEW t \in Sources \ odd' PROVE AtMostOne(volumes, t)' /\ Shown(t)'
  <2>1. AtMostOne(volumes, t) /\ Shown(t)
    BY DEF ViewInv, Mixer
  <2> QED BY <2>1, ShownSame
<1>4. Mixer'
  BY <1>3 DEF Mixer
<1> QED BY <1>1, <1>2, <1>4

(* A projector is saved by the name its source has then.                     *)
LEMMA OpenStep ==
  ASSUME ViewInv, NEW what \in Existing \cup {"preview"}, NEW m \in Monitors,
         OpenProjector(what, m)
  PROVE  ViewInv'
<1>1. ViewTypes /\ Leading /\ Saved
  BY DEF ViewInv
<1>2. /\ Existing \subseteq Sources /\ "preview" \notin Sources
      /\ \A s \in Existing : name[s] \in Names
  BY <1>1, Named, SourcesAssumption, Zenon
<1>3. UNCHANGED <<name, active, hidden, volumes, slots, odd>>
  BY DEF OpenProjector
<1>4. /\ projectors \in [Monitors -> Existing \cup {"preview", Nobody}]
      /\ projectorArray \in [Monitors -> Names \cup {NoName}]
      /\ previewArray \in [Monitors -> BOOLEAN]
  BY <1>1 DEF ViewTypes
<1>5. /\ projectors' = [projectors EXCEPT ![m] = what]
      /\ projectorArray' = [projectorArray EXCEPT ![m] =
                              IF what = "preview" THEN NoName ELSE name[what]]
      /\ previewArray' = [previewArray EXCEPT ![m] = (what = "preview")]
  BY DEF OpenProjector
<1>6. ViewTypes'
  <2>1. /\ projectors' \in [Monitors -> Existing \cup {"preview", Nobody}]
        /\ projectorArray' \in [Monitors -> Names \cup {NoName}]
        /\ previewArray' \in [Monitors -> BOOLEAN]
    BY <1>2, <1>4, <1>5
  <2>2. /\ active \subseteq Existing /\ hidden \subseteq Existing
        /\ volumes \in Seq(Control) /\ slots \in Seq(ViewSlot)
        /\ \A i \in DOMAIN volumes : volumes[i].source \in Existing
        /\ \A i \in DOMAIN slots : slots[i].source \in Existing
    BY <1>1 DEF ViewTypes
  <2> QED BY <1>1, <1>3, <2>1, <2>2, TypesKept
<1>7. Unique' /\ Mixer' /\ \A n, t, k : Leads(n, t, k)' <=> Leads(n, t, k)
  BY <1>3, MixerApart
<1>8. Leading'
  <2>1. ASSUME NEW k \in Monitors, projectors'[k] \in Sources \ odd
        PROVE  Leads(projectorArray'[k], projectors'[k], 0)
    <3>1. CASE k = m
      <4>1. projectors'[k] = what /\ what # "preview"
        BY <1>2, <1>4, <1>5, <2>1, <3>1
      <4>2. projectorArray'[k] = name[what]
        BY <1>4, <1>5, <3>1, <4>1
      <4> QED BY <4>1, <4>2 DEF Leads
    <3>2. CASE k # m
      <4>1. projectors'[k] = projectors[k] /\ projectorArray'[k] = projectorArray[k]
        BY <1>4, <1>5, <3>2
      <4> QED BY <1>1, <2>1, <4>1 DEF Leading
    <3> QED BY <3>1, <3>2
  <2> QED BY <1>1, <1>3, <1>7, <2>1 DEF Leading
<1>9. Saved'
  <2> SUFFICES ASSUME NEW k \in Monitors
               PROVE  /\ projectors'[k] = "preview" => previewArray'[k]
                      /\ ~(previewArray'[k] /\ projectorArray'[k] # NoName)
    BY DEF Saved
  <2>1. CASE k = m
    <3>1. projectors'[k] = what /\ (previewArray'[k] <=> what = "preview")
      BY <1>4, <1>5, <2>1
    <3>2. what = "preview" => projectorArray'[k] = NoName
      BY <1>4, <1>5, <2>1
    <3> QED BY <3>1, <3>2
  <2>2. CASE k # m
    <3>1. /\ projectors'[k] = projectors[k] /\ projectorArray'[k] = projectorArray[k]
          /\ previewArray'[k] = previewArray[k]
      BY <1>4, <1>5, <2>2
    <3> QED BY <1>1, <3>1 DEF Saved
  <2> QED BY <2>1, <2>2
<1> QED BY <1>6, <1>7, <1>8, <1>9 DEF ViewInv

(* The projectors close, and what is saved of them remains.                  *)
LEMMA CloseStep ==
  ASSUME ViewInv, CloseProjectors
  PROVE  ViewInv'
<1>1. ViewTypes /\ Leading /\ Saved
  BY DEF ViewInv
<1>2. UNCHANGED <<name, active, hidden, volumes, slots, odd, projectorArray, previewArray>>
  BY DEF CloseProjectors
<1>3. projectors' = [m \in Monitors |-> Nobody] /\ Nobody \notin Sources
  BY SourcesAssumption DEF CloseProjectors
<1>4. ViewTypes'
  <2>1. projectors' \in [Monitors -> Existing \cup {"preview", Nobody}]
    BY <1>3
  <2>2. /\ active \subseteq Existing /\ hidden \subseteq Existing
        /\ volumes \in Seq(Control) /\ slots \in Seq(ViewSlot)
        /\ \A i \in DOMAIN volumes : volumes[i].source \in Existing
        /\ \A i \in DOMAIN slots : slots[i].source \in Existing
        /\ projectorArray \in [Monitors -> Names \cup {NoName}]
        /\ previewArray \in [Monitors -> BOOLEAN]
    BY <1>1 DEF ViewTypes
  <2> QED BY <1>1, <1>2, <2>1, <2>2, TypesKept
<1>5. Unique' /\ Mixer' /\ \A n, t, k : Leads(n, t, k)' <=> Leads(n, t, k)
  BY <1>2, MixerApart
<1>6. Leading'
  BY <1>1, <1>2, <1>3, <1>5 DEF Leading
<1>7. Saved'
  BY <1>1, <1>2, <1>3 DEF Saved, Nobody
<1> QED BY <1>4, <1>5, <1>6, <1>7 DEF ViewInv

(* A slot at the end leads on what it renames, and nothing else.             *)
LEMMA LeadsAppend ==
  ASSUME ViewTypes, NEW x \in ViewSlot, slots' = Append(slots, x), NEW n, NEW s \in Sources,
         NEW k \in 0..Len(slots), Leads(n, s, k),
         name'[s] = name[s] \/ (Rename(x) /\ x.source = s /\ x.prevName = name[s])
  PROVE  Leads(n, s, k)'
<1> DEFINE l == Len(slots)
<1>1. /\ l \in Nat /\ DOMAIN slots = 1..l /\ DOMAIN slots' = 1..(l + 1)
      /\ \A i \in 1..l : slots'[i] = slots[i]
      /\ slots'[l + 1] = x
  BY DEF ViewTypes
<1>2. CASE n = name[s]
  <2>1. CASE name'[s] = name[s]
    BY <1>2, <2>1 DEF Leads
  <2>2. CASE Rename(x) /\ x.source = s /\ x.prevName = name[s]
    <3>1. l + 1 \in DOMAIN slots' /\ l + 1 > k
      BY <1>1
    <3> QED BY <1>1, <1>2, <2>2, <3>1 DEF Leads
  <2> QED BY <2>1, <2>2
<1>3. CASE \E j \in DOMAIN slots :
             j > k /\ Rename(slots[j]) /\ slots[j].source = s /\ slots[j].prevName = n
  BY <1>1, <1>3 DEF Leads
<1> QED BY <1>2, <1>3 DEF Leads

(* A source has turned, and a slot waits that will tell.                     *)
LEMMA TurnWaits ==
  ASSUME ViewInv, NEW s \in Existing, NEW x \in ViewSlot, x.source = s, x.slot \in Kinds,
         s \in active' <=> x.slot = "activate", s \in active <=> x.slot = "deactivate",
         active' \subseteq Existing, \A t : t # s => (t \in active' <=> t \in active),
         slots' = Append(slots, x),
         UNCHANGED <<name, hidden, volumes, projectors, projectorArray, previewArray, odd>>
  PROVE  ViewInv'
<1> DEFINE l == Len(slots)
<1>1. ViewTypes /\ Unique /\ Leading /\ Saved /\ Mixer
  BY DEF ViewInv
<1>2. /\ slots \in Seq(ViewSlot) /\ slots' \in Seq(ViewSlot)
      /\ l \in Nat /\ DOMAIN slots = 1..l /\ DOMAIN slots' = 1..(l + 1)
      /\ \A i \in 1..l : slots'[i] = slots[i]
      /\ slots'[l + 1] = x
  BY <1>1 DEF ViewTypes
<1>3. ~Rename(x) /\ \A t : Turn(x, t) <=> t = s
  BY DEF Rename, Turn, Kinds
<1>4. /\ Existing \subseteq Sources /\ \A i \in DOMAIN slots : slots[i].source \in Existing
      /\ \A i \in DOMAIN volumes : volumes[i].source \in Existing
  BY <1>1 DEF ViewTypes, Existing
<1>5. \A i \in DOMAIN slots' : i = l + 1 \/ (i \in DOMAIN slots /\ slots'[i] = slots[i])
  BY <1>2
<1>6. ViewTypes'
  <2>1. \A i \in DOMAIN slots' : slots'[i].source \in Existing
    BY <1>2, <1>4, <1>5
  <2>2. /\ hidden \subseteq Existing /\ volumes \in Seq(Control)
        /\ projectors \in [Monitors -> Existing \cup {"preview", Nobody}]
        /\ projectorArray \in [Monitors -> Names \cup {NoName}]
        /\ previewArray \in [Monitors -> BOOLEAN]
    BY <1>1 DEF ViewTypes
  <2> QED BY <1>1, <1>2, <1>4, <2>1, <2>2, TypesKept
<1>7. Unique'
  BY <1>1, <1>2, <1>3, <1>5 DEF Unique, Existing
<1>8. \A n, t, k : t \in Sources /\ k \in 0..l /\ Leads(n, t, k) => Leads(n, t, k)'
  BY <1>1, LeadsAppend
<1>9. Leading'
  <2>1. ASSUME NEW i \in DOMAIN slots', NEW n, NEW t, n = slots'[i].newName, t = slots'[i].source,
               Rename(slots'[i]), t \notin odd'
        PROVE  Leads(n, t, i)'
    <3>1. i \in DOMAIN slots /\ slots'[i] = slots[i] /\ i \in 0..l
      BY <1>2, <1>3, <1>5, <2>1
    <3>2. Leads(n, t, i) /\ t \in Sources
      BY <1>1, <1>4, <2>1, <3>1 DEF Leading
    <3> QED BY <1>8, <3>1, <3>2
  <2>2. ASSUME NEW i \in DOMAIN volumes', NEW n, NEW t, n = volumes'[i].name, t = volumes'[i].source,
               t \notin odd'
        PROVE  Leads(n, t, 0)'
    <3>1. Leads(n, t, 0) /\ t \in Sources /\ 0 \in 0..l
      BY <1>1, <1>2, <1>4, <2>2 DEF Leading
    <3> QED BY <1>8, <3>1
  <2>3. ASSUME NEW m \in Monitors, NEW n, NEW t, n = projectorArray'[m], t = projectors'[m],
               t \in Sources \ odd'
        PROVE  Leads(n, t, 0)'
    <3>1. Leads(n, t, 0) /\ 0 \in 0..l
      BY <1>1, <1>2, <2>3 DEF Leading
    <3> QED BY <1>8, <2>3, <3>1
  <2> QED BY <2>1, <2>2, <2>3 DEF Leading
<1>10. Saved'
  BY <1>1 DEF Saved
<1>11. ASSUME NEW t \in Sources \ odd'
       PROVE  AtMostOne(volumes, t)' /\ Shown(t)'
  <2>1. AtMostOne(volumes, t) /\ Shown(t)
    BY <1>1 DEF Mixer
  <2>2. PICK from \in Kinds :
          /\ Course(slots, t, from, LastTurn(t))
          /\ Shows(volumes, t) <=> (from = "activate" /\ t \notin hidden)
    BY <2>1 DEF Shown
  <2>3. Turn(x, t) => x.slot # LastTurn(t) /\ x.slot = LastTurn(t)'
    BY <1>3 DEF LastTurn, Kinds
  <2>4. ~Turn(x, t) => LastTurn(t)' = LastTurn(t)
    BY <1>3 DEF LastTurn
  <2>5. Course(slots', t, from, IF Turn(x, t) THEN x.slot ELSE LastTurn(t))
    BY <1>2, <2>2, <2>3, CourseAppend
  <2>6. Course(slots', t, from, LastTurn(t)')
    BY <2>3, <2>4, <2>5
  <2> QED BY <2>1, <2>2, <2>6 DEF Shown
<1>12. Mixer'
  BY <1>11 DEF Mixer
<1> QED BY <1>6, <1>7, <1>9, <1>10, <1>12 DEF ViewInv

(* A source has turned, and its slot runs at once.                           *)
LEMMA TurnRuns ==
  ASSUME ViewInv, NEW s \in Existing, NEW x \in ViewSlot, x.source = s, x.slot \in Kinds,
         s \in active' <=> x.slot = "activate", s \in active <=> x.slot = "deactivate",
         active' \subseteq Existing, \A t : t # s => (t \in active' <=> t \in active),
         Run(x), odd' = IF Waits(s) THEN odd \cup {s} ELSE odd,
         UNCHANGED <<name, hidden, slots, projectors, previewArray>>
  PROVE  ViewInv'
<1>1. ViewTypes /\ Unique /\ Leading /\ Saved /\ Mixer
  BY DEF ViewInv
<1>3. ~Rename(x) /\ (\A t : Turn(x, t) <=> t = s) /\ \A n : Called(n, x) = n
  BY DEF Rename, Turn, Kinds, Called
<1>4. /\ volumes' \in Seq(Control)
      /\ \A j \in DOMAIN volumes' :
           \/ \E i \in DOMAIN volumes :
                /\ volumes'[j].source = volumes[i].source
                /\ volumes'[j].name = volumes[i].name
           \/ /\ volumes'[j].source \in Existing
              /\ volumes'[j].name = name[volumes'[j].source]
      /\ projectorArray' \in [Monitors -> Names \cup {NoName}]
      /\ \A m \in Monitors : projectorArray'[m] = projectorArray[m]
  BY <1>1, <1>3, RunControls
<1>5. /\ Existing \subseteq Sources /\ \A i \in DOMAIN volumes : volumes[i].source \in Existing
  BY <1>1 DEF ViewTypes, Existing
<1>6. ViewTypes'
  <2>1. \A j \in DOMAIN volumes' : volumes'[j].source \in Existing
    BY <1>4, <1>5
  <2>2. /\ hidden \subseteq Existing /\ slots \in Seq(ViewSlot)
        /\ \A i \in DOMAIN slots : slots[i].source \in Existing
        /\ projectors \in [Monitors -> Existing \cup {"preview", Nobody}]
        /\ previewArray \in [Monitors -> BOOLEAN]
    BY <1>1 DEF ViewTypes
  <2> QED BY <1>1, <1>4, <2>1, <2>2, TypesKept
<1>7. Unique'
  BY <1>1 DEF Unique, Existing
<1>8. \A n, t, k : Leads(n, t, k)' <=> Leads(n, t, k)
  BY DEF Leads
<1>9. odd \subseteq odd' /\ (s \notin odd' => ~Waits(s))
  OBVIOUS
<1>10. Leading'
  <2>1. \A j \in DOMAIN volumes' :
          volumes'[j].source \notin odd' => Leads(volumes'[j].name, volumes'[j].source, 0)
    <3>1. \A t : Leads(name[t], t, 0)
      BY DEF Leads
    <3> QED BY <1>1, <1>4, <1>9, <3>1 DEF Leading
  <2> QED BY <1>1, <1>4, <1>8, <1>9, <2>1 DEF Leading
<1>11. Saved'
  BY <1>1, <1>4 DEF Saved
<1>12. ASSUME NEW t \in Sources \ odd'
       PROVE  AtMostOne(volumes, t)' /\ Shown(t)'
  <2>1. AtMostOne(volumes, t) /\ Shown(t)
    BY <1>1, <1>9 DEF Mixer
  <2>2. CASE t = s
    <3>1. /\ \A i \in DOMAIN slots : ~Turn(slots[i], t)
          /\ Shows(volumes, t) <=> t \in active /\ t \notin hidden
      BY <1>1, <1>9, <2>1, <2>2, NoTurns
    <3>2. AtMostOne(volumes', t) /\ (Shows(volumes', t) <=> t \in active' /\ t \notin hidden')
      <4>1. CASE x.slot = "activate"
        <5>1. ~Shows(volumes, t)
          BY <2>2, <3>1, <4>1
        <5>2. AtMostOne(volumes', t) /\ (Shows(volumes', t) <=> t \notin hidden)
          BY <1>1, <1>3, <2>1, <2>2, <4>1, <5>1, RunControls
        <5> QED BY <2>2, <4>1, <5>2
      <4>2. CASE x.slot = "deactivate"
        <5>1. AtMostOne(volumes', t) /\ ~Shows(volumes', t)
          BY <1>1, <1>3, <2>1, <2>2, <4>2, RunControls
        <5> QED BY <2>2, <4>2, <5>1
      <4> QED BY <4>1, <4>2 DEF Kinds
    <3>3. slots' \in Seq(ViewSlot) /\ \A i \in DOMAIN slots' : ~Turn(slots'[i], t)
      BY <1>1, <3>1 DEF ViewTypes
    <3>4. Shown(t)'
      BY <3>2, <3>3, ShownStill
    <3> QED BY <3>2, <3>4
  <2>3. CASE t # s
    <3>1. AtMostOne(volumes', t) /\ (Shows(volumes', t) <=> Shows(volumes, t))
      BY <1>1, <1>3, <2>1, <2>3, RunControls
    <3>2. Shown(t)'
      BY <2>1, <2>3, <3>1, ShownSame
    <3> QED BY <3>1, <3>2
  <2> QED BY <2>2, <2>3
<1>13. Mixer'
  BY <1>12 DEF Mixer
<1> QED BY <1>6, <1>7, <1>10, <1>11, <1>13 DEF ViewInv

(* A signal that a source became active or inactive.                         *)
LEMMA ActivatedStep ==
  ASSUME ViewInv, NEW s \in Sources, SourceActivated(s)
  PROVE  ViewInv'
<1> DEFINE x == [slot |-> "activate", source |-> s]
<1>1. x \in ViewSlot /\ x.source = s /\ x.slot = "activate" /\ x.slot \in Kinds
  BY DEF ViewSlot, Kinds
<1> HIDE DEF x
<1>2. /\ s \in Existing /\ s \notin active /\ active' = active \cup {s} /\ Signal(x)
      /\ UNCHANGED <<name, hidden, projectors, previewArray>>
  BY DEF SourceActivated, x
<1>3. active \subseteq Existing
  BY DEF ViewInv, ViewTypes
<1>4. CASE Run(x) /\ UNCHANGED slots /\ odd' = IF Waits(s) THEN odd \cup {s} ELSE odd
  BY <1>1, <1>2, <1>3, <1>4, TurnRuns
<1>5. CASE slots' = Append(slots, x) /\ UNCHANGED <<volumes, projectorArray, odd>>
  BY <1>1, <1>2, <1>3, <1>5, TurnWaits
<1> QED BY <1>1, <1>2, <1>4, <1>5 DEF Signal

(* A source becomes inactive: the turn is made, or waits with the others.    *)
LEMMA DeactivatedStep ==
  ASSUME ViewInv, NEW s \in Sources, SourceDeactivated(s)
  PROVE  ViewInv'
<1> DEFINE x == [slot |-> "deactivate", source |-> s]
<1>1. x \in ViewSlot /\ x.source = s /\ x.slot = "deactivate" /\ x.slot \in Kinds
  BY DEF ViewSlot, Kinds
<1> HIDE DEF x
<1>2. /\ s \in active /\ active' = active \ {s} /\ Signal(x)
      /\ UNCHANGED <<name, hidden, projectors, previewArray>>
  BY DEF SourceDeactivated, x
<1>3. active \subseteq Existing
  BY DEF ViewInv, ViewTypes
<1>4. CASE Run(x) /\ UNCHANGED slots /\ odd' = IF Waits(s) THEN odd \cup {s} ELSE odd
  BY <1>1, <1>2, <1>3, <1>4, TurnRuns
<1>5. CASE slots' = Append(slots, x) /\ UNCHANGED <<volumes, projectorArray, odd>>
  BY <1>1, <1>2, <1>3, <1>5, TurnWaits
<1> QED BY <1>1, <1>2, <1>4, <1>5 DEF Signal

-----------------------------------------------------------------------------
(* Names.                                                                    *)

(* A source takes a name that nobody uses: what is called otherwise is still *)
(* called as before, and the name it had is nobody's.                        *)
LEMMA NewName ==
  ASSUME ViewTypes, Unique, NEW s \in Sources, NEW n \in Names, n \in Unused,
         name' = [name EXCEPT ![s] = n]
  PROVE  /\ name' \in [Sources -> Names \cup {NoName}]
         /\ name'[s] = n /\ \A t \in Sources : t # s => name'[t] = name[t]
         /\ Existing' = Existing \cup {s} /\ IsFiniteSet(Existing')
         /\ \A t, u \in Existing' : name'[t] = name'[u] => t = u
         /\ \A i \in DOMAIN slots : Rename(slots[i]) =>
              \A t \in Sources : name'[t] # slots[i].prevName
         /\ s \in Existing => \A t \in Sources : name'[t] # name[s]
<1>1. name \in [Sources -> Names \cup {NoName}] /\ n # NoName /\ NoName \notin Names
  BY NamesAssumption DEF ViewTypes
<1>2. name'[s] = n /\ \A t \in Sources : t # s => name'[t] = name[t]
  BY <1>1
<1>3. Existing' = Existing \cup {s}
  BY <1>1, <1>2 DEF Existing
<1>4. IsFiniteSet(Existing')
  <2>1. IsFiniteSet(Existing)
    BY DEF ViewTypes
  <2> QED BY <1>3, <2>1, FS_AddElement, Zenon
<1>5. \A t \in Sources : name[t] # n
  BY DEF Unused
<1>6. \A i \in DOMAIN slots : Rename(slots[i]) => slots[i].prevName # n
  BY DEF Unused, Rename
<1>7. \A t, u \in Existing' : name'[t] = name'[u] => t = u
  BY <1>2, <1>3, <1>5 DEF Unique, Existing
<1>8. \A i \in DOMAIN slots : Rename(slots[i]) =>
              \A t \in Sources : name'[t] # slots[i].prevName
  BY <1>2, <1>6 DEF Unique
<1>9. ASSUME s \in Existing, NEW t \in Sources PROVE name'[t] # name[s]
  <2>1. CASE t = s
    BY <1>2, <1>5, <2>1
  <2>2. CASE t # s /\ t \in Existing
    BY <1>2, <1>9, <2>2 DEF Unique
  <2>3. CASE t # s /\ t \notin Existing
    BY <1>2, <1>9, <2>3 DEF Existing
  <2> QED BY <2>1, <2>2, <2>3
<1>10. name' \in [Sources -> Names \cup {NoName}]
  BY <1>1
<1> QED BY <1>2, <1>3, <1>4, <1>7, <1>8, <1>9, <1>10

(* A source has another name, and a slot waits that will tell.               *)
LEMMA RenameWaits ==
  ASSUME ViewInv, NEW s \in Existing, NEW n \in Names, n \in Unused,
         name' = [name EXCEPT ![s] = n],
         NEW x \in ViewSlot, x.slot = "rename", x.source = s, x.newName = n, x.prevName = name[s],
         slots' = Append(slots, x),
         UNCHANGED <<active, hidden, volumes, projectors, projectorArray, previewArray, odd>>
  PROVE  ViewInv'
<1> DEFINE l == Len(slots)
<1>1. ViewTypes /\ Unique /\ Leading /\ Saved /\ Mixer
  BY DEF ViewInv
<1>2. /\ slots \in Seq(ViewSlot) /\ slots' \in Seq(ViewSlot)
      /\ l \in Nat /\ DOMAIN slots = 1..l /\ DOMAIN slots' = 1..(l + 1)
      /\ \A i \in 1..l : slots'[i] = slots[i]
      /\ slots'[l + 1] = x
  BY <1>1 DEF ViewTypes
<1>3. Rename(x) /\ \A t : ~Turn(x, t)
  BY DEF Rename, Turn, Kinds
<1>4. /\ Existing \subseteq Sources /\ \A i \in DOMAIN slots : slots[i].source \in Existing
      /\ \A i \in DOMAIN volumes : volumes[i].source \in Existing
  BY <1>1 DEF ViewTypes, Existing
<1>5. \A i \in DOMAIN slots' : i = l + 1 \/ (i \in DOMAIN slots /\ slots'[i] = slots[i])
  BY <1>2
<1>6. /\ name' \in [Sources -> Names \cup {NoName}]
      /\ name'[s] = n /\ \A t \in Sources : t # s => name'[t] = name[t]
      /\ Existing' = Existing /\ IsFiniteSet(Existing')
      /\ \A t, u \in Existing' : name'[t] = name'[u] => t = u
      /\ \A i \in DOMAIN slots : Rename(slots[i]) =>
           \A t \in Sources : name'[t] # slots[i].prevName
      /\ \A t \in Sources : name'[t] # name[s]
  <2>1. s \in Sources
    BY <1>4
  <2>2. Existing \cup {s} = Existing
    OBVIOUS
  <2> QED BY <1>1, <2>1, <2>2, NewName
<1>7. ViewTypes'
  <2>1. \A i \in DOMAIN slots' : slots'[i].source \in Existing
    BY <1>2, <1>4, <1>5
  <2> QED BY <1>1, <1>2, <1>6, <2>1 DEF ViewTypes
<1>8. Unique'
  <2>1. \A i \in DOMAIN slots : Rename(slots[i]) => slots[i].prevName # name[s]
    BY <1>1, <1>4 DEF Unique
  <2>2. \A i \in DOMAIN slots' : Rename(slots'[i]) =>
          \A t \in Sources : name'[t] # slots'[i].prevName
    BY <1>2, <1>5, <1>6
  <2>3. \A i, j \in DOMAIN slots' :
          Rename(slots'[i]) /\ Rename(slots'[j]) /\ slots'[i].prevName = slots'[j].prevName => i = j
    BY <1>1, <1>2, <1>5, <2>1 DEF Unique
  <2> QED BY <1>6, <2>2, <2>3 DEF Unique
<1>9. \A m, t, k : t \in Sources /\ k \in 0..l /\ Leads(m, t, k) => Leads(m, t, k)'
  <2> SUFFICES ASSUME NEW m, NEW t \in Sources, NEW k \in 0..l, Leads(m, t, k)
               PROVE  Leads(m, t, k)'
    OBVIOUS
  <2>1. name'[t] = name[t] \/ (Rename(x) /\ x.source = t /\ x.prevName = name[t])
    BY <1>3, <1>6
  <2> QED BY <1>1, <2>1, LeadsAppend
<1>10. Leading'
  <2>1. ASSUME NEW i \in DOMAIN slots', NEW m, NEW t, m = slots'[i].newName, t = slots'[i].source,
               Rename(slots'[i]), t \notin odd'
        PROVE  Leads(m, t, i)'
    <3>1. CASE i = l + 1
      <4>1. m = name'[t]
        BY <1>2, <1>6, <2>1, <3>1
      <4> QED BY <4>1 DEF Leads
    <3>2. CASE i # l + 1
      <4>1. i \in DOMAIN slots /\ slots'[i] = slots[i] /\ i \in 0..l
        BY <1>2, <1>5, <3>2
      <4>2. Leads(m, t, i) /\ t \in Sources
        BY <1>1, <1>4, <2>1, <4>1 DEF Leading
      <4> QED BY <1>9, <4>1, <4>2
    <3> QED BY <3>1, <3>2
  <2>2. ASSUME NEW i \in DOMAIN volumes', NEW m, NEW t, m = volumes'[i].name, t = volumes'[i].source,
               t \notin odd'
        PROVE  Leads(m, t, 0)'
    <3>1. Leads(m, t, 0) /\ t \in Sources /\ 0 \in 0..l
      BY <1>1, <1>2, <1>4, <2>2 DEF Leading
    <3> QED BY <1>9, <3>1
  <2>3. ASSUME NEW k \in Monitors, NEW m, NEW t, m = projectorArray'[k], t = projectors'[k],
               t \in Sources \ odd'
        PROVE  Leads(m, t, 0)'
    <3>1. Leads(m, t, 0) /\ 0 \in 0..l
      BY <1>1, <1>2, <2>3 DEF Leading
    <3> QED BY <1>9, <2>3, <3>1
  <2> QED BY <2>1, <2>2, <2>3 DEF Leading
<1>11. Saved'
  BY <1>1 DEF Saved
<1>12. ASSUME NEW t \in Sources \ odd'
       PROVE  AtMostOne(volumes, t)' /\ Shown(t)'
  <2>1. AtMostOne(volumes, t) /\ Shown(t)
    BY <1>1 DEF Mixer
  <2>2. PICK from \in Kinds :
          /\ Course(slots, t, from, LastTurn(t))
          /\ Shows(volumes, t) <=> (from = "activate" /\ t \notin hidden)
    BY <2>1 DEF Shown
  <2>3. Course(slots', t, from, LastTurn(t))
    BY <1>2, <1>3, <2>2, CourseAppend
  <2>4. LastTurn(t)' = LastTurn(t)
    BY DEF LastTurn
  <2> QED BY <2>1, <2>2, <2>3, <2>4 DEF Shown
<1>13. Mixer'
  BY <1>12 DEF Mixer
<1> QED BY <1>7, <1>8, <1>10, <1>11, <1>13 DEF ViewInv

(* A source has another name, and its slot runs at once.                     *)
LEMMA RenameRuns ==
  ASSUME ViewInv, NEW s \in Existing, NEW n \in Names, n \in Unused,
         name' = [name EXCEPT ![s] = n],
         NEW x \in ViewSlot, x.slot = "rename", x.source = s, x.newName = n, x.prevName = name[s],
         Run(x), odd' = IF Waits(s) THEN odd \cup {s} ELSE odd,
         UNCHANGED <<active, hidden, slots, projectors, previewArray>>
  PROVE  ViewInv'
<1>1. ViewTypes /\ Unique /\ Leading /\ Saved /\ Mixer
  BY DEF ViewInv
<1>2. Rename(x) /\ (\A t : ~Turn(x, t)) /\ \A m : Called(m, x) = IF m = name[s] THEN n ELSE m
  BY DEF Rename, Turn, Kinds, Called, Renamed
<1>3. /\ Existing \subseteq Sources /\ \A i \in DOMAIN slots : slots[i].source \in Existing
      /\ \A i \in DOMAIN volumes : volumes[i].source \in Existing
  BY <1>1 DEF ViewTypes, Existing
<1>4. /\ volumes' \in Seq(Control)
      /\ \A j \in DOMAIN volumes' : \E i \in DOMAIN volumes :
           /\ volumes'[j].source = volumes[i].source
           /\ volumes'[j].name = Called(volumes[i].name, x)
      /\ \A m \in Monitors : projectorArray'[m] = Called(projectorArray[m], x)
      /\ projectorArray' \in [Monitors -> Names \cup {NoName}]
      /\ \A m \in Monitors : projectorArray'[m] = NoName <=> projectorArray[m] = NoName
  <2>1. \A j \in DOMAIN volumes' : \E i \in DOMAIN volumes :
           /\ volumes'[j].source = volumes[i].source
           /\ volumes'[j].name = Called(volumes[i].name, x)
    <3>1. volumes' = [i \in DOMAIN volumes |->
                        [volumes[i] EXCEPT !.name = Called(volumes[i].name, x)]]
      BY <1>2 DEF Run, RenameSources, Called
    <3>2. \A i \in DOMAIN volumes : volumes[i] \in Control
      BY <1>1 DEF ViewTypes
    <3> QED BY <3>1, <3>2 DEF Control
  <2> QED BY <1>1, <2>1, RunControls
<1>5. /\ name' \in [Sources -> Names \cup {NoName}]
      /\ name'[s] = n /\ \A t \in Sources : t # s => name'[t] = name[t]
      /\ Existing' = Existing /\ IsFiniteSet(Existing')
      /\ \A t, u \in Existing' : name'[t] = name'[u] => t = u
      /\ \A i \in DOMAIN slots : Rename(slots[i]) =>
           \A t \in Sources : name'[t] # slots[i].prevName
  <2>1. s \in Sources
    BY <1>3
  <2>2. Existing \cup {s} = Existing
    OBVIOUS
  <2> QED BY <1>1, <2>1, <2>2, NewName
<1>6. ViewTypes'
  <2>1. \A j \in DOMAIN volumes' : volumes'[j].source \in Existing
    BY <1>3, <1>4
  <2> QED BY <1>1, <1>4, <1>5, <2>1 DEF ViewTypes
<1>7. Unique'
  BY <1>1, <1>5 DEF Unique
<1>8. odd \subseteq odd' /\ (s \notin odd' => ~Waits(s))
  OBVIOUS
<1>9. ASSUME NEW m, NEW t \in Existing, t # s, NEW k, Leads(m, t, k)
      PROVE  Leads(m, t, k)' /\ Called(m, x) = m
  <2>1. CASE m = name[t]
    BY <1>1, <1>2, <1>3, <1>5, <1>9, <2>1 DEF Unique, Leads
  <2>2. CASE \E j \in DOMAIN slots :
               j > k /\ Rename(slots[j]) /\ slots[j].source = t /\ slots[j].prevName = m
    <3>1. m # name[s]
      BY <1>1, <1>3, <2>2 DEF Unique
    <3> QED BY <1>2, <2>2, <3>1 DEF Leads
  <2> QED BY <1>9, <2>1, <2>2 DEF Leads
<1>10. ASSUME s \notin odd', NEW m, NEW k, Leads(m, s, k)
       PROVE  \A j : Leads(Called(m, x), s, j)'
  <2>1. m = name[s]
    BY <1>8, <1>10 DEF Leads, Waits
  <2>2. Called(m, x) = n
    BY <1>2, <2>1
  <2>3. \A j : Leads(n, s, j)'
    BY <1>5 DEF Leads
  <2> QED BY <2>2, <2>3
<1>11. Leading'
  <2>1. ASSUME NEW i \in DOMAIN slots', NEW m, NEW t, m = slots'[i].newName, t = slots'[i].source,
               Rename(slots'[i]), t \notin odd'
        PROVE  Leads(m, t, i)'
    <3>1. Leads(m, t, i) /\ t \in Existing /\ Waits(t)
      BY <1>1, <1>3, <1>8, <2>1 DEF Leading, Waits
    <3>2. t # s
      BY <1>8, <2>1, <3>1
    <3> QED BY <1>9, <3>1, <3>2
  <2>2. ASSUME NEW i \in DOMAIN volumes', NEW m, NEW t, m = volumes'[i].name, t = volumes'[i].source,
               t \notin odd'
        PROVE  Leads(m, t, 0)'
    <3>1. PICK j \in DOMAIN volumes : t = volumes[j].source /\ m = Called(volumes[j].name, x)
      BY <1>4, <2>2
    <3>2. PICK v : v = volumes[j].name
      OBVIOUS
    <3>3. m = Called(v, x) /\ Leads(v, t, 0) /\ t \in Existing
      BY <1>1, <1>3, <1>8, <2>2, <3>1, <3>2 DEF Leading
    <3>4. CASE t = s
      BY <1>10, <2>2, <3>3, <3>4
    <3>5. CASE t # s
      BY <1>9, <3>3, <3>5
    <3> QED BY <3>4, <3>5
  <2>3. ASSUME NEW k \in Monitors, NEW m, NEW t, m = projectorArray'[k], t = projectors'[k],
               t \in Sources \ odd'
        PROVE  Leads(m, t, 0)'
    <3>1. PICK v : v = projectorArray[k]
      OBVIOUS
    <3>2. m = Called(v, x) /\ Leads(v, t, 0)
      BY <1>1, <1>4, <1>8, <2>3, <3>1 DEF Leading
    <3>3. t \in Existing
      <4>1. projectors \in [Monitors -> Existing \cup {"preview", Nobody}]
        BY <1>1 DEF ViewTypes
      <4> QED BY <2>3, <4>1, SourcesAssumption
    <3>4. CASE t = s
      BY <1>10, <2>3, <3>2, <3>4
    <3>5. CASE t # s
      BY <1>9, <3>2, <3>3, <3>5
    <3> QED BY <3>4, <3>5
  <2> QED BY <2>1, <2>2, <2>3 DEF Leading
<1>12. Saved'
  BY <1>1, <1>4 DEF Saved
<1>13. ASSUME NEW t \in Sources \ odd'
       PROVE  AtMostOne(volumes, t)' /\ Shown(t)'
  <2>1. AtMostOne(volumes, t) /\ Shown(t)
    BY <1>1, <1>8 DEF Mixer
  <2>2. AtMostOne(volumes', t) /\ (Shows(volumes', t) <=> Shows(volumes, t))
    BY <1>1, <1>2, <2>1, RunControls
  <2>3. Shown(t)'
    BY <2>1, <2>2, ShownSame
  <2> QED BY <2>2, <2>3
<1>14. Mixer'
  BY <1>13 DEF Mixer
<1> QED BY <1>6, <1>7, <1>11, <1>12, <1>14 DEF ViewInv

(* A source gets a name: the slot runs, or leads the window on to the name.  *)
LEMMA RenamedStep ==
  ASSUME ViewInv, NEW s \in Sources, NEW n \in Names, SourceRenamed(s, n)
  PROVE  ViewInv'
<1> DEFINE x == [slot |-> "rename", source |-> s, newName |-> n, prevName |-> name[s]]
<1>1. /\ s \in Existing /\ n \in Unused /\ name' = [name EXCEPT ![s] = n] /\ Signal(x)
      /\ UNCHANGED <<active, hidden, projectors, previewArray>>
  BY DEF SourceRenamed
<1>2. x \in ViewSlot
  <2>1. name[s] \in Names
    BY <1>1, Named, Zenon DEF ViewInv
  <2> QED BY <2>1 DEF ViewSlot
<1>3. x.slot = "rename" /\ x.source = s /\ x.newName = n /\ x.prevName = name[s]
  OBVIOUS
<1> HIDE DEF x
<1>4. PICK y \in ViewSlot : y = x
  BY <1>2
<1>5. CASE Run(y) /\ UNCHANGED slots /\ odd' = IF Waits(s) THEN odd \cup {s} ELSE odd
  BY <1>1, <1>3, <1>4, <1>5, RenameRuns
<1>6. CASE slots' = Append(slots, y) /\ UNCHANGED <<volumes, projectorArray, odd>>
  BY <1>1, <1>3, <1>4, <1>6, RenameWaits
<1> QED BY <1>1, <1>3, <1>4, <1>5, <1>6 DEF Signal

(* The first slot renames what waits for it, and the others lead on.         *)
LEMMA LeadsRun ==
  ASSUME ViewTypes, Unique, slots # <<>>, NEW x, x = Head(slots), slots' = Tail(slots),
         UNCHANGED name, NEW s \in Sources, NEW n, Leads(n, s, 0),
         Rename(x) /\ x.source = s => Leads(x.newName, s, 1)
  PROVE  Leads(Called(n, x), s, 0)'
<1> DEFINE l == Len(slots)
<1>1. /\ l \in Nat /\ l >= 1 /\ DOMAIN slots = 1..l /\ DOMAIN slots' = 1..(l - 1)
      /\ \A i \in 1..(l - 1) : slots'[i] = slots[i + 1]
      /\ x = slots[1]
  BY DEF ViewTypes
<1> HIDE DEF l
<1>2. ASSUME NEW m, NEW j \in DOMAIN slots, j > 1,
             Rename(slots[j]), slots[j].source = s, slots[j].prevName = m
      PROVE  Leads(m, s, 0)'
  <2>1. j - 1 \in DOMAIN slots' /\ j - 1 > 0 /\ slots'[j - 1] = slots[j]
    BY <1>1, <1>2
  <2> QED BY <1>2, <2>1 DEF Leads
<1>3. CASE n = name[s]
  <2>1. Called(n, x) = n
    BY <1>1, <1>3 DEF Called, Renamed, Unique
  <2> QED BY <1>3, <2>1 DEF Leads
<1>4. CASE \E j \in DOMAIN slots :
             j > 0 /\ Rename(slots[j]) /\ slots[j].source = s /\ slots[j].prevName = n
  <2>1. PICK j \in DOMAIN slots :
             j > 0 /\ Rename(slots[j]) /\ slots[j].source = s /\ slots[j].prevName = n
    BY <1>4
  <2>2. CASE j = 1
    <3>1. Called(n, x) = x.newName /\ Leads(x.newName, s, 1)
      BY <1>1, <2>1, <2>2 DEF Called, Renamed
    <3>2. x.newName = name[s] => Leads(x.newName, s, 0)'
      BY DEF Leads
    <3>3. ASSUME \E k \in DOMAIN slots :
                   /\ k > 1 /\ Rename(slots[k]) /\ slots[k].source = s
                   /\ slots[k].prevName = x.newName
          PROVE  Leads(x.newName, s, 0)'
      BY <1>2, <3>3
    <3> QED BY <3>1, <3>2, <3>3 DEF Leads
  <2>3. CASE j # 1
    <3>1. j > 1
      BY <1>1, <2>1, <2>3
    <3>2. Called(n, x) = n
      <4>1. 1 \in DOMAIN slots
        BY <1>1
      <4>2. ~(Rename(x) /\ x.prevName = n)
        BY <1>1, <2>1, <2>3, <4>1 DEF Unique
      <4> QED BY <4>2 DEF Called, Renamed
    <3> QED BY <1>2, <2>1, <3>1, <3>2
  <2> QED BY <2>2, <2>3
<1> QED BY <1>3, <1>4 DEF Leads

(* The slot that has waited longest runs.                                    *)
LEMMA RunStep ==
  ASSUME ViewInv, RunViewSlot
  PROVE  ViewInv'
<1> DEFINE l == Len(slots)
<1>1. ViewTypes /\ Unique /\ Leading /\ Saved /\ Mixer
  BY DEF ViewInv
<1>2. /\ slots # <<>> /\ Run(Head(slots)) /\ slots' = Tail(slots)
      /\ UNCHANGED <<name, active, hidden, projectors, previewArray, odd>>
  BY DEF RunViewSlot
<1>3. PICK x : x = Head(slots)
  OBVIOUS
<1>4. /\ slots \in Seq(ViewSlot) /\ slots' \in Seq(ViewSlot)
      /\ l \in Nat /\ l >= 1 /\ DOMAIN slots = 1..l /\ DOMAIN slots' = 1..(l - 1)
      /\ \A i \in 1..(l - 1) : slots'[i] = slots[i + 1]
      /\ x = slots[1] /\ x \in ViewSlot
  BY <1>1, <1>2, <1>3 DEF ViewTypes
<1>5. /\ Existing \subseteq Sources /\ \A i \in DOMAIN slots : slots[i].source \in Existing
      /\ \A i \in DOMAIN volumes : volumes[i].source \in Existing
      /\ x.source \in Existing /\ Run(x)
  BY <1>1, <1>2, <1>3, <1>4 DEF ViewTypes, Existing
<1>6. \A i \in DOMAIN slots' : i + 1 \in DOMAIN slots /\ slots'[i] = slots[i + 1]
  BY <1>4
<1> HIDE DEF l
<1>7. /\ volumes' \in Seq(Control)
      /\ \A j \in DOMAIN volumes' :
           \/ \E i \in DOMAIN volumes :
                /\ volumes'[j].source = volumes[i].source
                /\ volumes'[j].name = Called(volumes[i].name, x)
           \/ /\ volumes'[j].source \in Existing
              /\ volumes'[j].name = name[volumes'[j].source]
      /\ \A m \in Monitors : projectorArray'[m] = Called(projectorArray[m], x)
      /\ projectorArray' \in [Monitors -> Names \cup {NoName}]
      /\ \A m \in Monitors : projectorArray'[m] = NoName <=> projectorArray[m] = NoName
  BY <1>1, <1>4, <1>5, RunControls
<1>8. ViewTypes'
  <2>1. \A j \in DOMAIN volumes' : volumes'[j].source \in Existing
    BY <1>5, <1>7
  <2>2. \A i \in DOMAIN slots' : slots'[i].source \in Existing
    BY <1>5, <1>6
  <2>3. /\ active \subseteq Existing /\ hidden \subseteq Existing
        /\ projectors \in [Monitors -> Existing \cup {"preview", Nobody}]
        /\ previewArray \in [Monitors -> BOOLEAN]
    BY <1>1 DEF ViewTypes
  <2> QED BY <1>1, <1>2, <1>4, <1>7, <2>1, <2>2, <2>3, TypesKept
<1>9. Unique'
  <2>1. \A i \in DOMAIN slots' : Rename(slots'[i]) =>
          \A s \in Sources : name[s] # slots'[i].prevName
    BY <1>1, <1>6 DEF Unique
  <2>2. \A i, j \in DOMAIN slots' :
          Rename(slots'[i]) /\ Rename(slots'[j]) /\ slots'[i].prevName = slots'[j].prevName => i = j
    <3> SUFFICES ASSUME NEW i \in DOMAIN slots', NEW j \in DOMAIN slots',
                        Rename(slots'[i]), Rename(slots'[j]), slots'[i].prevName = slots'[j].prevName
                 PROVE  i = j
      OBVIOUS
    <3>1. i + 1 = j + 1
      BY <1>1, <1>6 DEF Unique
    <3> QED BY <1>4, <3>1
  <2>3. \A s, t \in Existing' : name'[s] = name'[t] => s = t
    BY <1>1, <1>2 DEF Unique, Existing
  <2> QED BY <1>2, <2>1, <2>2, <2>3 DEF Unique
<1>10. ASSUME NEW s \in Sources \ odd, NEW n, Leads(n, s, 0)
       PROVE  Leads(Called(n, x), s, 0)'
  <2>1. Rename(x) /\ x.source = s => Leads(x.newName, s, 1)
    BY <1>1, <1>4 DEF Leading
  <2> QED BY <1>1, <1>2, <1>3, <1>10, <2>1, LeadsRun
<1>11. ASSUME NEW s, NEW n, NEW k \in DOMAIN slots', Leads(n, s, k + 1)
       PROVE  Leads(n, s, k)'
  <2>1. CASE n = name[s]
    BY <1>2, <2>1 DEF Leads
  <2>2. CASE \E j \in DOMAIN slots :
               j > k + 1 /\ Rename(slots[j]) /\ slots[j].source = s /\ slots[j].prevName = n
    <3>1. PICK j \in DOMAIN slots :
               j > k + 1 /\ Rename(slots[j]) /\ slots[j].source = s /\ slots[j].prevName = n
      BY <2>2
    <3>2. j - 1 \in DOMAIN slots' /\ j - 1 > k /\ slots'[j - 1] = slots[j]
      BY <1>4, <3>1
    <3> QED BY <3>1, <3>2 DEF Leads
  <2> QED BY <1>11, <2>1, <2>2 DEF Leads
<1>12. Leading'
  <2>1. ASSUME NEW i \in DOMAIN slots', NEW n, NEW s, n = slots'[i].newName, s = slots'[i].source,
               Rename(slots'[i]), s \notin odd'
        PROVE  Leads(n, s, i)'
    <3>1. Leads(n, s, i + 1)
      BY <1>1, <1>2, <1>6, <2>1 DEF Leading
    <3> QED BY <1>11, <3>1
  <2>2. ASSUME NEW i \in DOMAIN volumes', NEW n, NEW s, n = volumes'[i].name, s = volumes'[i].source,
               s \notin odd'
        PROVE  Leads(n, s, 0)'
    <3>1. CASE s \in Existing /\ n = name[s]
      BY <1>2, <3>1 DEF Leads
    <3>2. CASE \E j \in DOMAIN volumes : s = volumes[j].source /\ n = Called(volumes[j].name, x)
      <4>1. PICK j \in DOMAIN volumes : s = volumes[j].source /\ n = Called(volumes[j].name, x)
        BY <3>2
      <4>2. PICK v : v = volumes[j].name
        OBVIOUS
      <4>3. n = Called(v, x) /\ Leads(v, s, 0) /\ s \in Sources \ odd
        BY <1>1, <1>2, <1>5, <2>2, <4>1, <4>2 DEF Leading
      <4> QED BY <1>10, <4>3
    <3> QED BY <1>7, <2>2, <3>1, <3>2
  <2>3. ASSUME NEW m \in Monitors, NEW n, NEW s, n = projectorArray'[m], s = projectors'[m],
               s \in Sources \ odd'
        PROVE  Leads(n, s, 0)'
    <3>1. PICK v : v = projectorArray[m]
      OBVIOUS
    <3>2. n = Called(v, x) /\ Leads(v, s, 0) /\ s \in Sources \ odd
      BY <1>1, <1>2, <1>7, <2>3, <3>1 DEF Leading
    <3> QED BY <1>10, <3>2
  <2> QED BY <2>1, <2>2, <2>3 DEF Leading
<1>13. Saved'
  BY <1>1, <1>2, <1>7 DEF Saved
<1>14. ASSUME NEW s \in Sources \ odd'
       PROVE  AtMostOne(volumes, s)' /\ Shown(s)'
  <2>1. AtMostOne(volumes, s) /\ Shown(s) /\ LastTurn(s)' = LastTurn(s)
    BY <1>1, <1>2 DEF Mixer, LastTurn
  <2>2. PICK from \in Kinds :
          /\ Course(slots, s, from, LastTurn(s))
          /\ Shows(volumes, s) <=> (from = "activate" /\ s \notin hidden)
    BY <2>1 DEF Shown
  <2>3. IF Turn(x, s)
        THEN x.slot # from /\ Course(slots', s, x.slot, LastTurn(s))
        ELSE Course(slots', s, from, LastTurn(s))
    BY <1>2, <1>3, <1>4, <2>2, CourseTail
  <2>4. CASE Turn(x, s)
    <3>1. AtMostOne(volumes', s) /\ (Shows(volumes', s) <=> (x.slot = "activate" /\ s \notin hidden))
      <4>1. CASE x.slot = "activate"
        <5>1. ~Shows(volumes, s)
          BY <2>2, <2>3, <2>4, <4>1
        <5> QED BY <1>1, <1>4, <1>5, <2>1, <2>4, <4>1, <5>1, RunControls
      <4>2. CASE x.slot = "deactivate"
        <5>1. AtMostOne(volumes', s) /\ ~Shows(volumes', s)
          BY <1>1, <1>4, <1>5, <2>1, <2>4, <4>2, RunControls
        <5> QED BY <4>2, <5>1
      <4> QED BY <2>4, <4>1, <4>2 DEF Turn, Kinds
    <3>2. x.slot \in Kinds
      BY <2>4 DEF Turn
    <3>3. Shown(s)'
      BY <1>2, <2>1, <2>3, <2>4, <3>1, <3>2 DEF Shown
    <3> QED BY <3>1, <3>3
  <2>5. CASE ~Turn(x, s)
    <3>1. AtMostOne(volumes', s) /\ (Shows(volumes', s) <=> Shows(volumes, s))
      BY <1>1, <1>4, <1>5, <2>1, <2>5, RunControls
    <3>2. Shown(s)'
      BY <1>2, <2>1, <2>2, <2>3, <2>5, <3>1 DEF Shown
    <3> QED BY <3>1, <3>2
  <2> QED BY <2>4, <2>5
<1>15. Mixer'
  BY <1>14 DEF Mixer
<1> QED BY <1>8, <1>9, <1>12, <1>13, <1>15 DEF ViewInv

-----------------------------------------------------------------------------
(* Sources that come and go, and restarts.                                   *)

(* A new source takes a name nothing knows.                                  *)
LEMMA NewStep ==
  ASSUME ViewInv, NEW s \in Sources, NEW n \in Names, SourceNew(s, n)
  PROVE  ViewInv'
<1>1. ViewTypes /\ Unique /\ Leading /\ Saved /\ Mixer
  BY DEF ViewInv
<1>2. /\ s \notin Existing /\ n \in Unused /\ name' = [name EXCEPT ![s] = n]
      /\ UNCHANGED <<active, hidden, volumes, slots, projectors, projectorArray, previewArray, odd>>
  BY DEF SourceNew
<1>3. /\ name' \in [Sources -> Names \cup {NoName}]
      /\ \A t \in Sources : t # s => name'[t] = name[t]
      /\ Existing' = Existing \cup {s} /\ IsFiniteSet(Existing')
      /\ \A t, u \in Existing' : name'[t] = name'[u] => t = u
      /\ \A i \in DOMAIN slots : Rename(slots[i]) =>
           \A t \in Sources : name'[t] # slots[i].prevName
  BY <1>1, <1>2, NewName
<1>4. ViewTypes'
  <2>1. /\ active \subseteq Existing' /\ hidden \subseteq Existing'
        /\ volumes \in Seq(Control) /\ slots \in Seq(ViewSlot)
        /\ \A i \in DOMAIN volumes : volumes[i].source \in Existing'
        /\ \A i \in DOMAIN slots : slots[i].source \in Existing'
    BY <1>1, <1>3 DEF ViewTypes
  <2>2. /\ projectors \in [Monitors -> Existing' \cup {"preview", Nobody}]
        /\ projectorArray \in [Monitors -> Names \cup {NoName}]
        /\ previewArray \in [Monitors -> BOOLEAN]
    BY <1>1, <1>3 DEF ViewTypes
  <2> QED BY <1>2, <1>3, <2>1, <2>2 DEF ViewTypes
<1>5. Unique'
  BY <1>1, <1>2, <1>3 DEF Unique
<1>6. ASSUME NEW m, NEW t \in Existing, NEW k, Leads(m, t, k)
      PROVE  Leads(m, t, k)'
  <2>1. name'[t] = name[t]
    BY <1>2, <1>3 DEF Existing
  <2> QED BY <1>2, <1>6, <2>1 DEF Leads
<1>7. Leading'
  <2>1. ASSUME NEW i \in DOMAIN slots', NEW m, NEW t, m = slots'[i].newName, t = slots'[i].source,
               Rename(slots'[i]), t \notin odd'
        PROVE  Leads(m, t, i)'
    <3>1. Leads(m, t, i) /\ t \in Existing
      BY <1>1, <1>2, <2>1 DEF Leading, ViewTypes
    <3> QED BY <1>6, <3>1
  <2>2. ASSUME NEW i \in DOMAIN volumes', NEW m, NEW t, m = volumes'[i].name, t = volumes'[i].source,
               t \notin odd'
        PROVE  Leads(m, t, 0)'
    <3>1. Leads(m, t, 0) /\ t \in Existing
      BY <1>1, <1>2, <2>2 DEF Leading, ViewTypes
    <3> QED BY <1>6, <3>1
  <2>3. ASSUME NEW k \in Monitors, NEW m, NEW t, m = projectorArray'[k], t = projectors'[k],
               t \in Sources \ odd'
        PROVE  Leads(m, t, 0)'
    <3>1. Leads(m, t, 0)
      BY <1>1, <1>2, <2>3 DEF Leading
    <3>2. t \in Existing
      <4>1. projectors \in [Monitors -> Existing \cup {"preview", Nobody}]
        BY <1>1 DEF ViewTypes
      <4> QED BY <1>2, <2>3, <4>1, SourcesAssumption
    <3> QED BY <1>6, <3>1, <3>2
  <2> QED BY <2>1, <2>2, <2>3 DEF Leading
<1>8. Saved'
  BY <1>1, <1>2 DEF Saved
<1>9. ASSUME NEW t \in Sources \ odd'
      PROVE  AtMostOne(volumes, t)' /\ Shown(t)'
  <2>1. AtMostOne(volumes, t) /\ Shown(t)
    BY <1>1, <1>2 DEF Mixer
  <2> QED BY <1>2, <2>1, ShownSame
<1>10. Mixer'
  BY <1>9 DEF Mixer
<1> QED BY <1>4, <1>5, <1>7, <1>8, <1>10 DEF ViewInv

(* A source goes only when no control and no slot holds it.                  *)
LEMMA GoneStep ==
  ASSUME ViewInv, NEW s \in Sources, SourceGone(s)
  PROVE  ViewInv'
<1>1. ViewTypes /\ Unique /\ Leading /\ Saved /\ Mixer
  BY DEF ViewInv
<1>2. /\ s \in Existing /\ s \notin active /\ slots = <<>> /\ ~Shows(volumes, s)
      /\ name' = [name EXCEPT ![s] = NoName] /\ hidden' = hidden \ {s} /\ odd' = odd \ {s}
      /\ projectors' = [m \in Monitors |-> IF projectors[m] = s THEN Nobody ELSE projectors[m]]
      /\ UNCHANGED <<active, volumes, slots, projectorArray, previewArray>>
  BY DEF SourceGone, Shows
<1>3. name \in [Sources -> Names \cup {NoName}]
  BY <1>1 DEF ViewTypes
<1>4. /\ name' \in [Sources -> Names \cup {NoName}]
      /\ \A t \in Sources : name'[t] = IF t = s THEN NoName ELSE name[t]
      /\ Existing' = Existing \ {s}
  BY <1>2, <1>3 DEF Existing
<1>5. DOMAIN slots = {} /\ slots \in Seq(ViewSlot) /\ DOMAIN slots' = {}
  BY <1>2
<1>6. projectors \in [Monitors -> Existing \cup {"preview", Nobody}]
  BY <1>1 DEF ViewTypes
<1>7. ViewTypes'
  <2>1. IsFiniteSet(Existing')
    <3>1. IsFiniteSet(Existing)
      BY <1>1 DEF ViewTypes
    <3>2. Existing' \in SUBSET Existing
      BY <1>4
    <3> QED BY <3>1, <3>2, FS_Subset, Zenon
  <2>2. /\ active \subseteq Existing' /\ hidden' \subseteq Existing'
        /\ volumes \in Seq(Control) /\ \A i \in DOMAIN volumes : volumes[i].source \in Existing'
    BY <1>1, <1>2, <1>4 DEF ViewTypes, Shows
  <2>3. projectors' \in [Monitors -> Existing' \cup {"preview", Nobody}]
    BY <1>2, <1>4, <1>6
  <2>4. /\ projectorArray \in [Monitors -> Names \cup {NoName}]
        /\ previewArray \in [Monitors -> BOOLEAN]
    BY <1>1 DEF ViewTypes
  <2> QED BY <1>2, <1>4, <1>5, <2>1, <2>2, <2>3, <2>4 DEF ViewTypes
<1>8. Unique'
  <2>1. \A t, u \in Existing' : name'[t] = name'[u] => t = u
    BY <1>1, <1>4 DEF Unique, Existing
  <2> QED BY <1>5, <2>1 DEF Unique
<1>9. ASSUME NEW m, NEW t \in Sources, t # s, Leads(m, t, 0)
      PROVE  Leads(m, t, 0)'
  BY <1>4, <1>5, <1>9 DEF Leads
<1>10. Leading'
  <2>1. ASSUME NEW i \in DOMAIN volumes', NEW m, NEW t, m = volumes'[i].name, t = volumes'[i].source,
               t \notin odd'
        PROVE  Leads(m, t, 0)'
    <3>1. t # s /\ t \in Sources
      BY <1>1, <1>2, <2>1 DEF Shows, ViewTypes, Existing
    <3>2. Leads(m, t, 0)
      BY <1>1, <1>2, <2>1, <3>1 DEF Leading
    <3> QED BY <1>9, <3>1, <3>2
  <2>2. ASSUME NEW k \in Monitors, NEW m, NEW t, m = projectorArray'[k], t = projectors'[k],
               t \in Sources \ odd'
        PROVE  Leads(m, t, 0)'
    <3>1. t = projectors[k] /\ t # s
      BY <1>2, <1>6, <2>2, SourcesAssumption
    <3>2. Leads(m, t, 0)
      BY <1>1, <1>2, <2>2, <3>1 DEF Leading
    <3> QED BY <1>9, <2>2, <3>1, <3>2
  <2> QED BY <1>5, <2>1, <2>2 DEF Leading
<1>11. Saved'
  BY <1>1, <1>2 DEF Saved, Nobody
<1>12. ASSUME NEW t \in Sources \ odd'
       PROVE  AtMostOne(volumes, t)' /\ Shown(t)'
  <2>1. CASE t = s
    <3>1. AtMostOne(volumes', t)
      BY <1>2, <2>1 DEF AtMostOne, Shows
    <3>2. Shows(volumes', t) <=> t \in active' /\ t \notin hidden'
      BY <1>2, <2>1
    <3>3. slots' \in Seq(ViewSlot) /\ \A i \in DOMAIN slots' : ~Turn(slots'[i], t)
      BY <1>2, <1>5
    <3>4. Shown(t)'
      BY <3>2, <3>3, ShownStill
    <3> QED BY <3>1, <3>4
  <2>2. CASE t # s
    <3>1. AtMostOne(volumes, t) /\ Shown(t)
      BY <1>1, <1>2, <2>2 DEF Mixer
    <3> QED BY <1>2, <2>2, <3>1, ShownSame
  <2> QED BY <2>1, <2>2
<1>13. Mixer'
  BY <1>12 DEF Mixer
<1> QED BY <1>7, <1>8, <1>10, <1>11, <1>13 DEF ViewInv

(* The source that has a name, if there is one.                              *)
LEMMA ByNameFacts ==
  ASSUME ViewTypes, Unique, NEW n
  PROVE  /\ ByName(n) \in Existing => name[ByName(n)] = n
         /\ ByName(n) \in Existing \cup {Nobody}
         /\ Nobody \notin Sources /\ "preview" \notin Sources /\ Existing \subseteq Sources
         /\ \A s \in Existing : name[s] = n => ByName(n) = s
<1>1. Nobody \notin Sources /\ "preview" \notin Sources /\ Existing \subseteq Sources
  BY SourcesAssumption DEF Existing
<1>2. CASE \E s \in Existing : name[s] = n
  <2>1. ByName(n) \in Existing /\ name[ByName(n)] = n
    BY <1>2 DEF ByName
  <2>2. \A s \in Existing : name[s] = n => ByName(n) = s
    BY <2>1 DEF Unique
  <2> QED BY <1>1, <2>1, <2>2
<1>3. CASE ~\E s \in Existing : name[s] = n
  BY <1>1, <1>3 DEF ByName
<1> QED BY <1>2, <1>3

(* A restart builds the mixer anew and opens the projectors it had saved.    *)
LEMMA RestartStep ==
  ASSUME ViewInv, NEW there, NEW on \in SUBSET Existing, Restart(there, on)
  PROVE  ViewInv'
<1> DEFINE shown == on \ hidden
<1>1. ViewTypes /\ Unique /\ Leading /\ Saved /\ Mixer
  BY DEF ViewInv
<1>2. /\ active' = on /\ volumes' = Controls(shown) /\ slots' = <<>> /\ odd' = {}
      /\ projectors' = [m \in Monitors |-> Opens(m, there)]
      /\ projectorArray' = [m \in Monitors |->
                              IF RemoveSavedProjectors(m) THEN NoName ELSE projectorArray[m]]
      /\ previewArray' = [m \in Monitors |-> previewArray[m] /\ ~RemoveSavedProjectors(m)]
      /\ UNCHANGED <<name, hidden>>
  BY DEF Restart
<1>3. shown \in SUBSET Existing /\ \A s : s \in shown <=> s \in on /\ s \notin hidden
  OBVIOUS
<1> HIDE DEF shown
<1>4. /\ Controls(shown) \in Seq(Control)
      /\ \A i \in DOMAIN Controls(shown) :
           /\ Controls(shown)[i].source \in shown
           /\ Controls(shown)[i].name = name[Controls(shown)[i].source]
      /\ \A s \in shown : Shows(Controls(shown), s)
      /\ \A s \in Sources : AtMostOne(Controls(shown), s)
  BY <1>1, <1>3, ControlsFacts
<1>5. slots' \in Seq(ViewSlot) /\ DOMAIN slots' = {}
  BY <1>2
<1>6. Nobody \notin Sources /\ "preview" \notin Sources /\ Existing \subseteq Sources
  BY SourcesAssumption DEF Existing
<1>7. ASSUME NEW m \in Monitors
      PROVE  /\ Opens(m, there) \in Existing \cup {"preview", Nobody}
             /\ Opens(m, there) \in Sources =>
                  /\ name[Opens(m, there)] = projectorArray[m] /\ ~RemoveSavedProjectors(m)
             /\ Opens(m, there) = "preview" => previewArray[m] /\ projectorArray[m] = NoName
  <2>1. PICK p : p = ByName(projectorArray[m])
    OBVIOUS
  <2>2. (p \in Existing => name[p] = projectorArray[m]) /\ p \in Existing \cup {Nobody}
    BY <1>1, <2>1, ByNameFacts
  <2>3. RemoveSavedProjectors(m) => p = Nobody
    BY <2>1 DEF RemoveSavedProjectors
  <2>4. \/ Opens(m, there) = Nobody
        \/ Opens(m, there) = p
        \/ Opens(m, there) = "preview" /\ previewArray[m] /\ projectorArray[m] = NoName
    BY <2>1 DEF Opens
  <2> QED BY <1>6, <2>2, <2>3, <2>4 DEF Nobody
<1>8. ViewTypes'
  <2>1. /\ hidden \subseteq Existing
        /\ projectorArray \in [Monitors -> Names \cup {NoName}]
        /\ previewArray \in [Monitors -> BOOLEAN]
    BY <1>1 DEF ViewTypes
  <2>2. \A i \in DOMAIN volumes' : volumes'[i].source \in Existing
    BY <1>2, <1>3, <1>4
  <2>3. projectors' \in [Monitors -> Existing \cup {"preview", Nobody}]
    BY <1>2, <1>7
  <2>4. projectorArray' \in [Monitors -> Names \cup {NoName}]
    BY <1>2, <2>1
  <2>5. previewArray' \in [Monitors -> BOOLEAN]
    BY <1>2
  <2> QED BY <1>1, <1>2, <1>4, <1>5, <2>1, <2>2, <2>3, <2>4, <2>5, TypesKept
<1>9. Unique'
  <2>1. \A s, t \in Existing' : name'[s] = name'[t] => s = t
    BY <1>1, <1>2 DEF Unique, Existing
  <2> QED BY <1>5, <2>1 DEF Unique
<1>10. Leading'
  <2>1. ASSUME NEW i \in DOMAIN volumes', NEW n, NEW t, n = volumes'[i].name, t = volumes'[i].source
        PROVE  Leads(n, t, 0)'
    BY <1>2, <1>4, <2>1 DEF Leads
  <2>2. ASSUME NEW m \in Monitors, NEW n, NEW t, n = projectorArray'[m], t = projectors'[m],
               t \in Sources
        PROVE  Leads(n, t, 0)'
    <3>1. t = Opens(m, there)
      BY <1>2, <2>2
    <3>2. name[t] = projectorArray[m] /\ ~RemoveSavedProjectors(m)
      BY <1>7, <2>2, <3>1
    <3>3. n = name'[t]
      BY <1>2, <2>2, <3>2
    <3> QED BY <3>3 DEF Leads
  <2> QED BY <1>5, <2>1, <2>2 DEF Leading
<1>11. Saved'
  <2> SUFFICES ASSUME NEW m \in Monitors
               PROVE  /\ projectors'[m] = "preview" => previewArray'[m]
                      /\ ~(previewArray'[m] /\ projectorArray'[m] # NoName)
    BY DEF Saved
  <2>1. ~(previewArray[m] /\ projectorArray[m] # NoName)
    BY <1>1 DEF Saved
  <2>2. RemoveSavedProjectors(m) => projectorArray[m] # NoName
    BY DEF RemoveSavedProjectors
  <2>3. /\ projectors'[m] = Opens(m, there)
        /\ projectorArray'[m] = IF RemoveSavedProjectors(m) THEN NoName ELSE projectorArray[m]
        /\ previewArray'[m] <=> previewArray[m] /\ ~RemoveSavedProjectors(m)
    BY <1>2
  <2>4. projectors'[m] = "preview" => previewArray[m] /\ projectorArray[m] = NoName
    BY <1>7, <2>3
  <2> QED BY <2>1, <2>2, <2>3, <2>4
<1>12. ASSUME NEW t \in Sources \ odd'
       PROVE  AtMostOne(volumes, t)' /\ Shown(t)'
  <2>1. AtMostOne(volumes', t)
    BY <1>2, <1>4
  <2>2. Shows(volumes', t) <=> t \in active' /\ t \notin hidden'
    BY <1>2, <1>3, <1>4 DEF Shows
  <2>3. \A i \in DOMAIN slots' : ~Turn(slots'[i], t)
    BY <1>5
  <2>4. Shown(t)'
    BY <1>5, <2>2, <2>3, ShownStill
  <2> QED BY <2>1, <2>4
<1>13. Mixer'
  BY <1>12 DEF Mixer
<1> QED BY <1>8, <1>9, <1>10, <1>11, <1>13 DEF ViewInv

-----------------------------------------------------------------------------
(* At the start there is no source, so that nothing can be wrong.            *)
LEMMA ViewStart ==
  ASSUME NEW envs, ViewInit(envs)
  PROVE  ViewInv
<1>1. /\ name = [s \in Sources |-> NoName] /\ active = {} /\ hidden = {} /\ odd = {}
      /\ volumes = <<>> /\ slots = <<>>
      /\ projectors = [m \in Monitors |-> Nobody] /\ projectorArray = [m \in Monitors |-> NoName]
      /\ previewArray = [m \in Monitors |-> FALSE]
  BY DEF ViewInit
<1>2. Existing = {} /\ IsFiniteSet(Existing)
  <2>1. Existing = {}
    BY <1>1 DEF Existing
  <2> QED BY <2>1, FS_EmptySet
<1>3. /\ volumes \in Seq(Control) /\ DOMAIN volumes = {}
      /\ slots \in Seq(ViewSlot) /\ DOMAIN slots = {}
  BY <1>1
<1>4. ViewTypes
  <2>1. name \in [Sources -> Names \cup {NoName}]
    BY <1>1
  <2>2. /\ projectors \in [Monitors -> Existing \cup {"preview", Nobody}]
        /\ projectorArray \in [Monitors -> Names \cup {NoName}]
        /\ previewArray \in [Monitors -> BOOLEAN]
    BY <1>1
  <2> QED BY <1>1, <1>2, <1>3, <2>1, <2>2 DEF ViewTypes
<1>5. Unique
  BY <1>2, <1>3 DEF Unique
<1>6. Leading
  BY <1>1, <1>3, SourcesAssumption DEF Leading
<1>7. Saved
  BY <1>1 DEF Saved, Nobody
<1>8. ASSUME NEW s \in Sources \ odd
      PROVE  AtMostOne(volumes, s) /\ Shown(s)
  <2>1. LastTurn(s) = "deactivate" /\ LastTurn(s) \in Kinds
    BY <1>1 DEF LastTurn, Kinds
  <2>2. Course(slots, s, LastTurn(s), LastTurn(s))
    BY <1>3, <2>1, CourseStill
  <2> QED BY <1>3, <2>1, <2>2 DEF Shown, AtMostOne, Shows
<1>9. Mixer
  BY <1>8 DEF Mixer
<1> QED BY <1>4, <1>5, <1>6, <1>7, <1>9 DEF ViewInv

(* Every step keeps what makes the mixer and the names right.                *)
LEMMA ViewNextInv ==
  ASSUME ViewInv, ViewNext \/ UNCHANGED viewVars
  PROVE  ViewInv'
<1>1. CASE RunViewSlot
  BY <1>1, RunStep
<1>2. ASSUME NEW s \in Sources,
             \/ SourceActivated(s) \/ SourceDeactivated(s) \/ SourceGone(s)
             \/ HideAudioControl(s) \/ ToggleHideMixer(s)
      PROVE  ViewInv'
  BY <1>2, ActivatedStep, DeactivatedStep, GoneStep, HideStep, ToggleStep
<1>3. ASSUME NEW s \in Sources, NEW n \in Names, SourceNew(s, n) \/ SourceRenamed(s, n)
      PROVE  ViewInv'
  BY <1>3, NewStep, RenamedStep
<1>4. CASE UnhideAllAudioControls
  BY <1>4, UnhideAllStep
<1>5. ASSUME NEW m \in Monitors, NEW what \in Existing \cup {"preview"}, OpenProjector(what, m)
      PROVE  ViewInv'
  BY <1>5, OpenStep
<1>6. CASE CloseProjectors
  BY <1>6, CloseStep
<1>7. ASSUME NEW there, NEW on \in SUBSET Existing, Restart(there, on)
      PROVE  ViewInv'
  BY <1>7, RestartStep
<1>8. CASE UNCHANGED viewVars
  <2>1. Unique' /\ Mixer' /\ \A n, t, k : Leads(n, t, k)' <=> Leads(n, t, k)
    BY <1>8, MixerApart DEF viewVars
  <2>2. ViewTypes' /\ Saved'
    BY <1>8 DEF viewVars, ViewInv, ViewTypes, Saved, Existing
  <2>3. Leading'
    BY <1>8, <2>1 DEF viewVars, ViewInv, Leading
  <2> QED BY <2>1, <2>2, <2>3 DEF ViewInv
<1> QED BY <1>1, <1>2, <1>3, <1>4, <1>5, <1>6, <1>7, <1>8 DEF ViewNext

(* The invariant of the views, over steps of any part.                       *)
LEMMA ViewInvHolds == Spec => []ViewInv
<1>1. Init => ViewInv
  BY ViewStart DEF Init
<1>2. ViewInv /\ [Next]_windowVars => ViewInv'
  BY OtherParts, ViewNextInv
<1> QED BY <1>1, <1>2, PTL DEF Spec

(* The mixer has a control for every source that is active and not hidden,   *)
(* and no other, once the slots that wait have run: from signals of any      *)
(* number of sources in any number of steps.                                 *)
THEOREM MixerCorrect == Spec => []MixerTruthful
<1>1. ViewInv => MixerTruthful
  <2> SUFFICES ASSUME ViewInv, slots = <<>>, NEW s \in Sources \ odd
               PROVE  Cardinality({i \in DOMAIN volumes : volumes[i].source = s})
                        = IF s \in active \ hidden THEN 1 ELSE 0
    BY DEF MixerTruthful
  <2> DEFINE I == {i \in DOMAIN volumes : volumes[i].source = s}
  <2>1. AtMostOne(volumes, s) /\ Shown(s) /\ ViewTypes
    BY DEF ViewInv, Mixer
  <2>2. ~Waits(s)
    BY DEF Waits
  <2>3. Shows(volumes, s) <=> s \in active /\ s \notin hidden
    BY <2>1, <2>2, NoTurns
  <2>4. CASE Shows(volumes, s)
    <3>1. PICK i \in DOMAIN volumes : volumes[i].source = s
      BY <2>4 DEF Shows
    <3>2. I = {i}
      BY <2>1, <3>1 DEF AtMostOne
    <3>3. Cardinality(I) = 1
      BY <3>2, FS_Singleton
    <3> QED BY <2>3, <2>4, <3>3
  <2>5. CASE ~Shows(volumes, s)
    <3>1. I = {}
      BY <2>5 DEF Shows
    <3>2. Cardinality(I) = 0
      BY <3>1, FS_EmptySet
    <3> QED BY <2>3, <2>5, <3>2
  <2> QED BY <2>4, <2>5
<1> QED BY <1>1, ViewInvHolds, PTL

(* The window calls sources by their names, whatever names they have had,    *)
(* and a restart opens the projectors where they were.                       *)
THEOREM NamesCorrect == Spec => NamesFollow
<1> DEFINE CalledRight ==
             slots = <<>> =>
               /\ \A i \in DOMAIN volumes :
                    volumes[i].source \notin odd => volumes[i].name = name[volumes[i].source]
               /\ \A m \in Monitors :
                    /\ projectors[m] \in Sources \ odd => projectorArray[m] = name[projectors[m]]
                    /\ projectors[m] = "preview" => previewArray[m]
                    /\ ~(previewArray[m] /\ projectorArray[m] # NoName)
           Reopened ==
             \A there \in 1..Cardinality(Monitors), on \in SUBSET Existing :
               Restart(there, on) /\ slots = <<>> /\ viewEnv.save =>
                 \A m \in Monitors :
                   m <= there /\ projectors[m] \notin odd \cup {Nobody} =>
                     projectors'[m] = projectors[m]
<1>1. ViewInv /\ slots = <<>> => \A n, s, k : Leads(n, s, k) => n = name[s]
  BY DEF Leads
<1>2. ViewInv => CalledRight
  BY <1>1 DEF ViewInv, Leading, Saved
<1>3. ViewInv => Reopened
  <2> SUFFICES ASSUME ViewInv, NEW there \in 1..Cardinality(Monitors), NEW on \in SUBSET Existing,
                      Restart(there, on), slots = <<>>, viewEnv.save,
                      NEW m \in Monitors, m <= there, projectors[m] \notin odd \cup {Nobody}
               PROVE  projectors'[m] = projectors[m]
    OBVIOUS
  <2>1. ViewTypes /\ Unique /\ Leading /\ Saved
    BY DEF ViewInv
  <2>2. projectors'[m] = Opens(m, there)
    BY DEF Restart
  <2>3. ~(m > there)
    <3>1. Monitors \subseteq 1..10
      BY SourceViewsAssumption
    <3>2. m \in Int /\ there \in Int
      BY <3>1
    <3> QED BY <3>2
  <2>4. projectors[m] \in Existing \cup {"preview"}
    BY <2>1 DEF ViewTypes
  <2>5. CASE projectors[m] \in Existing
    <3>1. PICK p : p = projectors[m]
      OBVIOUS
    <3>2. p \in Sources \ odd /\ p \in Existing
      BY <2>5, <3>1 DEF Existing
    <3>3. projectorArray[m] = name[p]
      BY <1>1, <2>1, <3>1, <3>2 DEF Leading
    <3>4. name[p] # NoName
      BY <3>2 DEF Existing
    <3>5. ByName(projectorArray[m]) = p
      BY <2>1, <3>2, <3>3, ByNameFacts
    <3>6. Opens(m, there) = p
      BY <2>3, <3>3, <3>4, <3>5 DEF Opens
    <3> QED BY <2>2, <3>1, <3>6
  <2>6. CASE projectors[m] = "preview"
    <3>1. previewArray[m] /\ projectorArray[m] = NoName
      BY <2>1, <2>6 DEF Saved
    <3>2. Opens(m, there) = "preview"
      BY <2>3, <3>1 DEF Opens
    <3> QED BY <2>2, <2>6, <3>2
  <2> QED BY <2>4, <2>5, <2>6
<1> HIDE DEF CalledRight, Reopened
<1>4. []ViewInv => []CalledRight /\ [][Reopened]_viewVars
  BY <1>2, <1>3, PTL
<1> QED BY <1>4, ViewInvHolds DEF NamesFollow, CalledRight, Reopened

-----------------------------------------------------------------------------
(* The profile.                                                              *)

(* What basic.ini may hold.                                                  *)
Conf == {c \in [Keys -> Nat \cup {None}] : c["RecTrackIndex"] \in {None} \cup 1..6 /\ Rates(c)}

(* The defaults are the same on every screen but for the sizes.              *)
Defaults ==
  {d \in [Keys -> Nat] :
     /\ d["FPSType"] = 0 /\ d["FPSCommon"] = 30 /\ d["FPSInt"] = 30 /\ d["FPSNum"] = 30
     /\ d["FPSDen"] = 1 /\ d["RecTracks"] = 1}

(* Nothing is left that another screen, or a new start, would change.        *)
Settled(c) ==
  /\ \A key \in SizeKeys : c[key] # None
  /\ c["RecTracks"] # None \/ c["RecTrackIndex"] = None

(* The video of a configuration, whatever the defaults.                      *)
Outcome(c, v) == \A d \in Defaults : v = Video(NonZero(c, d), d)

VideoInv ==
  /\ profileEnv \in ProfileEnvironment
  /\ ini \in Conf
  /\ kept # <<>> => Settled(ini) /\ Outcome(ini, kept)
  /\ running => /\ Settled(ini) /\ defaults \in Defaults
                /\ config = NonZero(ini, defaults) /\ video = Video(config, defaults)

(* The files hold the service that was chosen last, or the one before.       *)
ServiceInv ==
  /\ serviceFile \in [main : Services \cup {NoService}, bak : Services \cup {NoService}]
  /\ saving \in Services \cup {NoService}
  /\ wanted # {} =>
       /\ saving # NoService => saving \in wanted
       /\ serviceFile.main # NoService => serviceFile.main \in wanted
       /\ serviceFile.main = NoService =>
            (IF serviceFile.bak = NoService THEN DefaultService ELSE serviceFile.bak) \in wanted

(* The sizes a configuration without gaps comes to.                          *)
OwnBase(c) ==
  IF c["BaseCX"] > 0 /\ c["BaseCY"] > 0 THEN <<c["BaseCX"], c["BaseCY"]>> ELSE <<1920, 1080>>
OwnOutput(c) ==
  IF c["OutputCX"] > 0 /\ c["OutputCY"] > 0 THEN <<c["OutputCX"], c["OutputCY"]>> ELSE OwnBase(c)

-----------------------------------------------------------------------------
(* The sizes of a screen.                                                    *)

(* A third of each side is a ninth of the pixels, or less.                   *)
LEMMA Ninth ==
  ASSUME NEW a \in Nat, NEW b \in Nat, NEW w \in Nat, NEW h \in Nat, 3 * a <= w, 3 * b <= h
  PROVE  9 * (a * b) <= w * h
<1>1. PICK c \in Nat : w = 3 * a + c
  <2>1. w - 3 * a \in Nat /\ w = 3 * a + (w - 3 * a)
    OBVIOUS
  <2> QED BY <2>1
<1>2. PICK d \in Nat : h = 3 * b + d
  <2>1. h - 3 * b \in Nat /\ h = 3 * b + (h - 3 * b)
    OBVIOUS
  <2> QED BY <2>1
<1>3. w * h = 9 * (a * b) + 3 * (a * d) + 3 * (c * b) + c * d
  BY <1>1, <1>2
<1>4. a * b \in Nat /\ a * d \in Nat /\ c * b \in Nat /\ c * d \in Nat
  OBVIOUS
<1> QED BY <1>3, <1>4

(* The product of two numbers is zero if one of them is.                     *)
LEMMA ZeroProduct ==
  ASSUME NEW a \in Nat, NEW b \in Nat
  PROVE  a * b \in Nat /\ (a * b > 0 <=> a > 0 /\ b > 0) /\ (a * b = 0 <=> ~(a > 0 /\ b > 0))
<1>1. a * b \in Nat
  OBVIOUS
<1>2. a > 0 /\ b > 0 => a * b > 0
  OBVIOUS
<1>3. a = 0 \/ b = 0 => a * b = 0
  OBVIOUS
<1> QED BY <1>1, <1>2, <1>3

(* The scales reduce a size to a third at most.                              *)
LEMMA ScaledFacts ==
  ASSUME NEW size \in (Nat \ 0..2) \X (Nat \ 0..2), NEW k \in 1..11
  PROVE  /\ Scaled(size, k)[1] \in Nat \ {0} /\ Scaled(size, k)[2] \in Nat \ {0}
         /\ k = 11 => Scaled(size, k) = <<size[1] \div 3, size[2] \div 3>>
<1> DEFINE w == size[1]
           h == size[2]
<1>1. w \in Nat /\ h \in Nat /\ w >= 3 /\ h >= 3
  OBVIOUS
<1> DEFINE a == scaled_vals[k][1]
           b == scaled_vals[k][2]
<1>2. a \in 1..11 /\ b \in 1..4 /\ a <= 3 * b /\ (k = 11 => a = 3 /\ b = 1)
  <2>1. \/ k = 1 \/ k = 2 \/ k = 3 \/ k = 4 \/ k = 5 \/ k = 6
        \/ k = 7 \/ k = 8 \/ k = 9 \/ k = 10 \/ k = 11
    OBVIOUS
  <2> QED BY <2>1 DEF scaled_vals
<1>3. Scaled(size, k) = <<(w * b) \div a, (h * b) \div a>>
  BY DEF Scaled
<1> HIDE DEF w, h, a, b
<1>4. ASSUME NEW n \in Nat, n >= 3
      PROVE  (n * b) \div a \in Nat \ {0}
  <2>1. n * b >= 3 * b /\ n * b \in Nat
    <3>1. \/ b = 1 \/ b = 2 \/ b = 3 \/ b = 4
      BY <1>2
    <3> QED BY <1>4, <3>1
  <2> DEFINE m == n * b
  <2>2. m \in Nat /\ m >= a /\ a \in 1..11
    BY <1>2, <2>1
  <2> HIDE DEF m
  <2>3. m \div a \in Nat /\ m \div a >= 1
    <3>1. \/ a = 1 \/ a = 2 \/ a = 3 \/ a = 4 \/ a = 5 \/ a = 6
          \/ a = 7 \/ a = 8 \/ a = 9 \/ a = 10 \/ a = 11
      BY <2>2
    <3> QED BY <2>2, <3>1
  <2> QED BY <2>3 DEF m
<1>5. k = 11 => Scaled(size, k) = <<w \div 3, h \div 3>>
  BY <1>1, <1>2, <1>3
<1> QED BY <1>1, <1>3, <1>4, <1>5 DEF w, h

(* The sizes of a new profile are not zero, and its output is small enough   *)
(* unless the screen has more than nine times the pixels.                    *)
LEMMA DefaultSizes ==
  ASSUME NEW screen \in ScreenSizes
  PROVE  /\ DefaultBase(screen) \in (Nat \ 0..2) \X (Nat \ 0..2)
         /\ DefaultOutput(screen)[1] \in Nat \ {0} /\ DefaultOutput(screen)[2] \in Nat \ {0}
         /\ Pixels(DefaultBase(screen)) <= 9 * Limit => Pixels(DefaultOutput(screen)) <= Limit
<1> DEFINE cx == DefaultBase(screen)
           out == DefaultOutput(screen)
<1>1. cx \in (Nat \ 0..2) \X (Nat \ 0..2)
  BY ProfileStartAssumption DEF DefaultBase
<1>2. Len(scaled_vals) = 11
  BY DEF scaled_vals
<1> DEFINE seq == [i \in 1..11 |-> Scaled(cx, i)]
           I == {i \in 1..11 : Pixels(seq[i]) <= Limit}
<1>3. Len(seq) = 11
  OBVIOUS
<1>4. out = Scaled(cx, IF I # {} THEN (IF Min(I) = 0 THEN 11 ELSE Min(I)) ELSE 11)
  BY <1>2, <1>3 DEF DefaultOutput, SelectInSeq
<1> HIDE DEF cx, out
<1>5. CASE I # {}
  <2>1. Min(I) \in I
    BY <1>5, LeastIsIn
  <2>2. Min(I) \in 1..11 /\ Pixels(Scaled(cx, Min(I))) <= Limit
    BY <2>1
  <2>3. out = Scaled(cx, Min(I))
    BY <1>4, <1>5, <2>2
  <2> HIDE DEF I
  <2> QED BY <1>1, <2>2, <2>3, ScaledFacts DEF cx, out
<1>6. CASE I = {}
  <2>1. out = Scaled(cx, 11)
    BY <1>4, <1>6
  <2>2. out = <<cx[1] \div 3, cx[2] \div 3>> /\ out[1] \in Nat \ {0} /\ out[2] \in Nat \ {0}
    BY <1>1, <2>1, ScaledFacts
  <2> DEFINE a == cx[1] \div 3
             b == cx[2] \div 3
             w == cx[1]
             h == cx[2]
  <2>3. a \in Nat /\ b \in Nat /\ w \in Nat /\ h \in Nat /\ 3 * a <= w /\ 3 * b <= h
    BY <1>1
  <2>4. Pixels(out) = a * b /\ Pixels(cx) = w * h
    BY <2>2 DEF Pixels
  <2> HIDE DEF a, b, w, h
  <2>5. 9 * (a * b) <= w * h /\ a * b \in Nat /\ w * h \in Nat
    BY <2>3, Ninth
  <2>6. Pixels(cx) <= 9 * Limit => Pixels(out) <= Limit
    BY <2>4, <2>5 DEF Limit
  <2> QED BY <1>1, <2>2, <2>6 DEF cx, out
<1> QED BY <1>5, <1>6

-----------------------------------------------------------------------------
(* The video of a configuration.                                             *)

(* With replaces the two keys and no others.                                 *)
LEMMA WithFacts ==
  ASSUME NEW c \in Conf, NEW w \in Nat, NEW h \in Nat
  PROVE  /\ With(c, Base, <<w, h>>) \in Conf /\ With(c, Output, <<w, h>>) \in Conf
         /\ With(c, Base, <<w, h>>)["BaseCX"] = w /\ With(c, Base, <<w, h>>)["BaseCY"] = h
         /\ With(c, Output, <<w, h>>)["OutputCX"] = w /\ With(c, Output, <<w, h>>)["OutputCY"] = h
         /\ \A key \in Keys \ {"BaseCX", "BaseCY"} : With(c, Base, <<w, h>>)[key] = c[key]
         /\ \A key \in Keys \ {"OutputCX", "OutputCY"} : With(c, Output, <<w, h>>)[key] = c[key]
<1> DEFINE b == [c EXCEPT !["BaseCX"] = w, !["BaseCY"] = h]
           o == [c EXCEPT !["OutputCX"] = w, !["OutputCY"] = h]
<1>1. With(c, Base, <<w, h>>) = b /\ With(c, Output, <<w, h>>) = o
  BY DEF With, Base, Output
<1>2. c \in [Keys -> Nat \cup {None}]
  BY DEF Conf
<1>3. /\ b["BaseCX"] = w /\ b["BaseCY"] = h
      /\ \A key \in Keys \ {"BaseCX", "BaseCY"} : b[key] = c[key]
      /\ b \in [Keys -> Nat \cup {None}]
  BY <1>2 DEF Keys, SizeKeys
<1>4. /\ o["OutputCX"] = w /\ o["OutputCY"] = h
      /\ \A key \in Keys \ {"OutputCX", "OutputCY"} : o[key] = c[key]
      /\ o \in [Keys -> Nat \cup {None}]
  BY <1>2 DEF Keys, SizeKeys
<1> HIDE DEF b, o
<1>5. b["RecTrackIndex"] = c["RecTrackIndex"] /\ o["RecTrackIndex"] = c["RecTrackIndex"]
  BY <1>3, <1>4 DEF Keys
<1>6. \A key \in {"FPSInt", "FPSNum", "FPSDen"} : b[key] = c[key] /\ o[key] = c[key]
  BY <1>3, <1>4 DEF Keys, FpsKeys
<1>7. b \in Conf /\ o \in Conf
  BY <1>3, <1>4, <1>5, <1>6 DEF Conf, Rates
<1> QED BY <1>1, <1>3, <1>4, <1>7

(* A configuration without gaps comes to sizes of its own.                   *)
LEMMA NonZeroFacts ==
  ASSUME NEW c \in Conf, Settled(c), NEW d \in Defaults, NEW z, z = NonZero(c, d)
  PROVE  /\ z \in Conf /\ Settled(z)
         /\ \A key \in Keys \ SizeKeys : z[key] = c[key]
         /\ Both(z, d, Base) = OwnBase(c) /\ Both(z, d, Output) = OwnOutput(c)
<1> DEFINE bx == c["BaseCX"]
           by == c["BaseCY"]
           ox == c["OutputCX"]
           oy == c["OutputCY"]
<1>1. bx \in Nat /\ by \in Nat /\ ox \in Nat /\ oy \in Nat
  BY DEF Conf, Settled, Keys, SizeKeys
<1>2. Both(c, d, Base) = <<bx, by>>
  BY DEF Both, Value, Base, Settled, SizeKeys
<1> DEFINE e == IF Pixels(<<bx, by>>) = 0 THEN With(c, Base, <<1920, 1080>>) ELSE c
<1>3. z = IF Pixels(Both(e, d, Output)) = 0 THEN With(e, Output, Both(e, d, Base)) ELSE e
  BY <1>2 DEF NonZero
<1>4. Pixels(<<bx, by>>) = bx * by
  BY DEF Pixels
<1>5. /\ e \in Conf
      /\ e["BaseCX"] = OwnBase(c)[1] /\ e["BaseCY"] = OwnBase(c)[2]
      /\ OwnBase(c)[1] \in Nat /\ OwnBase(c)[2] \in Nat /\ OwnBase(c) = <<OwnBase(c)[1], OwnBase(c)[2]>>
      /\ \A key \in Keys \ {"BaseCX", "BaseCY"} : e[key] = c[key]
  <2>1. CASE bx > 0 /\ by > 0
    <3>1. bx * by # 0
      BY <1>1, <2>1, ZeroProduct
    <3>2. e = c /\ OwnBase(c) = <<bx, by>>
      BY <1>4, <2>1, <3>1 DEF OwnBase
    <3> QED BY <1>1, <3>2
  <2>2. CASE ~(bx > 0 /\ by > 0)
    <3>1. bx * by = 0
      BY <1>1, <2>2, ZeroProduct
    <3>2. e = With(c, Base, <<1920, 1080>>) /\ OwnBase(c) = <<1920, 1080>>
      BY <1>4, <2>2, <3>1 DEF OwnBase
    <3> HIDE DEF e
    <3> QED BY <3>2, WithFacts
  <2> QED BY <2>1, <2>2
<1> HIDE DEF e
<1>6. e["OutputCX"] = ox /\ e["OutputCY"] = oy
  BY <1>5 DEF Keys, SizeKeys
<1>7. Both(e, d, Base) = OwnBase(c) /\ Both(e, d, Output) = <<ox, oy>>
  BY <1>1, <1>5, <1>6 DEF Both, Value, Base, Output, None
<1>8. Pixels(<<ox, oy>>) = ox * oy
  BY DEF Pixels
<1>9. /\ z \in Conf
      /\ z["OutputCX"] = OwnOutput(c)[1] /\ z["OutputCY"] = OwnOutput(c)[2]
      /\ OwnOutput(c)[1] \in Nat /\ OwnOutput(c)[2] \in Nat
      /\ OwnOutput(c) = <<OwnOutput(c)[1], OwnOutput(c)[2]>>
      /\ \A key \in Keys \ {"OutputCX", "OutputCY"} : z[key] = e[key]
  <2>1. CASE ox > 0 /\ oy > 0
    <3>1. ox * oy # 0
      BY <1>1, <2>1, ZeroProduct
    <3>2. z = e /\ OwnOutput(c) = <<ox, oy>>
      BY <1>3, <1>7, <1>8, <2>1, <3>1 DEF OwnOutput
    <3> QED BY <1>1, <1>5, <1>6, <3>2
  <2>2. CASE ~(ox > 0 /\ oy > 0)
    <3>1. ox * oy = 0
      BY <1>1, <2>2, ZeroProduct
    <3>2. z = With(e, Output, OwnBase(c)) /\ OwnOutput(c) = OwnBase(c)
      BY <1>3, <1>7, <1>8, <2>2, <3>1 DEF OwnOutput
    <3>3. z = With(e, Output, <<OwnBase(c)[1], OwnBase(c)[2]>>)
      BY <1>5, <3>2
    <3> DEFINE w == OwnBase(c)[1]
               h == OwnBase(c)[2]
    <3>5. w \in Nat /\ h \in Nat /\ z = With(e, Output, <<w, h>>)
      BY <1>5, <3>3
    <3> HIDE DEF w, h
    <3>6. /\ z \in Conf /\ z["OutputCX"] = w /\ z["OutputCY"] = h
          /\ \A key \in Keys \ {"OutputCX", "OutputCY"} : z[key] = e[key]
      <4>1. e \in Conf
        BY <1>5
      <4>2. With(e, Output, <<w, h>>) \in Conf
        BY <3>5, <4>1, WithFacts
      <4>3. With(e, Output, <<w, h>>)["OutputCX"] = w /\ With(e, Output, <<w, h>>)["OutputCY"] = h
        BY <3>5, <4>1, WithFacts
      <4>4. \A key \in Keys \ {"OutputCX", "OutputCY"} : With(e, Output, <<w, h>>)[key] = e[key]
        BY <3>5, <4>1, WithFacts
      <4> QED BY <3>5, <4>2, <4>3, <4>4
    <3>4. /\ z \in Conf /\ z["OutputCX"] = OwnBase(c)[1] /\ z["OutputCY"] = OwnBase(c)[2]
          /\ \A key \in Keys \ {"OutputCX", "OutputCY"} : z[key] = e[key]
      BY <3>6 DEF w, h
    <3> QED BY <1>5, <3>2, <3>4
  <2> QED BY <2>1, <2>2
<1>10. z["BaseCX"] = OwnBase(c)[1] /\ z["BaseCY"] = OwnBase(c)[2]
  BY <1>5, <1>9 DEF Keys, SizeKeys
<1>11. Both(z, d, Base) = OwnBase(c) /\ Both(z, d, Output) = OwnOutput(c)
  BY <1>5, <1>9, <1>10 DEF Both, Value, Base, Output, None
<1>12. \A key \in Keys \ SizeKeys : z[key] = c[key]
  BY <1>5, <1>9 DEF SizeKeys
<1>13. Settled(z)
  <2>1. z["RecTracks"] = c["RecTracks"] /\ z["RecTrackIndex"] = c["RecTrackIndex"]
    BY <1>12 DEF Keys, SizeKeys
  <2>2. \A key \in SizeKeys : z[key] # None
    BY <1>5, <1>9, <1>10 DEF SizeKeys, None
  <2> QED BY <2>1, <2>2 DEF Settled
<1> QED BY <1>9, <1>11, <1>12, <1>13

(* Those sizes are not zero.                                                 *)
LEMMA OwnSizes ==
  ASSUME NEW c \in Conf, Settled(c)
  PROVE  Pixels(OwnBase(c)) > 0 /\ Pixels(OwnOutput(c)) > 0
<1>1. \A key \in SizeKeys : c[key] \in Nat
  BY DEF Conf, Settled, Keys
<1>2. Pixels(<<1920, 1080>>) > 0
  BY DEF Pixels
<1>3. \A w, h \in Nat : w > 0 /\ h > 0 => Pixels(<<w, h>>) > 0
  BY ZeroProduct DEF Pixels
<1>4. Pixels(OwnBase(c)) > 0
  BY <1>1, <1>2, <1>3 DEF OwnBase, SizeKeys
<1>5. Pixels(OwnOutput(c)) > 0
  BY <1>1, <1>3, <1>4 DEF OwnOutput, SizeKeys
<1> QED BY <1>4, <1>5

(* The rate is not zero.                                                     *)
LEMMA RateFacts ==
  ASSUME NEW z \in Conf, NEW d \in Defaults
  PROVE  Pixels(GetConfigFPS(z, d)) > 0
<1> DEFINE int == Value(z, d, "FPSInt")
           num == Value(z, d, "FPSNum")
           den == Value(z, d, "FPSDen")
<1>1. /\ int \in Nat /\ int > 0 /\ num \in Nat /\ num > 0 /\ den \in Nat /\ den > 0
  BY DEF Conf, Rates, Defaults, Value, Keys, FpsKeys, None
<1>2. Both(z, d, <<"FPSNum", "FPSDen">>) = <<num, den>>
  BY DEF Both
<1> HIDE DEF int, num, den
<1>3. Pixels(<<int, 1>>) > 0
  BY <1>1 DEF Pixels
<1>4. Pixels(<<num, den>>) > 0
  BY <1>1, ZeroProduct DEF Pixels
<1>5. \A val : Pixels(GetFPSCommon(val)) > 0
  BY DEF Pixels, GetFPSCommon
<1>6. GetConfigFPS(z, d) =
        CASE Value(z, d, "FPSType") = 1 -> <<int, 1>>
          [] Value(z, d, "FPSType") = 2 -> <<num, den>>
          [] OTHER -> GetFPSCommon(Value(z, d, "FPSCommon"))
  BY <1>2 DEF GetConfigFPS, int
<1> QED BY <1>3, <1>4, <1>5, <1>6

(* A configuration without gaps has the same video whatever the defaults.    *)
LEMMA OutcomeFacts ==
  ASSUME NEW c \in Conf, Settled(c), NEW d \in Defaults
  PROVE  Outcome(c, Video(NonZero(c, d), d))
<1> SUFFICES ASSUME NEW e \in Defaults
             PROVE  Video(NonZero(c, d), d) = Video(NonZero(c, e), e)
  BY DEF Outcome
<1> DEFINE y == NonZero(c, d)
           z == NonZero(c, e)
<1>1. /\ Both(y, d, Base) = Both(z, e, Base) /\ Both(y, d, Output) = Both(z, e, Output)
      /\ \A key \in Keys \ SizeKeys : y[key] = c[key] /\ z[key] = c[key]
  BY NonZeroFacts
<1> HIDE DEF y, z
<1>2. \A key \in FpsKeys \cup {"RecTracks"} : Value(y, d, key) = Value(z, e, key)
  BY <1>1 DEF Value, Keys, SizeKeys, FpsKeys, Defaults
<1>3. GetConfigFPS(y, d) = GetConfigFPS(z, e)
  BY <1>2 DEF GetConfigFPS, Both, FpsKeys
<1>4. Value(y, d, "RecTracks") = Value(z, e, "RecTracks")
  BY <1>2
<1>5. Video(y, d) = Video(z, e)
  BY <1>1, <1>3, <1>4 DEF Video
<1> QED BY <1>5 DEF y, z

(* Whatever screen, the defaults are defaults.                               *)
LEMMA DefaultsFacts ==
  ASSUME NEW screen \in ScreenSizes
  PROVE  DefaultsFor(screen) \in Defaults
<1> DEFINE d == DefaultsFor(screen)
<1>1. /\ DefaultBase(screen)[1] \in Nat /\ DefaultBase(screen)[2] \in Nat
      /\ DefaultOutput(screen)[1] \in Nat /\ DefaultOutput(screen)[2] \in Nat
  BY DefaultSizes
<1>2. ASSUME NEW key \in Keys
      PROVE  d[key] \in Nat
  <2>1. /\ d[key] = CASE key = "BaseCX" -> DefaultBase(screen)[1] [] key = "BaseCY" -> DefaultBase(screen)[2]
             [] key = "OutputCX" -> DefaultOutput(screen)[1] [] key = "OutputCY" -> DefaultOutput(screen)[2]
             [] key = "FPSType" -> 0
             [] key \in {"FPSCommon", "FPSInt", "FPSNum"} -> 30
             [] key \in {"FPSDen", "RecTracks"} -> 1
             [] key = "RecTrackIndex" -> 0
    BY DEF DefaultsFor
  <2> QED BY <1>1, <2>1 DEF Keys, SizeKeys, FpsKeys
<1>3. d \in [Keys -> Nat]
  BY <1>2 DEF DefaultsFor
<1>4. /\ d["FPSType"] = 0 /\ d["FPSCommon"] = 30 /\ d["FPSInt"] = 30 /\ d["FPSNum"] = 30
      /\ d["FPSDen"] = 1 /\ d["RecTracks"] = 1
  BY DEF DefaultsFor, Keys, FpsKeys
<1> QED BY <1>3, <1>4 DEF Defaults

(* A start saves what older versions had left out, and leaves a              *)
(* configuration without gaps as it is.                                      *)
LEMMA StartFacts ==
  ASSUME NEW c \in Conf, NEW screen \in ScreenSizes
  PROVE  LET after == InitBasicConfig(c, screen)
         IN  /\ \A k \in 1..3 : after[k] \in Conf
             /\ Settled(after[3])
             /\ Settled(c) => \A k \in 1..3 : after[k] = c
             /\ c["OutputCX"] = None =>
                  /\ after[3]["OutputCX"] = DefaultOutput(screen)[1]
                  /\ after[3]["OutputCY"] = DefaultOutput(screen)[2]
<1> DEFINE b == DefaultBase(screen)
           o == DefaultOutput(screen)
           moved == MoveTracks(c)
           based == Fix(moved, Base, b)
           done == Fix(based, Output, o)
<1>1. b[1] \in Nat /\ b[2] \in Nat /\ o[1] \in Nat /\ o[2] \in Nat
  BY DefaultSizes
<1> HIDE DEF b, o
<1>2. /\ moved \in Conf
      /\ moved["RecTracks"] # None \/ moved["RecTrackIndex"] = None
      /\ \A key \in SizeKeys : moved[key] = c[key]
      /\ Settled(c) => moved = c
  <2> DEFINE i == c["RecTrackIndex"]
  <2>1. CASE i # None /\ c["RecTracks"] = None
    <3>1. i \in 1..6
      BY <2>1 DEF Conf
    <3> DEFINE t == <<1, 2, 4, 8, 16, 32>>[i]
    <3>2. t \in Nat /\ t # None
      <4>1. i = 1 \/ i = 2 \/ i = 3 \/ i = 4 \/ i = 5 \/ i = 6
        BY <3>1
      <4> QED BY <4>1 DEF None
    <3> HIDE DEF t
    <3>3. moved = [c EXCEPT !["RecTracks"] = t, !["RecTrackIndex"] = None]
      BY <2>1 DEF MoveTracks, t
    <3>4. c \in [Keys -> Nat \cup {None}] /\ Rates(c)
      BY DEF Conf
    <3>5. /\ moved \in [Keys -> Nat \cup {None}]
          /\ moved["RecTracks"] = t /\ moved["RecTrackIndex"] = None
          /\ \A key \in SizeKeys \cup FpsKeys : moved[key] = c[key]
      BY <3>2, <3>3, <3>4 DEF Keys, SizeKeys, FpsKeys
    <3>6. Rates(moved)
      BY <3>4, <3>5 DEF Rates, FpsKeys
    <3> QED BY <2>1, <3>2, <3>5, <3>6 DEF Conf, Settled
  <2>2. CASE ~(i # None /\ c["RecTracks"] = None)
    <3>1. moved = c
      BY <2>2 DEF MoveTracks
    <3> QED BY <2>2, <3>1
  <2> QED BY <2>1, <2>2
<1> HIDE DEF moved
<1>3. /\ based \in Conf
      /\ based["BaseCX"] # None /\ based["BaseCY"] # None
      /\ \A key \in Keys \ {"BaseCX", "BaseCY"} : based[key] = moved[key]
      /\ None \notin {moved["BaseCX"], moved["BaseCY"]} => based = moved
  <2>1. CASE None \in {moved["BaseCX"], moved["BaseCY"]}
    <3> DEFINE w == b[1]
               h == b[2]
    <3>1. w \in Nat /\ h \in Nat /\ based = With(moved, Base, <<w, h>>)
      BY <1>1, <2>1 DEF Fix, With, Base
    <3> HIDE DEF based, w, h
    <3>2. /\ based \in Conf /\ based["BaseCX"] = w /\ based["BaseCY"] = h
          /\ \A key \in Keys \ {"BaseCX", "BaseCY"} : based[key] = moved[key]
      BY <1>2, <3>1, WithFacts
    <3>3. w # None /\ h # None
      BY <3>1 DEF None
    <3> QED BY <2>1, <3>2, <3>3 DEF w, h
  <2>2. CASE None \notin {moved["BaseCX"], moved["BaseCY"]}
    <3>1. based = moved
      BY <2>2 DEF Fix, Base
    <3> QED BY <1>2, <2>2, <3>1
  <2> QED BY <2>1, <2>2
<1> HIDE DEF based
<1>4. /\ done \in Conf
      /\ done["OutputCX"] # None /\ done["OutputCY"] # None
      /\ \A key \in Keys \ {"OutputCX", "OutputCY"} : done[key] = based[key]
      /\ None \notin {based["OutputCX"], based["OutputCY"]} => done = based
      /\ based["OutputCX"] = None => done["OutputCX"] = o[1] /\ done["OutputCY"] = o[2]
  <2>1. CASE None \in {based["OutputCX"], based["OutputCY"]}
    <3> DEFINE w == o[1]
               h == o[2]
    <3>1. w \in Nat /\ h \in Nat /\ done = With(based, Output, <<w, h>>)
      BY <1>1, <2>1 DEF Fix, With, Output
    <3> HIDE DEF done, w, h
    <3>2. /\ done \in Conf /\ done["OutputCX"] = w /\ done["OutputCY"] = h
          /\ \A key \in Keys \ {"OutputCX", "OutputCY"} : done[key] = based[key]
      BY <1>3, <3>1, WithFacts
    <3>3. w # None /\ h # None
      BY <3>1 DEF None
    <3> QED BY <2>1, <3>2, <3>3 DEF w, h
  <2>2. CASE None \notin {based["OutputCX"], based["OutputCY"]}
    <3>1. done = based
      BY <2>2 DEF Fix, Output
    <3> QED BY <1>3, <2>2, <3>1
  <2> QED BY <2>1, <2>2
<1> HIDE DEF done
<1>5. InitBasicConfig(c, screen) = <<moved, based, done>>
  BY DEF InitBasicConfig, moved, based, done, b, o
<1>6. /\ based["OutputCX"] = c["OutputCX"] /\ based["OutputCY"] = c["OutputCY"]
      /\ based["RecTracks"] = moved["RecTracks"] /\ based["RecTrackIndex"] = moved["RecTrackIndex"]
  BY <1>2, <1>3 DEF Keys, SizeKeys
<1>7. Settled(done)
  <2>1. done["RecTracks"] = moved["RecTracks"] /\ done["RecTrackIndex"] = moved["RecTrackIndex"]
    BY <1>4, <1>6 DEF Keys
  <2>2. done["BaseCX"] # None /\ done["BaseCY"] # None
    BY <1>3, <1>4 DEF Keys, SizeKeys
  <2> QED BY <1>2, <1>4, <2>1, <2>2 DEF Settled, SizeKeys
<1>8. Settled(c) => moved = c /\ based = c /\ done = c
  <2> SUFFICES ASSUME Settled(c)
               PROVE  moved = c /\ based = c /\ done = c
    OBVIOUS
  <2>1. None \notin {c["BaseCX"], c["BaseCY"], c["OutputCX"], c["OutputCY"]}
    BY DEF Settled, SizeKeys
  <2> QED BY <1>2, <1>3, <1>4, <2>1
<1>9. \A k \in 1..3 : k = 1 \/ k = 2 \/ k = 3
  OBVIOUS
<1> QED BY <1>2, <1>3, <1>4, <1>5, <1>6, <1>7, <1>8, <1>9 DEF o

-----------------------------------------------------------------------------
(* Where a run comes from its configuration.                                 *)
VideoStands(c, b, d, v, k) ==
  /\ c \in Conf /\ Settled(c) /\ d \in Defaults
  /\ b = NonZero(c, d) /\ v = Video(b, d)
  /\ k = v

(* It is what another start makes of it, and has no zeros.                   *)
LEMMA StandsFacts ==
  ASSUME NEW c, NEW b, NEW d, NEW v, NEW k, VideoStands(c, b, d, v, k)
  PROVE  Outcome(c, k)
BY OutcomeFacts DEF VideoStands

(* What a run has of it is not zero.                                         *)
LEMMA RunningSizes ==
  ASSUME NEW c \in Conf, Settled(c), NEW d \in Defaults, NEW v, v = Video(NonZero(c, d), d)
  PROVE  Pixels(v.base) > 0 /\ Pixels(v.output) > 0 /\ Pixels(v.fps) > 0
<1> DEFINE z == NonZero(c, d)
<1>1. /\ z \in Conf /\ Both(z, d, Base) = OwnBase(c) /\ Both(z, d, Output) = OwnOutput(c)
  BY NonZeroFacts
<1> HIDE DEF z
<1>2. v.base = OwnBase(c) /\ v.output = OwnOutput(c) /\ v.fps = GetConfigFPS(z, d)
  BY <1>1 DEF Video, z
<1> QED BY <1>1, <1>2, OwnSizes, RateFacts

(* A start.                                                                  *)
LEMMA StartStands ==
  ASSUME VideoInv, NEW screen \in ScreenSizes, NEW plugins, Start(screen, plugins)
  PROVE  /\ VideoStands(ini', config', defaults', video', kept')
         /\ kept # <<>> => video' = kept
         /\ ini["OutputCX"] = None /\ Pixels(DefaultBase(screen)) <= 9 * Limit
              => Pixels(video'.output) <= Limit
<1>1. PICK c : c = InitBasicConfig(ini, screen)[3]
  OBVIOUS
<1>2. PICK d : d = DefaultsFor(screen)
  OBVIOUS
<1>3. /\ ini' = c /\ defaults' = d /\ config' = NonZero(c, d)
      /\ video' = Video(NonZero(c, d), d) /\ kept' = video'
  BY <1>1, <1>2 DEF Start, ResetVideo
<1>4. ini \in Conf
  BY DEF VideoInv
<1>5. /\ c \in Conf /\ Settled(c)
      /\ Settled(ini) => c = ini
      /\ ini["OutputCX"] = None =>
           c["OutputCX"] = DefaultOutput(screen)[1] /\ c["OutputCY"] = DefaultOutput(screen)[2]
  BY <1>1, <1>4, StartFacts
<1>6. d \in Defaults
  BY <1>2, DefaultsFacts
<1>7. VideoStands(ini', config', defaults', video', kept')
  BY <1>3, <1>5, <1>6 DEF VideoStands
<1>8. ASSUME kept # <<>>
      PROVE  video' = kept
  BY <1>3, <1>5, <1>6, <1>8 DEF VideoInv, Outcome
<1>9. ASSUME ini["OutputCX"] = None, Pixels(DefaultBase(screen)) <= 9 * Limit
      PROVE  Pixels(video'.output) <= Limit
  <2> DEFINE o == DefaultOutput(screen)
  <2>1. o[1] \in Nat \ {0} /\ o[2] \in Nat \ {0} /\ Pixels(o) <= Limit
    BY <1>9, DefaultSizes
  <2>2. c["OutputCX"] = o[1] /\ c["OutputCY"] = o[2]
    BY <1>5, <1>9
  <2> HIDE DEF o
  <2>3. OwnOutput(c) = <<o[1], o[2]>>
    BY <2>1, <2>2 DEF OwnOutput
  <2>4. Pixels(OwnOutput(c)) <= Limit
    BY <2>1, <2>3 DEF Pixels
  <2>5. Both(NonZero(c, d), d, Output) = OwnOutput(c)
    BY <1>5, <1>6, NonZeroFacts
  <2>6. video'.output = OwnOutput(c)
    BY <1>3, <2>5 DEF Video
  <2> QED BY <2>4, <2>6
<1> QED BY <1>7, <1>8, <1>9

(* A choice in the settings.                                                 *)
LEMMA ChoiceStands ==
  ASSUME VideoInv, NEW s \in VideoSettings, ChooseVideo(s)
  PROVE  VideoStands(ini', config', defaults', video', kept')
<1>1. PICK c : c = [key \in Keys |-> IF key \in DOMAIN s THEN s[key] ELSE config[key]]
  OBVIOUS
<1>2. /\ ini' = c /\ defaults' = defaults /\ config' = NonZero(c, defaults)
      /\ video' = Video(NonZero(c, defaults), defaults) /\ kept' = video' /\ running
  BY <1>1 DEF ChooseVideo, ResetVideo
<1>3. ini \in Conf /\ Settled(ini) /\ defaults \in Defaults /\ config = NonZero(ini, defaults)
  BY <1>2 DEF VideoInv
<1>4. config \in Conf /\ Settled(config)
  BY <1>3, NonZeroFacts
<1>5. s \in [SizeKeys \cup FpsKeys -> Nat] /\ Rates(s)
  BY ProfileStartAssumption
<1>6. /\ \A key \in SizeKeys \cup FpsKeys : c[key] = s[key]
      /\ c["RecTracks"] = config["RecTracks"] /\ c["RecTrackIndex"] = config["RecTrackIndex"]
  BY <1>1, <1>5 DEF Keys, SizeKeys, FpsKeys
<1>7. c \in [Keys -> Nat \cup {None}]
  <2> SUFFICES ASSUME NEW key \in Keys
               PROVE  c[key] \in Nat \cup {None}
    BY <1>1
  <2>1. config[key] \in Nat \cup {None}
    BY <1>4 DEF Conf
  <2> QED BY <1>1, <1>5, <2>1
<1>8. Rates(c)
  BY <1>5, <1>6 DEF Rates, FpsKeys
<1>9. c \in Conf
  BY <1>4, <1>6, <1>7, <1>8 DEF Conf
<1>10. Settled(c)
  BY <1>4, <1>5, <1>6 DEF Settled, None
<1> QED BY <1>2, <1>3, <1>9, <1>10 DEF VideoStands

(* One step of the profile keeps what the next start needs.                  *)
LEMMA VideoStep ==
  ASSUME VideoInv, ProfileNext
  PROVE  VideoInv'
<1>1. ASSUME VideoStands(ini', config', defaults', video', kept'), profileEnv' = profileEnv
      PROVE  VideoInv'
  <2>1. Outcome(ini', kept')
    BY <1>1, StandsFacts
  <2>2. /\ ini' \in Conf /\ Settled(ini') /\ defaults' \in Defaults
        /\ config' = NonZero(ini', defaults') /\ video' = Video(config', defaults')
    BY <1>1 DEF VideoStands
  <2> QED BY <1>1, <2>1, <2>2 DEF VideoInv
<1>2. ASSUME NEW screen \in ScreenSizes, NEW plugins, Start(screen, plugins)
      PROVE  VideoInv'
  BY <1>1, <1>2, StartStands DEF Start, ProfileStep
<1>3. ASSUME NEW screen \in ScreenSizes, StartCutShort(screen)
      PROVE  VideoInv'
  <2>1. PICK k \in 1..3 : ini' = InitBasicConfig(ini, screen)[k]
    BY <1>3 DEF StartCutShort
  <2>2. ini' \in Conf /\ (Settled(ini) => ini' = ini)
    BY <2>1, StartFacts DEF VideoInv
  <2>3. UNCHANGED <<profileEnv, config, defaults, running, video, kept>> /\ ~running
    BY <1>3 DEF StartCutShort, ProfileStep
  <2>4. kept' # <<>> => Settled(ini') /\ Outcome(ini', kept')
    <3>1. kept # <<>> => Settled(ini) /\ Outcome(ini, kept)
      BY DEF VideoInv
    <3> QED BY <2>2, <2>3, <3>1
  <2> QED BY <2>2, <2>3, <2>4 DEF VideoInv
<1>4. ASSUME NEW s \in VideoSettings, ChooseVideo(s)
      PROVE  VideoInv'
  BY <1>1, <1>4, ChoiceStands DEF ChooseVideo, ProfileStep
<1>5. ASSUME UNCHANGED <<profileEnv, ini, config, defaults, video, kept>>, running' => running
      PROVE  VideoInv'
  BY <1>5 DEF VideoInv
<1>6. ASSUME NEW s, SaveService(s)
      PROVE  VideoInv'
  BY <1>5, <1>6 DEF SaveService, ProfileStep
<1>7. ServiceSaved \/ Quit => VideoInv'
  BY <1>5 DEF ServiceSaved, Quit
<1> QED BY <1>2, <1>3, <1>4, <1>6, <1>7 DEF ProfileNext

(* One step of the profile keeps the service in the files.                   *)
LEMMA ServiceStep ==
  ASSUME ServiceInv, ProfileNext
  PROVE  ServiceInv'
<1> DEFINE Files == [main : Services \cup {NoService}, bak : Services \cup {NoService}]
<1>1. NoService \notin Services
  BY ProfileStartAssumption
<1>2. ASSUME NEW screen, NEW plugins, Start(screen, plugins)
      PROVE  ServiceInv'
  <2>1. UNCHANGED <<saving, wanted>> /\ LoadService(plugins)
    BY <1>2 DEF Start
  <2> QED BY <2>1 DEF ServiceInv, LoadService
<1>3. ASSUME UNCHANGED <<serviceFile, wanted>>, saving' \in {saving, NoService}
      PROVE  ServiceInv'
  BY <1>3 DEF ServiceInv
<1>4. ASSUME NEW screen, StartCutShort(screen)
      PROVE  ServiceInv'
  BY <1>3, <1>4 DEF StartCutShort
<1>5. ASSUME NEW s, ChooseVideo(s)
      PROVE  ServiceInv'
  BY <1>3, <1>5 DEF ChooseVideo
<1>6. ASSUME Quit
      PROVE  ServiceInv'
  BY <1>3, <1>6 DEF Quit
<1>7. ASSUME NEW s \in Services, SaveService(s)
      PROVE  ServiceInv'
  <2>1. /\ saving' = s
        /\ serviceFile' = IF serviceFile.main # NoService
                          THEN [main |-> NoService, bak |-> serviceFile.main] ELSE serviceFile
        /\ wanted' = {s, IF serviceFile'.bak = NoService THEN DefaultService ELSE serviceFile'.bak}
    BY <1>7 DEF SaveService
  <2>2. serviceFile' \in Files /\ serviceFile'.main = NoService
    BY <2>1 DEF ServiceInv
  <2> QED BY <2>1, <2>2 DEF ServiceInv
<1>8. ASSUME ServiceSaved
      PROVE  ServiceInv'
  <2>1. /\ saving \in Services /\ serviceFile' = [serviceFile EXCEPT !.main = saving]
        /\ wanted' = {saving} /\ saving' = NoService
    BY <1>8 DEF ServiceSaved, ServiceInv
  <2>2. serviceFile' \in Files /\ serviceFile'.main = saving
    BY <2>1 DEF ServiceInv
  <2> QED BY <1>1, <2>1, <2>2 DEF ServiceInv
<1> QED BY <1>2, <1>4, <1>5, <1>6, <1>7, <1>8 DEF ProfileNext

ProfileInv == VideoInv /\ ServiceInv

(* The profile holds what the next start needs, at every moment.             *)
LEMMA ProfileInvHolds == Spec => []ProfileInv
<1>1. Init => ProfileInv
  <2> SUFFICES ASSUME Init PROVE ProfileInv
    OBVIOUS
  <2>1. Surroundings("profile", ProfileEnvironments) \subseteq ProfileEnvironments
    BY SomeSurroundings, ProfileStartAssumption
  <2>2. /\ profileEnv \in ProfileEnvironments /\ ini = profileEnv.ini /\ ~running /\ kept = <<>>
        /\ serviceFile = [main |-> NoService, bak |-> NoService] /\ saving = NoService /\ wanted = {}
    BY <2>1 DEF Init, ProfileInit
  <2>3. profileEnv \in ProfileEnvironment /\ ini \in Configs
    BY <2>2, ProfileStartAssumption DEF ProfileEnvironment
  <2>4. ini \in Conf
    BY <2>3, ProfileStartAssumption DEF Conf
  <2> QED BY <2>2, <2>3, <2>4 DEF ProfileInv, VideoInv, ServiceInv
<1>2. ProfileInv /\ [Next]_windowVars => ProfileInv'
  <2> SUFFICES ASSUME ProfileInv, [Next]_windowVars PROVE ProfileInv'
    OBVIOUS
  <2>1. CASE ProfileNext
    BY <2>1, VideoStep, ServiceStep DEF ProfileInv
  <2>2. CASE UNCHANGED profileVars
    BY <2>2 DEF profileVars, ProfileInv, VideoInv, ServiceInv
  <2> QED BY <2>1, <2>2, OtherParts
<1> QED BY <1>1, <1>2, PTL DEF Spec

(* A profile that has been in use starts with the video, the tracks and the  *)
(* service it had, on whatever screens, after any number of starts, exits    *)
(* and crashes; sizes and rates are never zero.                              *)
THEOREM ProfileCorrect == Spec => ProfileKept
<1> DEFINE NotZero ==
             running =>
               /\ Pixels(video.base) > 0 /\ Pixels(video.output) > 0 /\ Pixels(video.fps) > 0
           AsBefore ==
             \A screen \in ScreenSizes, plugins \in {Services, {DefaultService}} :
               Start(screen, plugins) =>
                 /\ kept # <<>> => video' = kept
                 /\ wanted # {} /\ plugins = Services => service' \in wanted
                 /\ \A key \in SizeKeys : ini'[key] # None
                 /\ ini["OutputCX"] = None /\ Pixels(DefaultBase(screen)) <= 9 * Limit
                      => Pixels(video'.output) <= Limit
<1>1. ProfileInv => NotZero
  BY RunningSizes DEF ProfileInv, VideoInv
<1>2. ProfileInv => AsBefore
  <2> SUFFICES ASSUME ProfileInv, NEW screen \in ScreenSizes, NEW plugins \in {Services, {DefaultService}},
                      Start(screen, plugins)
               PROVE  /\ kept # <<>> => video' = kept
                      /\ wanted # {} /\ plugins = Services => service' \in wanted
                      /\ \A key \in SizeKeys : ini'[key] # None
                      /\ ini["OutputCX"] = None /\ Pixels(DefaultBase(screen)) <= 9 * Limit
                           => Pixels(video'.output) <= Limit
    OBVIOUS
  <2>1. VideoInv /\ ServiceInv
    BY DEF ProfileInv
  <2>2. /\ VideoStands(ini', config', defaults', video', kept')
        /\ kept # <<>> => video' = kept
        /\ ini["OutputCX"] = None /\ Pixels(DefaultBase(screen)) <= 9 * Limit
             => Pixels(video'.output) <= Limit
    BY <2>1, StartStands
  <2>3. \A key \in SizeKeys : ini'[key] # None
    BY <2>2 DEF VideoStands, Settled
  <2>4. wanted # {} /\ plugins = Services => service' \in wanted
    <3>1. LoadService(plugins)
      BY DEF Start
    <3> QED BY <2>1, <3>1, ProfileStartAssumption DEF ServiceInv, LoadService
  <2> QED BY <2>2, <2>3, <2>4
<1> HIDE DEF NotZero, AsBefore
<1>3. []ProfileInv => []NotZero /\ [][AsBefore]_profileVars
  BY <1>1, <1>2, PTL
<1> QED BY <1>3, ProfileInvHolds DEF ProfileKept, NotZero, AsBefore
=============================================================================
