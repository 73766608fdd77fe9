----------------------------- MODULE Slideshow -----------------------------
(***************************************************************************)
(* The image slide show source, plugins/hengxin_ue4capture/obs-slideshow.c.*)
(*                                                                         *)
(* libobs calls the update (deferred, as for every video source), the      *)
(* activation, the deactivation and the tick of a source on its video      *)
(* thread.  The five hotkeys come from the hotkey thread and may fall      *)
(* between the two halves of an update: the new files are in place, the    *)
(* current item is still the old one.  A hotkey itself is one step; its    *)
(* unlocked reads of the list are not taken apart.                         *)
(*                                                                         *)
(* Time is not counted: a tick may find the slide time over, and does so   *)
(* again and again.  What the transition source shows, or is moving to, is *)
(* shown.                                                                  *)
(*                                                                         *)
(* A definition named Op_Fault is Op with a fault in it, for checking that *)
(* the properties notice; no specification uses it.                        *)
(***************************************************************************)
EXTENDS Integers, Sequences

CONSTANTS
  Files,            \* image files
  Lists,            \* the lists of files a user may choose
  Settings,         \* the other settings a user may choose, see Setting
  MaxUpdates,       \* bound on the calls of ss_update
  Steadiness        \* the values steady may have

None == "none"
Behavior == {"stop_restart", "pause_unpause", "always_play"}

(* transition: the name of the transition; slides advance by hotkeys only  *)
(* if manual; hide: show nothing after the last slide.                     *)
Setting == [behavior : Behavior, transition : {"cut", "fade"},
            manual : BOOLEAN, randomize : BOOLEAN, loop : BOOLEAN,
            hide : BOOLEAN]

ASSUME SlideshowAssumption ==
  /\ None \notin Files
  /\ \A l \in Lists : l \in Seq(Files)
  /\ Settings \subseteq Setting
  /\ MaxUpdates \in Nat
  /\ Steadiness \subseteq BOOLEAN

VARIABLES
  steady,              \* the user never changes the visibility behaviour
  set,                 \* the settings in force, manual excepted
  transition,          \* tr_name: the transition source there is, or None
  files,               \* files
  curItem,             \* cur_item
  manual,              \* manual: the setting, overwritten by the hotkeys
  restartOnActivate,   \* restart_on_activate
  useCut,              \* use_cut
  pauseOnDeactivate,   \* pause_on_deactivate
  paused,              \* paused
  stop,                \* stop
  shown,               \* the file the transition shows, or None
  active,              \* libobs: the source is visible
  phase,               \* "idle", or "swapped" between the halves of an update
  crashed,             \* the first of no files was read
  updates              \* how often ss_update was called

settingVars == <<steady, set, transition, files, updates>>
flagVars == <<restartOnActivate, useCut, pauseOnDeactivate>>
hotkeyVars == <<manual, paused, stop>>
vars == <<settingVars, curItem, flagVars, hotkeyVars, shown, active, phase,
          crashed>>

-----------------------------------------------------------------------------
(* ss_create zeroes the source; the first update follows on the first tick. *)
Init ==
  /\ steady \in Steadiness
  /\ set = [behavior |-> "stop_restart", transition |-> "fade",
            manual |-> FALSE, randomize |-> FALSE, loop |-> FALSE,
            hide |-> FALSE]
  /\ transition = None
  /\ files = <<>>
  /\ curItem = 0
  /\ manual = FALSE
  /\ restartOnActivate = FALSE
  /\ useCut = FALSE
  /\ pauseOnDeactivate = FALSE
  /\ paused = FALSE
  /\ stop = FALSE
  /\ shown = None
  /\ active = FALSE
  /\ phase = "idle"
  /\ crashed = FALSE
  /\ updates = 0

Last == Len(files) - 1

(* do_transition to the given item, or to nothing: a pending cut shows the *)
(* item in any case, an item that is not valid is nothing.                 *)
DoTransition(item, toNull) ==
  shown' = IF item <= Last /\ (useCut \/ ~toNull) THEN files[item + 1]
                                                   ELSE None

-----------------------------------------------------------------------------
(* ss_update.  First half: the settings are read and the files and the     *)
(* transition exchanged; a new transition shows nothing yet.               *)
Update_Swap ==
  /\ phase = "idle" /\ ~crashed
  /\ updates < MaxUpdates
  /\ \E s \in Settings, l \in Lists :
       /\ steady /\ updates > 0 => s.behavior = set.behavior
       /\ set' = s
       /\ manual' = s.manual
       /\ files' = l
       /\ transition' = s.transition
       /\ shown' = IF s.transition = transition THEN shown ELSE None
  /\ updates' = updates + 1
  /\ phase' = "swapped"
  /\ UNCHANGED <<steady, curItem, flagVars, paused, stop, active, crashed>>

(* Second half: start again from the first item, or from any.              *)
Update_Restart_NoShow ==
  /\ phase = "swapped" /\ ~crashed
  /\ phase' = "idle"
  /\ curItem' = 0
  /\ UNCHANGED <<settingVars, flagVars, hotkeyVars, shown, active, crashed>>

Update_Restart ==
  /\ phase = "swapped" /\ ~crashed
  /\ phase' = "idle"
  /\ IF files = <<>> THEN curItem' = 0 /\ UNCHANGED shown
     ELSE /\ IF set.randomize THEN curItem' \in 0..Last ELSE curItem' = 0
          /\ DoTransition(curItem', FALSE)
  /\ UNCHANGED <<settingVars, flagVars, hotkeyVars, active, crashed>>

-----------------------------------------------------------------------------
(* The hotkeys, which work while the source is visible.                    *)
Hotkey == active /\ ~crashed

PlayPause ==
  /\ Hotkey
  /\ paused' = ~paused
  /\ manual' = paused'
  /\ UNCHANGED <<settingVars, curItem, flagVars, stop, shown, active, phase,
                 crashed>>

(* ss_restart does not ask whether there is a first file.                  *)
Restart ==
  /\ Hotkey
  /\ curItem' = 0
  /\ IF files = <<>> THEN crashed' = TRUE /\ UNCHANGED shown
                     ELSE shown' = files[1] /\ UNCHANGED crashed
  /\ stop' = FALSE
  /\ paused' = FALSE
  /\ UNCHANGED <<settingVars, flagVars, manual, active, phase>>

Stop ==
  /\ Hotkey
  /\ curItem' = 0
  /\ DoTransition(0, TRUE)
  /\ stop' = TRUE
  /\ paused' = FALSE
  /\ UNCHANGED <<settingVars, flagVars, manual, active, phase, crashed>>

MoveTo(item) ==
  /\ Hotkey /\ manual /\ files # <<>>
  /\ curItem' = item
  /\ DoTransition(item, FALSE)
  /\ UNCHANGED <<settingVars, flagVars, hotkeyVars, active, phase, crashed>>

NextSlide == MoveTo(IF curItem + 1 > Last THEN 0 ELSE curItem + 1)

PreviousSlide == MoveTo(IF curItem = 0 THEN Last ELSE curItem - 1)

-----------------------------------------------------------------------------
(* Visibility.                                                             *)
Activate_KeepsPause ==
  /\ phase = "idle" /\ ~crashed /\ ~active
  /\ active' = TRUE
  /\ UNCHANGED <<settingVars, curItem, flagVars, hotkeyVars, shown, phase,
                 crashed>>

Activate ==
  /\ phase = "idle" /\ ~crashed /\ ~active
  /\ active' = TRUE
  /\ CASE set.behavior = "stop_restart" ->
            /\ restartOnActivate' = TRUE
            /\ useCut' = TRUE
            /\ UNCHANGED pauseOnDeactivate
       [] set.behavior = "pause_unpause" ->
            /\ pauseOnDeactivate' = FALSE
            /\ UNCHANGED <<restartOnActivate, useCut>>
       [] OTHER -> UNCHANGED flagVars
  /\ UNCHANGED <<settingVars, curItem, hotkeyVars, shown, phase, crashed>>

Deactivate ==
  /\ phase = "idle" /\ ~crashed /\ active
  /\ active' = FALSE
  /\ pauseOnDeactivate' =
       (pauseOnDeactivate \/ set.behavior = "pause_unpause")
  /\ UNCHANGED <<settingVars, curItem, restartOnActivate, useCut, hotkeyVars,
                 shown, phase, crashed>>

-----------------------------------------------------------------------------
(* ss_video_tick, once there is a transition.                              *)
Ticking == phase = "idle" /\ ~crashed /\ transition # None

MustRestart == restartOnActivate /\ ~set.randomize /\ useCut

Playing == ~(pauseOnDeactivate \/ manual \/ stop \/ paused)

(* Starting again after the source became visible.                         *)
Tick_Restart_KeepsCut ==
  /\ Ticking /\ MustRestart
  /\ curItem' = 0
  /\ DoTransition(0, FALSE)
  /\ restartOnActivate' = FALSE
  /\ stop' = FALSE
  /\ UNCHANGED <<settingVars, useCut, pauseOnDeactivate, manual, paused,
                 active, phase, crashed>>

Tick_Restart ==
  /\ Ticking /\ MustRestart
  /\ curItem' = 0
  /\ DoTransition(0, FALSE)
  /\ restartOnActivate' = FALSE
  /\ useCut' = FALSE
  /\ stop' = FALSE
  /\ UNCHANGED <<settingVars, pauseOnDeactivate, manual, paused, active,
                 phase, crashed>>

(* The slide time is over: the show ends at the last item, goes on to the  *)
(* next or to another one.  A list without files has no last item: its     *)
(* number, minus one, wraps around.                                        *)
Due == Ticking /\ ~MustRestart /\ Playing

AtEnd == ~set.loop /\ files # <<>> /\ curItem = Last

Tick_End ==
  /\ Due /\ AtEnd
  /\ DoTransition(curItem, set.hide)
  /\ UNCHANGED <<settingVars, curItem, flagVars, hotkeyVars, active, phase,
                 crashed>>

NextItem_Stuck(item) == {item}

NextItem(item) ==
  IF set.randomize
  THEN IF Len(files) > 1 THEN (0..Last) \ {item} ELSE {item}
  ELSE {IF item + 1 > Last THEN 0 ELSE item + 1}

Tick_Advance ==
  /\ Due /\ ~AtEnd
  /\ curItem' \in NextItem(curItem)
  /\ IF files = <<>> THEN UNCHANGED shown ELSE DoTransition(curItem', FALSE)
  /\ UNCHANGED <<settingVars, flagVars, hotkeyVars, active, phase, crashed>>

Tick == Tick_Restart \/ Tick_End \/ Tick_Advance

Next == \/ Update_Swap \/ Update_Restart
        \/ PlayPause \/ Restart \/ Stop \/ NextSlide \/ PreviousSlide
        \/ Activate \/ Deactivate
        \/ Tick

(* libobs ticks every source for every frame, so the slide time passes.    *)
Spec == Init /\ [][Next]_vars /\ WF_vars(Update_Restart \/ Tick)

-----------------------------------------------------------------------------
(* Every variable keeps its type.                                          *)
TypeOK ==
  /\ steady \in Steadiness
  /\ set \in Setting
  /\ transition \in {None, "cut", "fade"}
  /\ files \in Lists \cup {<<>>}
  /\ curItem \in Nat
  /\ {manual, restartOnActivate, useCut, pauseOnDeactivate, paused, stop,
      active, crashed} \subseteq BOOLEAN
  /\ shown \in Files \cup {None}
  /\ phase \in {"idle", "swapped"}
  /\ updates \in 0..MaxUpdates

(* Outside an update, whatever the hotkeys, the ticks and the changes of   *)
(* the list did, the slide shown is the current item of the current list.  *)
(* A list without files keeps the slide there was.                         *)
ShownIsCurrent ==
  phase = "idle" /\ files # <<>> =>
    /\ curItem <= Last
    /\ shown \in {None, files[curItem + 1]}

(* A slide show whose visibility behaviour stays as it is stands still on  *)
(* account of its visibility only while it is not visible.                 *)
FrozenOnlyHidden == steady /\ pauseOnDeactivate => ~active

(* The setting "Always play even when not visible": no visibility, past or *)
(* present, holds the slide show.                                          *)
AlwaysPlays ==
  phase = "idle" /\ set.behavior = "always_play" => ~pauseOnDeactivate

(* A slide show that in the end is left alone, on one list of files.       *)
LeftAlone(l) ==
  /\ <>[](phase = "idle" /\ ~crashed /\ Playing /\ files = l)
  /\ <>[][Tick]_vars

(* The setting "Hide when slideshow is done": a show in order that does    *)
(* not loop comes to its end and shows nothing from then on.  (In random   *)
(* order it does not: the cut an activation leaves pending is never taken, *)
(* and at the end shows the last item again.)                              *)
HidesWhenDone ==
  \A l \in Lists \ {<<>>} :
    LeftAlone(l) /\ <>[](set.hide /\ ~set.loop /\ ~set.randomize)
      => <>[](shown = None)

(* A looping show in order comes back to every file again and again.       *)
EveryFileShown ==
  \A l \in Lists : \A f \in {l[i] : i \in DOMAIN l} :
    LeftAlone(l) /\ <>[](set.loop /\ ~set.randomize) => []<>(shown = f)
=============================================================================
