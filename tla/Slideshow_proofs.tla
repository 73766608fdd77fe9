--------------------------- MODULE Slideshow_proofs ---------------------------
(* Proofs about Slideshow, for all files, lists of files and settings.       *)
EXTENDS Slideshow, SequenceTheorems, TLAPS

USE SlideshowAssumption

-----------------------------------------------------------------------------
(* A slide show holds because of its visibility only if it is to pause when  *)
(* it is hidden, which, if that never changes, some update has told it.      *)
FrozenByChoice ==
  /\ updates = 0 => set.behavior = "stop_restart"
  /\ steady /\ pauseOnDeactivate =>
       ~active /\ updates > 0 /\ set.behavior = "pause_unpause"

ShowInv == TypeOK /\ ShownIsCurrent /\ FrozenByChoice

(* The flags, which are Boolean, and the rest of the types.                  *)
FlagTypes ==
  /\ manual \in BOOLEAN /\ restartOnActivate \in BOOLEAN /\ useCut \in BOOLEAN
  /\ pauseOnDeactivate \in BOOLEAN /\ paused \in BOOLEAN /\ stop \in BOOLEAN
  /\ active \in BOOLEAN /\ crashed \in BOOLEAN

DataTypes ==
  /\ steady \in Steadiness
  /\ set \in Setting
  /\ transition \in {None, "cut", "fade"}
  /\ files \in Lists \cup {<<>>}
  /\ curItem \in Nat
  /\ shown \in Files \cup {None}
  /\ phase \in {"idle", "swapped"}
  /\ updates \in 0..MaxUpdates

(* Both together are the types of the module.                                *)
LEMMA TypesSplit == TypeOK <=> DataTypes /\ FlagTypes
BY DEF TypeOK, DataTypes, FlagTypes

(* The list in use is a sequence of files.                                   *)
LEMMA ListFacts ==
  ASSUME DataTypes
  PROVE  /\ files \in Seq(Files) /\ Len(files) \in Nat
         /\ \A i \in 1..Len(files) : files[i] \in Files
         /\ Last = Len(files) - 1 /\ Last \in Int
         /\ files = <<>> <=> Len(files) = 0
<1>1. files \in Seq(Files)
  BY EmptySeq DEF DataTypes
<1> QED BY <1>1 DEF Last

(* A transition shows the item, if the list has it, or nothing.              *)
LEMMA TransitionShows ==
  ASSUME DataTypes, NEW item \in Nat, NEW toNull \in BOOLEAN, DoTransition(item, toNull)
  PROVE  /\ shown' \in Files \cup {None}
         /\ item <= Last => shown' \in {None, files[item + 1]}
<1>1. item <= Last => item + 1 \in 1..Len(files)
  BY ListFacts
<1> QED BY <1>1, ListFacts DEF DoTransition

(* The next item is one of the list, if the present one is.                  *)
LEMMA NextItemListed ==
  ASSUME DataTypes, NEW item \in Nat, NEW next \in NextItem(item)
  PROVE  /\ next \in Nat
         /\ files # <<>> /\ item <= Last => next <= Last
BY ListFacts DEF NextItem

(* No step makes a flag anything but Boolean.                                *)
LEMMA FlagStep ==
  ASSUME TypeOK, [Next]_vars
  PROVE  FlagTypes'
<1>0. FlagTypes /\ set \in Setting
  BY TypesSplit DEF DataTypes
<1> USE <1>0 DEF FlagTypes, settingVars, flagVars, hotkeyVars
<1>1. CASE Update_Swap
  <2>1. PICK s \in Settings : manual' = s.manual
    BY <1>1 DEF Update_Swap
  <2>2. s.manual \in BOOLEAN
    BY SlideshowAssumption DEF Setting
  <2>3. manual' \in BOOLEAN
    BY <2>1, <2>2
  <2>4. UNCHANGED <<restartOnActivate, useCut, pauseOnDeactivate, paused, stop, active, crashed>>
    BY <1>1 DEF Update_Swap
  <2> QED BY <2>3, <2>4, Zenon
<1>2. CASE Update_Restart
  BY <1>2, Zenon DEF Update_Restart
<1>3. CASE PlayPause
  BY <1>3, Zenon DEF PlayPause
<1>4. CASE Restart
  BY <1>4, Zenon DEF Restart
<1>5. CASE Stop
  BY <1>5, Zenon DEF Stop
<1>6. CASE NextSlide \/ PreviousSlide
  BY <1>6, Zenon DEF NextSlide, PreviousSlide, MoveTo
<1>7. CASE Activate
  <2>1. /\ restartOnActivate' = TRUE \/ restartOnActivate' = restartOnActivate
        /\ useCut' = TRUE \/ useCut' = useCut
        /\ pauseOnDeactivate' = FALSE \/ pauseOnDeactivate' = pauseOnDeactivate
    BY <1>7 DEF Activate
  <2>2. active' = TRUE /\ UNCHANGED <<manual, paused, stop, crashed>>
    BY <1>7 DEF Activate
  <2> QED BY <2>1, <2>2, Zenon
<1>8. CASE Deactivate
  BY <1>8, Zenon DEF Deactivate
<1>9. CASE Tick
  BY <1>9, Zenon DEF Tick, Tick_Restart, Tick_End, Tick_Advance
<1>10. CASE UNCHANGED vars
  BY <1>10, Zenon DEF vars
<1> QED BY <1>1, <1>2, <1>3, <1>4, <1>5, <1>6, <1>7, <1>8, <1>9, <1>10 DEF Next

(* No step, in either half of an update, shows anything but the current item *)
(* of the list there is.                                                     *)
LEMMA ShowStep ==
  ASSUME TypeOK, ShownIsCurrent, [Next]_vars
  PROVE  DataTypes' /\ ShownIsCurrent'
<1>0. DataTypes /\ FlagTypes
  BY TypesSplit
<1> USE <1>0 DEF settingVars, flagVars, hotkeyVars
<1>1. ASSUME UNCHANGED <<steady, set, transition, files, updates>>, curItem' \in Nat,
             phase' \in {"idle", "swapped"}, shown' \in Files \cup {None},
             phase' = "idle" /\ files # <<>> =>
               curItem' <= Last /\ shown' \in {None, files[curItem' + 1]}
      PROVE  DataTypes' /\ ShownIsCurrent'
  BY <1>1 DEF DataTypes, ShownIsCurrent, Last
<1>2. ASSUME UNCHANGED <<steady, set, transition, files, updates, curItem, shown, phase>>
      PROVE  DataTypes' /\ ShownIsCurrent'
  BY <1>2 DEF DataTypes, ShownIsCurrent, Last
<1>3. ASSUME UNCHANGED <<steady, set, transition, files, updates>>, curItem' \in Nat,
             phase' \in {"idle", "swapped"}, NEW toNull \in BOOLEAN,
             DoTransition(curItem', toNull),
             phase' = "idle" /\ files # <<>> => curItem' <= Last
      PROVE  DataTypes' /\ ShownIsCurrent'
  BY <1>1, <1>3, TransitionShows
<1>4. FALSE \in BOOLEAN /\ TRUE \in BOOLEAN /\ 0 \in Nat
      /\ (files # <<>> => 0 <= Last)
  BY ListFacts
<1>5. CASE Update_Swap
  <2>1. PICK s \in Settings, l \in Lists :
          /\ set' = s /\ files' = l /\ transition' = s.transition
          /\ shown' = IF s.transition = transition THEN shown ELSE None
    BY <1>5 DEF Update_Swap
  <2>2. s \in Setting /\ s.transition \in {"cut", "fade"}
    BY SlideshowAssumption DEF Setting
  <2>3. UNCHANGED <<steady, curItem>> /\ phase' = "swapped" /\ updates' = updates + 1
        /\ updates < MaxUpdates
    BY <1>5 DEF Update_Swap
  <2> QED BY <2>1, <2>2, <2>3 DEF DataTypes, ShownIsCurrent
<1>6. CASE Update_Restart
  <2>1. CASE files = <<>>
    BY <1>1, <1>6, <2>1 DEF Update_Restart, DataTypes
  <2>2. CASE files # <<>>
    <3>1. curItem' \in Nat /\ curItem' <= Last
      BY <1>6, <2>2, ListFacts DEF Update_Restart
    <3>2. DoTransition(curItem', FALSE) /\ phase' = "idle"
          /\ UNCHANGED <<steady, set, transition, files, updates>>
      BY <1>6, <2>2 DEF Update_Restart
    <3> QED BY <1>3, <1>4, <3>1, <3>2
  <2> QED BY <2>1, <2>2
<1>7. CASE PlayPause
  BY <1>2, <1>7 DEF PlayPause
<1>8. CASE Restart
  <2>1. CASE files = <<>>
    BY <1>1, <1>8, <2>1 DEF Restart, DataTypes
  <2>2. CASE files # <<>>
    <3>1. files[1] \in Files
      BY <2>2, ListFacts
    <3> QED BY <1>1, <1>4, <1>8, <2>2, <3>1 DEF Restart, DataTypes
  <2> QED BY <2>1, <2>2
<1>9. CASE Stop
  <2>1. DoTransition(0, TRUE) /\ curItem' = 0 /\ phase' = phase
        /\ UNCHANGED <<steady, set, transition, files, updates>>
    BY <1>9 DEF Stop
  <2> QED BY <1>3, <1>4, <2>1 DEF DataTypes
<1>10. ASSUME NEW item \in Nat, item <= Last, MoveTo(item)
       PROVE  DataTypes' /\ ShownIsCurrent'
  <2>1. DoTransition(item, FALSE) /\ curItem' = item /\ phase' = phase
        /\ UNCHANGED <<steady, set, transition, files, updates>>
    BY <1>10 DEF MoveTo
  <2> QED BY <1>3, <1>4, <1>10, <2>1 DEF DataTypes
<1>11. CASE NextSlide
  <2> DEFINE item == IF curItem + 1 > Last THEN 0 ELSE curItem + 1
  <2>1. files # <<>> /\ MoveTo(item)
    BY <1>11 DEF NextSlide, MoveTo
  <2>2. item \in Nat /\ item <= Last
    BY <2>1, ListFacts DEF DataTypes
  <2> QED BY <1>10, <2>1, <2>2
<1>12. CASE PreviousSlide
  <2> DEFINE item == IF curItem = 0 THEN Last ELSE curItem - 1
  <2>1. files # <<>> /\ MoveTo(item)
    BY <1>12 DEF PreviousSlide, MoveTo
  <2>2. item \in Nat
    BY <2>1, ListFacts DEF DataTypes
  <2>3. CASE item <= Last
    BY <1>10, <2>1, <2>2, <2>3
  <2>4. CASE ~(item <= Last)
    <3>1. DoTransition(item, FALSE) /\ curItem' = item /\ phase' = phase
          /\ UNCHANGED <<steady, set, transition, files, updates>>
      BY <2>1 DEF MoveTo
    <3>2. phase # "idle"
      BY <2>1, <2>4, ListFacts DEF ShownIsCurrent, DataTypes
    <3> QED BY <1>3, <1>4, <2>2, <3>1, <3>2 DEF DataTypes
  <2> QED BY <2>3, <2>4
<1>13. CASE Activate
  BY <1>2, <1>13 DEF Activate
<1>14. CASE Deactivate
  BY <1>2, <1>14 DEF Deactivate
<1>15. CASE Tick_Restart
  <2>1. DoTransition(0, FALSE) /\ curItem' = 0 /\ phase' = phase
        /\ UNCHANGED <<steady, set, transition, files, updates>>
    BY <1>15 DEF Tick_Restart
  <2> QED BY <1>3, <1>4, <2>1 DEF DataTypes
<1>16. CASE Tick_End
  <2>1. DoTransition(curItem, set.hide) /\ curItem' = curItem /\ phase' = phase
        /\ UNCHANGED <<steady, set, transition, files, updates>> /\ phase = "idle"
    BY <1>16 DEF Tick_End, Due, Ticking
  <2>2. set.hide \in BOOLEAN /\ (files # <<>> => curItem <= Last)
    BY <2>1 DEF ShownIsCurrent, DataTypes, Setting
  <2> QED BY <1>3, <2>1, <2>2 DEF DataTypes
<1>17. CASE Tick_Advance
  <2>1. curItem' \in NextItem(curItem) /\ phase' = phase /\ phase = "idle"
        /\ UNCHANGED <<steady, set, transition, files, updates>>
    BY <1>17 DEF Tick_Advance, Due, Ticking
  <2>2. curItem' \in Nat /\ (files # <<>> => curItem' <= Last)
    BY <2>1, NextItemListed DEF ShownIsCurrent, DataTypes
  <2>3. CASE files = <<>>
    BY <1>1, <1>17, <2>1, <2>2, <2>3 DEF Tick_Advance, DataTypes
  <2>4. CASE files # <<>>
    BY <1>3, <1>4, <1>17, <2>1, <2>2, <2>4 DEF Tick_Advance, DataTypes
  <2> QED BY <2>3, <2>4
<1>18. CASE UNCHANGED vars
  BY <1>2, <1>18 DEF vars
<1> QED BY <1>5, <1>6, <1>7, <1>8, <1>9, <1>11, <1>12, <1>13, <1>14, <1>15, <1>16,
           <1>17, <1>18 DEF Next, Tick

(* No step makes a show of steady behaviour hold while it is visible.        *)
LEMMA FrozenStep ==
  ASSUME TypeOK, FrozenByChoice, [Next]_vars
  PROVE  FrozenByChoice'
<1>0. updates \in Nat
  BY SlideshowAssumption DEF TypeOK
<1> USE <1>0 DEF FrozenByChoice, settingVars, flagVars, hotkeyVars
<1>1. ASSUME UNCHANGED <<steady, set, updates, pauseOnDeactivate, active>>
      PROVE  FrozenByChoice'
  BY <1>1
<1>2. CASE Update_Swap
  BY <1>2 DEF Update_Swap
<1>3. CASE Update_Restart \/ PlayPause \/ Restart \/ Stop \/ NextSlide \/ PreviousSlide \/ Tick
  BY <1>1, <1>3 DEF Update_Restart, PlayPause, Restart, Stop, NextSlide, PreviousSlide,
     MoveTo, Tick, Tick_Restart, Tick_End, Tick_Advance
<1>4. CASE Activate
  BY <1>4 DEF Activate
<1>5. CASE Deactivate
  <2>1. pauseOnDeactivate' => pauseOnDeactivate \/ set.behavior = "pause_unpause"
    BY <1>5, Zenon DEF Deactivate
  <2>2. ~active' /\ UNCHANGED <<steady, set, updates>>
    BY <1>5 DEF Deactivate
  <2>3. updates = 0 => set.behavior # "pause_unpause"
    OBVIOUS
  <2> QED BY <2>1, <2>2, <2>3
<1>6. CASE UNCHANGED vars
  BY <1>1, <1>6 DEF vars
<1> QED BY <1>2, <1>3, <1>4, <1>5, <1>6 DEF Next

(* It all holds from the first state on.                                     *)
LEMMA ShowInvariant == Spec => []ShowInv
<1>1. Init => ShowInv
  <2> SUFFICES ASSUME Init PROVE ShowInv
    OBVIOUS
  <2>1. DataTypes
    BY DEF Init, DataTypes, Setting, Behavior
  <2>2. FlagTypes
    BY Zenon DEF Init, FlagTypes
  <2> QED BY <2>1, <2>2, TypesSplit DEF Init, ShowInv, ShownIsCurrent, FrozenByChoice
<1>2. ShowInv /\ [Next]_vars => ShowInv'
  <2> SUFFICES ASSUME ShowInv, [Next]_vars PROVE ShowInv'
    OBVIOUS
  <2>1. DataTypes' /\ FlagTypes' /\ ShownIsCurrent' /\ FrozenByChoice'
    BY FlagStep, ShowStep, FrozenStep DEF ShowInv
  <2>2. TypeOK'
    BY <2>1 DEF TypeOK, DataTypes, FlagTypes
  <2> QED BY <2>1, <2>2 DEF ShowInv
<1> QED BY <1>1, <1>2, PTL DEF Spec

(* Every variable keeps its type.                                            *)
THEOREM TypeCorrect == Spec => []TypeOK
<1>1. ShowInv => TypeOK
  BY DEF ShowInv
<1> QED BY <1>1, ShowInvariant, PTL

(* Outside an update the slide shown is the current item of the list, which  *)
(* has one.                                                                  *)
THEOREM ShownCorrect == Spec => []ShownIsCurrent
<1>1. ShowInv => ShownIsCurrent
  BY DEF ShowInv
<1> QED BY <1>1, ShowInvariant, PTL

(* A show of steady behaviour stands still on account of its visibility only *)
(* while it is hidden.                                                       *)
THEOREM FrozenCorrect == Spec => []FrozenOnlyHidden
<1>1. ShowInv => FrozenOnlyHidden
  BY DEF ShowInv, FrozenByChoice, FrozenOnlyHidden
<1> QED BY <1>1, ShowInvariant, PTL
=============================================================================
