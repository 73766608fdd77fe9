---------------------------- MODULE ItemTransform ----------------------------
(***************************************************************************)
(* The entries of the Transform menu and the arrow keys: how the main      *)
(* window moves, turns, flips and fits the selected items of the current   *)
(* scene (UI/window-basic-main.cpp).                                       *)
(*                                                                         *)
(* Lengths are whole numbers of half pixels, and those of sizes are even;  *)
(* libobs turns an item by any angle, here by right angles.  Of the bounds *)
(* of an item only their size matters to where it is: it is <<0, 0>> for   *)
(* an item without bounds.                                                 *)
(***************************************************************************)
EXTENDS Integers, FiniteSets, FiniteSetsExt

CONSTANTS
  Items,               \* the items of the scene
  Placements,          \* the transforms the user gives items in other ways
  SourceSize,          \* width and height of the sources of the items
  Screen,              \* width and height of the canvas
  MaxTransforms,       \* bound on the clicks
  ItemEnvironments     \* the surroundings, see ItemEnvironment

Vector == Int \X Int

(* The items that are locked, whether the preview is, and the items at     *)
(* first.                                                                  *)
ItemEnvironment ==
  [locked : SUBSET Items, previewLocked : BOOLEAN, start : [Items -> Placements]]

(* rot in right angles; crop of the right and bottom edge.                 *)
Transform == [pos : Vector, scale : Vector, rot : Int,
              align : {"topLeft", "center", "bottomRight"},
              bounds : Vector, crop : Vector]

ASSUME ItemTransformAssumption ==
  /\ Placements \subseteq Transform
  /\ SourceSize \in Vector /\ Screen \in Vector
  /\ \A i \in {1, 2} :
       /\ SourceSize[i] > 0 /\ Screen[i] > 0
       /\ SourceSize[i] % 2 = 0 /\ Screen[i] % 2 = 0
       /\ \A t \in Placements : t.crop[i] % 2 = 0 /\ t.bounds[i] % 2 = 0
  /\ MaxTransforms \in Nat
  /\ ItemEnvironments \subseteq ItemEnvironment /\ ItemEnvironments # {}

VARIABLES
  itemEnv,      \* the environment of this behaviour, which stays as it is
  transform,    \* of each item
  selected,     \* the selected items
  copied,       \* copiedTransformInfo and copiedCropInfo
  canPaste,     \* actionPasteTransform is enabled
  origin,       \* history: the transform of each item at the last step that
                \* neither turned nor flipped it
  transforms    \* the number of clicks so far

itemVars == <<itemEnv, transform, selected, copied, canPaste, origin, transforms>>

Plus(u, v) == <<u[1] + v[1], u[2] + v[2]>>
Minus(u, v) == <<u[1] - v[1], u[2] - v[2]>>
Times(u, v) == <<u[1] * v[1], u[2] * v[2]>>

(* External: libobs keeps an item's box in place at its alignment and      *)
(* turns it around its position.                                           *)
Turned(v, rot) == CASE rot % 4 = 0 -> v
                    [] rot % 4 = 1 -> <<-v[2], v[1]>>
                    [] rot % 4 = 2 -> <<-v[1], -v[2]>>
                    [] rot % 4 = 3 -> <<v[2], -v[1]>>

BoxSize(t) == IF t.bounds # <<0, 0>> THEN t.bounds
              ELSE Times(Minus(SourceSize, t.crop), t.scale)

Anchor(t) == CASE t.align = "topLeft" -> <<0, 0>>
               [] t.align = "center" -> <<BoxSize(t)[1] \div 2, BoxSize(t)[2] \div 2>>
               [] t.align = "bottomRight" -> BoxSize(t)

-----------------------------------------------------------------------------
(* GetItemBox: the corners of the box, and its extremes on the screen.     *)
Corners(t) ==
  LET size == BoxSize(t)
      anchor == Anchor(t)
  IN  {Plus(t.pos, Turned(Minus(Times(c, size), anchor), t.rot)) : c \in {0, 1} \X {0, 1}}

GetItemTL(t) == LET corners == Corners(t)
                IN  <<Min({c[1] : c \in corners}), Min({c[2] : c \in corners})>>
GetItemBR(t) == LET corners == Corners(t)
                IN  <<Max({c[1] : c \in corners}), Max({c[2] : c \in corners})>>

SetItemTL(t, tl) == [t EXCEPT !.pos = Plus(@, Minus(tl, GetItemTL(t)))]

RotateSelectedSources_Turn(t, by) ==
  LET rot == t.rot + by
  IN  [t EXCEPT !.rot = IF rot >= 4 THEN rot - 4 ELSE IF rot <= -4 THEN rot + 4 ELSE rot]

RotateSelectedSources(t, by) ==
  SetItemTL(RotateSelectedSources_Turn(t, by), GetItemTL(t))

MultiplySelectedItemScale(t, mul) ==
  SetItemTL([t EXCEPT !.scale = Times(@, mul)], GetItemTL(t))

(* Fit and stretch: the bounds have the size of the canvas; the crop stays.*)
CenterAlignSelectedItems(t) ==
  [pos |-> <<0, 0>>, scale |-> <<1, 1>>, rot |-> 0, align |-> "topLeft",
   bounds |-> Screen, crop |-> t.crop]

(* The middle of the box, doubled.                                         *)
Middle(t) == Plus(GetItemTL(t), GetItemBR(t))

CenterToScreen(t) ==
  LET offset == Minus(Screen, Middle(t))
  IN  SetItemTL(t, Plus(GetItemTL(t), <<offset[1] \div 2, offset[2] \div 2>>))

ResetTransform(t) ==
  [pos |-> <<0, 0>>, scale |-> <<1, 1>>, rot |-> 0, align |-> "topLeft",
   bounds |-> <<0, 0>>, crop |-> <<0, 0>>]

(* What copiedTransformInfo is at the start.                               *)
Nothing == [pos |-> <<0, 0>>, scale |-> <<0, 0>>, rot |-> 0, align |-> "center",
            bounds |-> <<0, 0>>, crop |-> <<0, 0>>]

-----------------------------------------------------------------------------
ItemStep == transforms < MaxTransforms /\ transforms' = transforms + 1 /\ UNCHANGED itemEnv

Each(items, Op(_)) ==
  transform' = [i \in Items |-> IF i \in items THEN Op(transform[i]) ELSE transform[i]]

(* Steps after which the history starts anew.                              *)
Anew(items) == origin' = [i \in Items |-> IF i \in items THEN transform'[i] ELSE origin[i]]

Select(items) ==
  /\ ItemStep
  /\ selected' = items
  /\ UNCHANGED <<transform, copied, canPaste, origin>>

(* With the mouse, or in the window of the item's transform.               *)
EditTransform(i, t) ==
  /\ ItemStep
  /\ Each({i}, LAMBDA old : t) /\ Anew({i})
  /\ UNCHANGED <<selected, copied, canPaste>>

(* Of several selected items the last one's transform remains; of none,    *)
(* what was there.                                                         *)
on_actionCopyTransform_triggered ==
  /\ ItemStep
  /\ \/ selected = {} /\ UNCHANGED copied
     \/ \E i \in selected : copied' = transform[i]
  /\ canPaste' = TRUE
  /\ UNCHANGED <<transform, selected, origin>>

on_actionPasteTransform_triggered ==
  /\ ItemStep
  /\ canPaste
  /\ Each(selected, LAMBDA old : copied) /\ Anew(selected)
  /\ UNCHANGED <<selected, copied, canPaste>>

on_actionResetTransform_triggered ==
  /\ ItemStep
  /\ Each(selected, ResetTransform) /\ Anew(selected)
  /\ UNCHANGED <<selected, copied, canPaste>>

Rotate(by) ==
  /\ ItemStep
  /\ Each(selected, LAMBDA t : RotateSelectedSources(t, by))
  /\ UNCHANGED <<selected, copied, canPaste, origin>>

Flip(mul) ==
  /\ ItemStep
  /\ Each(selected, LAMBDA t : MultiplySelectedItemScale(t, mul))
  /\ UNCHANGED <<selected, copied, canPaste, origin>>

FitToScreen ==
  /\ ItemStep
  /\ Each(selected, CenterAlignSelectedItems) /\ Anew(selected)
  /\ UNCHANGED <<selected, copied, canPaste>>

on_actionCenterToScreen_triggered ==
  /\ ItemStep
  /\ Each(selected, CenterToScreen) /\ Anew(selected)
  /\ UNCHANGED <<selected, copied, canPaste>>

(* By an arrow key, which alone regards the locks.                         *)
Nudge(dir) ==
  /\ ItemStep
  /\ ~itemEnv.previewLocked
  /\ Each(selected \ itemEnv.locked, LAMBDA t : [t EXCEPT !.pos = Plus(@, dir)])
  /\ Anew(selected \ itemEnv.locked)
  /\ UNCHANGED <<selected, copied, canPaste>>

-----------------------------------------------------------------------------
ItemInit(envs) ==
  /\ itemEnv \in envs
  /\ transform = itemEnv.start
  /\ selected = {}
  /\ copied = Nothing
  /\ canPaste = FALSE
  /\ origin = transform
  /\ transforms = 0

ItemNext ==
  \/ \E items \in SUBSET Items : Select(items)
  \/ \E i \in Items, t \in Placements : EditTransform(i, t)
  \/ on_actionCopyTransform_triggered \/ on_actionPasteTransform_triggered
  \/ on_actionResetTransform_triggered
  \/ \E by \in {1, -1, 2} : Rotate(by)
  \/ \E mul \in {<<-1, 1>>, <<1, -1>>} : Flip(mul)
  \/ FitToScreen \/ on_actionCenterToScreen_triggered
  \/ \E dir \in {<<0, -2>>, <<0, 2>>, <<-2, 0>>, <<2, 0>>} : Nudge(dir)

-----------------------------------------------------------------------------
(* Turns and flips, in any number and order, leave the top left corner of  *)
(* an item's box where it was, however the item is aligned, sized and      *)
(* bounded; so those that add up to nothing put it back exactly.  The      *)
(* angle stays less than a full turn, or no more than it was.  And         *)
(* centering does put the middle of the box on that of the canvas, without *)
(* changing the item otherwise.                                            *)
PlaceKept ==
  /\ [](\A i \in Items :
          /\ \E n \in {3, origin[i].rot, -origin[i].rot} : transform[i].rot \in -n..n
          /\ GetItemTL(transform[i]) = GetItemTL(origin[i])
          /\ transform[i].rot % 4 = origin[i].rot % 4 /\ transform[i].scale = origin[i].scale
               => transform[i].pos = origin[i].pos)
  /\ [][on_actionCenterToScreen_triggered =>
          \A i \in selected :
            /\ Middle(transform'[i]) = Screen
            /\ [transform'[i] EXCEPT !.pos = transform[i].pos] = transform[i]]_itemVars
=============================================================================
