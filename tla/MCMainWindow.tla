----------------------------- MODULE MCMainWindow -----------------------------
(* The parts of the main window on small instances.                        *)
EXTENDS MainWindow

mc_Parts == {"views", "tray", "items", "profile"}
mc_Monitors == {1, 2}

(* An item in the middle, one turned, flipped and cropped, and one with    *)
(* bounds.                                                                 *)
Centered == [pos |-> <<3, 2>>, scale |-> <<1, 1>>, rot |-> 0, align |-> "center",
             bounds |-> <<0, 0>>, crop |-> <<0, 0>>]
Odd == [pos |-> <<0, 5>>, scale |-> <<-1, 2>>, rot |-> 3, align |-> "bottomRight",
        bounds |-> <<0, 0>>, crop |-> <<2, 0>>]
Bounded == [Odd EXCEPT !.align = "topLeft", !.bounds = <<6, 10>>]
mc_Placements == {Centered, Odd, Bounded}
mc_SourceSize == <<8, 4>>
mc_Screen == <<16, 12>>
mc_ItemEnvironments ==
  {[locked |-> {"a"}, previewLocked |-> FALSE, start |-> [i \in Items |-> Odd]],
   [locked |-> {}, previewLocked |-> TRUE,
    start |-> [i \in Items |-> IF i = "a" THEN Centered ELSE Bounded]]}

(* Nothing; a canvas of half a size; an older profile; zero sizes.         *)
Empty == [key \in Keys |-> None]
mc_Configs ==
  {Empty,
   [Empty EXCEPT !["BaseCX"] = 1440, !["OutputCX"] = 0, !["OutputCY"] = 0],
   [Empty EXCEPT !["BaseCX"] = 1440, !["BaseCY"] = 900, !["RecTrackIndex"] = 3],
   [Empty EXCEPT !["BaseCX"] = 0, !["BaseCY"] = 0, !["FPSCommon"] = 59]}
mc_VideoSettings ==
  {[key \in SizeKeys \cup FpsKeys |-> IF key \in SizeKeys THEN 720 ELSE type] : type \in {1, 2}}
mc_ScreenSizes == {<<1366, 768>>, <<3840, 2160>>, <<5760, 3240>>}
=============================================================================
