---------------------------- MODULE MCSlideshow ----------------------------
(* Small instances of Slideshow: lists of no, one, two and three files.  A   *)
(* show that loops does not hide; the kind of transition goes with manual.   *)
EXTENDS Slideshow

AllFiles == {"a", "b", "c"}
SomeLists == {<<>>, <<"a">>, <<"b", "a">>, <<"a", "b", "c">>}
SomeSettings ==
  {s \in Setting : /\ s.hide => ~s.loop
                   /\ s.transition = IF s.manual THEN "cut" ELSE "fade"}
=============================================================================
