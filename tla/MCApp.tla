------------------------------- MODULE MCApp --------------------------------
(* The event loop for model checking: the heights give the list two and    *)
(* three visible rows, so that four packets do not fit on the screen.      *)
EXTENDS App

MCOneHeight == {3}
MCTwoHeights == {3, 4}
=============================================================================
