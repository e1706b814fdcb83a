-------------------------------- MODULE Keys --------------------------------
(***************************************************************************)
(* What getch() may return, as far as the program tells it apart.          *)
(***************************************************************************)

\* Keys that move towards the first row; "home" is g, "end" is G.
UpKeys == {"up", "pageUp", "home"}

NavigationKeys == UpKeys \cup {"down", "pageDown", "end"}

\* Characters, which a bar takes as input: "yes" is y or Y, "char" is any that
\* means nothing to the program otherwise, the others are the commands
\* g, G, /, w, s, r, h, space and q.
Characters == {"home", "end", "slash", "write", "sort", "reverse", "hex", "space", "quit",
               "yes", "char"}

\* The rest: "none" is ERR.
Key == NavigationKeys \cup Characters
          \cup {"enter", "escape", "backspace", "tab", "none"}
=============================================================================
