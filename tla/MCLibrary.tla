---------------------------- MODULE MCLibrary ----------------------------
(***************************************************************************)
(* The parts that run by themselves: the containers, the string functions, *)
(* the consoles and the drawing programs.  A behaviour is a behaviour of   *)
(* one of them, and the others stay as they start.                         *)
(***************************************************************************)
EXTENDS RBTree, Lists, Vector, Strings, Console, Drawing

VARIABLE which

Init ==
  /\ which \in {"tree", "list", "map", "vector", "strings", "console", "drawing"}
  /\ TreeInit /\ ListsInit /\ VectorInit /\ StringsInit /\ ConsoleInit /\ DrawInit
  /\ which # "console" => editor = "user"
  /\ which # "drawing" => program = "test"
  /\ program # "kernel" => draw.x = 1

Next ==
  /\ UNCHANGED which
  /\ \/ which = "tree" /\ TreeNext
        /\ UNCHANGED <<listVars, vectorVars, stringVars, consoleVars, drawVars>>
     \/ which = "list" /\ ListNext
        /\ UNCHANGED <<treeVars, vectorVars, stringVars, consoleVars, drawVars>>
     \/ which = "map" /\ MapNext
        /\ UNCHANGED <<treeVars, vectorVars, stringVars, consoleVars, drawVars>>
     \/ which = "vector" /\ VectorNext
        /\ UNCHANGED <<treeVars, listVars, stringVars, consoleVars, drawVars>>
     \/ which = "strings" /\ StringsNext
        /\ UNCHANGED <<treeVars, listVars, vectorVars, consoleVars, drawVars>>
     \/ which = "console" /\ ConsoleNext
        /\ UNCHANGED <<treeVars, listVars, vectorVars, stringVars, drawVars>>
     \/ which = "drawing" /\ DrawNext
        /\ UNCHANGED <<treeVars, listVars, vectorVars, stringVars, consoleVars>>

(* Two keys share a bucket. *)
MCHash == "k1" :> 0 @@ "k2" :> 0 @@ "k3" :> 1

(* Glyphs of two by two, the lit pixels of each. *)
MCFont == [A |-> {<<0, 0>>, <<1, 1>>}, B |-> {<<0, 1>>, <<1, 0>>, <<1, 1>>}]
MCStrings == {<<"A">>, <<"B", "A">>, <<"A", "B", "B">>}

(* A column of two pixels whose first bytes are a digit and a newline. *)
MCPhoto == PpmWrite([width |-> 1, height |-> 2, img |-> <<53, 10, 48, 49, 50, 51>>])

(* Some of them end past the right or the lower edge. *)
MCRects == {[x |-> x, y |-> y, w |-> w, h |-> h] : x \in {0, 1, 3}, y \in {0, 2}, w \in {1, 3}, h \in {1, 3}}
=============================================================================
