---------------------------- MODULE WorkspaceMC ----------------------------
(***************************************************************************)
(* Instances of Workspace for TLC.                                         *)
(***************************************************************************)
EXTENDS Workspace, TLC

(* Two files, of which the project has one, and two coders.                *)
First  == CHOOSE f \in Files : TRUE
Second == CHOOSE f \in Files : f # First
Coder1 == CHOOSE c \in Coders : TRUE

OneIngested == {First}

Creates(paths, mentioned) ==
  [creates |-> paths, updates |-> {}, mentions |-> mentioned]
Updates(paths) == [creates |-> {}, updates |-> paths, mentions |-> {}]

(* Each coder creates one of the files, and the criteria of the first may  *)
(* mention the other one; or both work on the same file; or nobody creates *)
(* the file that is updated, which the guardian refuses.                   *)
SomePlans ==
  {[c \in Coders |-> IF c = Coder1 THEN Creates({Second}, {First}) ELSE Creates({First}, {})],
   [c \in Coders |-> IF c = Coder1 THEN Creates({First}, {}) ELSE Creates({Second}, {})],
   [c \in Coders |-> IF c = Coder1 THEN Creates({Second}, {}) ELSE Updates({Second})],
   [c \in Coders |-> Updates({First})]}

Write(paths)  == [writes |-> paths, deletes |-> {}, inline |-> FALSE]
Inline(paths) == [writes |-> paths, deletes |-> {}, inline |-> TRUE]
Delete(paths) == [writes |-> {}, deletes |-> paths, inline |-> FALSE]

(* Answers in scope and out of scope, one that names no file, one that     *)
(* deletes, one whose contents stand in the answer itself.                 *)
SomeShapes ==
  [t \in Tasks |->
     IF t = Researcher THEN {Write({}), Write({First})}
     ELSE IF t = Coder1 THEN {Write({First}), Write({Second}), Write({})}
     ELSE {Inline({Second}), Delete({First}), Write(Files)}]
=============================================================================
