------------------------- MODULE MCProcessExercises -------------------------
(***************************************************************************)
(* The programs on processes, pipes and directories, for one run of TLC:   *)
(* each behaviour is one of ChildReaping's, Pipes' or DirectoryListing's,  *)
(* while the two others stay where they start.                             *)
(***************************************************************************)
EXTENDS ChildReaping, Pipes, DirectoryListing

VARIABLE runs     \* the module whose program runs

ProcessesInit ==
  /\ runs \in {"children", "pipes", "listing"}
  /\ Init /\ PipeInit /\ DirInit

ChildStep == /\ runs = "children" /\ Next
             /\ UNCHANGED <<runs, pipeVars, dirVars>>
PipeStep == /\ runs = "pipes" /\ PipeNext
            /\ UNCHANGED <<runs, vars, dirVars>>
ListingStep == /\ runs = "listing" /\ DirNext
               /\ UNCHANGED <<runs, vars, pipeVars>>

ProcessesNext == ChildStep \/ PipeStep \/ ListingStep

\* The processes are scheduled, and each child ends.
ProcessesSpec ==
  /\ ProcessesInit /\ [][ProcessesNext]_<<runs, vars, pipeVars, dirVars>>
  /\ WF_vars(runs = "children" /\ Main)
  /\ WF_vars(runs = "children" /\ Handler)
  /\ \A c \in Children : WF_vars(runs = "children" /\ Die(c))
  /\ WF_pipeVars(runs = "pipes" /\ PipeWriter)
  /\ WF_pipeVars(runs = "pipes" /\ PipeReader)

\* A directory with a file and a directory that has the same, twice.
MCParent == [f1 |-> "top", d1 |-> "top", f2 |-> "d1", d2 |-> "d1", f3 |-> "d2"]
MCLevel == [top |-> 0, f1 |-> 1, d1 |-> 1, f2 |-> 2, d2 |-> 2, f3 |-> 3]
=============================================================================
