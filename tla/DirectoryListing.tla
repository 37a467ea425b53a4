-------------------------- MODULE DirectoryListing --------------------------
(***************************************************************************)
(* bases/myls.cpp: lists a directory and all below it.  isFile prints one  *)
(* entry, and first, if that is a directory, has read_dir go through it;   *)
(* read_dir calls isFile for each entry, and then the function it was      *)
(* given, which is isFile again.  No directory stream is ever closed, so   *)
(* that opendir fails sooner or later in a large tree; it also does in a   *)
(* directory that may not be read.                                         *)
(*                                                                         *)
(* The calls that are under way are a stack.  The tree does not change, no *)
(* symbolic link leads back up in it, its names are short enough for the   *)
(* buffer, and stat succeeds.                                              *)
(*                                                                         *)
(* An operator that is used nowhere and stands before another is the other *)
(* with a slip in it: a property of this module tells the two apart.       *)
(***************************************************************************)
EXTENDS Naturals, Sequences, FiniteSetsExt

CONSTANTS Entries, Dirs,    \* the files and directories, the latter of them
          Top,              \* main's argument
          Parent,           \* the directory each other entry is in
          Level             \* how many levels below the top each entry is

ASSUME TreeAssumption ==
  /\ IsFiniteSet(Entries) /\ Dirs \subseteq Entries /\ Top \in Entries
  /\ Parent \in [Entries \ {Top} -> Dirs]
  /\ Level \in [Entries -> Nat] /\ Level[Top] = 0
  /\ \A e \in Entries \ {Top} : Level[e] = Level[Parent[e]] + 1

VARIABLES calls,     \* the calls under way, the innermost first
          opened,    \* streams that are open
          failed,    \* has an opendir failed?
          printed    \* how often each entry was printed

dirVars == <<calls, opened, failed, printed>>

Call(at, name) == [at |-> at, name |-> name, rest |-> {}, entry |-> name]
Inside(d) == {e \in Entries \ {Top} : Parent[e] = d}

DirTypeOK ==
  /\ calls \in Seq([at : {"stat", "print", "opendir", "next", "again"},
                    name : Entries, rest : SUBSET Entries, entry : Entries])
  /\ opened \in Nat /\ failed \in BOOLEAN
  /\ printed \in [Entries -> Nat]

DirInit ==
  /\ calls = <<Call("stat", Top)>>
  /\ opened = 0 /\ failed = FALSE
  /\ printed = [e \in Entries |-> 0]

Running(at) == calls # <<>> /\ Head(calls).at = at
Frame == Head(calls)

GoesOn(at) == <<[Frame EXCEPT !.at = at]>> \o Tail(calls)
Returns == calls' = Tail(calls)
-----------------------------------------------------------------------------
(* isFile *)

Stat ==
  /\ Running("stat")
  /\ calls' = IF Frame.name \in Dirs
              THEN <<Call("opendir", Frame.name)>> \o GoesOn("print")
              ELSE GoesOn("print")
  /\ UNCHANGED <<opened, failed, printed>>

PrintEntry ==
  /\ Running("print")
  /\ printed' = [printed EXCEPT ![Frame.name] = @ + 1]
  /\ Returns
  /\ UNCHANGED <<opened, failed>>
-----------------------------------------------------------------------------
(* read_dir *)

OpenDir ==
  /\ Running("opendir")
  /\ \/ /\ opened' = opened + 1
        /\ calls' = <<[Frame EXCEPT !.at = "next",
                                   !.rest = Inside(Frame.name)]>> \o Tail(calls)
        /\ UNCHANGED failed
     \/ /\ failed' = TRUE
        /\ Returns
        /\ UNCHANGED opened
  /\ UNCHANGED printed

OnceOnly == "next"
AfterEntry == "again"

\* readdir gives the entries in any order; isFile(path) ...
NextEntry ==
  /\ Running("next")
  /\ \E e \in Frame.rest :
       calls' = <<Call("stat", e),
                  [Frame EXCEPT !.at = AfterEntry, !.rest = @ \ {e},
                                !.entry = e]>> \o Tail(calls)
  /\ UNCHANGED <<opened, failed, printed>>

\* ... and (*func)(path)
CallFunc ==
  /\ Running("again")
  /\ calls' = <<Call("stat", Frame.entry)>> \o GoesOn("next")
  /\ UNCHANGED <<opened, failed, printed>>

NoMoreEntries ==
  /\ Running("next") /\ Frame.rest = {}
  /\ Returns
  /\ UNCHANGED <<opened, failed, printed>>
-----------------------------------------------------------------------------
DirNext == \/ Stat \/ PrintEntry \/ OpenDir \/ NextEntry \/ CallFunc
           \/ NoMoreEntries

DirSpec == DirInit /\ [][DirNext]_dirVars
-----------------------------------------------------------------------------
\* Powers of two.
Doubled[k \in Nat] == IF k = 0 THEN 1 ELSE 2 * Doubled[k - 1]
Times(e) == Doubled[Level[e]]

\* The listing is complete, and doubles with each level: an entry k levels below
\* the top is printed 2^k times, since read_dir calls isFile itself and once
\* more as its argument, and a stream is left open for each time a directory
\* was gone through.  A directory that cannot be opened makes what is below it
\* incomplete, and nothing else is printed more often for it.  Types are kept
\* (myls.cpp 23-43, 59-64).
EachLevelDoubles ==
  /\ DirTypeOK
  /\ calls = <<>> =>
       /\ \A e \in Entries : printed[e] <= Times(e)
       /\ ~failed => /\ \A e \in Entries : printed[e] = Times(e)
                     /\ opened = MapThenSumSet(Times, Dirs)
=============================================================================
