----------------------------- MODULE DemoArchive -----------------------------
(***************************************************************************)
(* What the output database promises: a set of whole demos.  A demo file   *)
(* enters at most once, with all of its rows in one step, and is never     *)
(* touched again; where the power may fail, a loss can take entries back,  *)
(* each of them whole.                                                     *)
(***************************************************************************)
EXTENDS DemoRows

CONSTANT Lossy   \* whether the power may fail

VARIABLE archive   \* the entries a reader of the database sees

Entry == [file : Content, opt : Option, rows : SUBSET (Table \X Tick)]

Init == archive = {}

\* A run under options opt extracts file c.
Add(c, opt) ==
  /\ Cuttable(c, opt) /\ \A e \in archive : e.file # c
  /\ archive' = archive \cup {[file |-> c, opt |-> opt, rows |-> WholeRows(c, opt)]}

PowerLoss == Lossy /\ archive' \in SUBSET archive

Next ==
  \/ \E c \in Content, opt \in Option : Add(c, opt)
  \/ PowerLoss

Spec == Init /\ [][Next]_archive
==============================================================================
