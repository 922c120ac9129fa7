------------------------------ MODULE DemoRows ------------------------------
(***************************************************************************)
(* Which rows make a demo whole: everything the passes extract from it,    *)
(* less the tables a run omits and the ticks --last-round cuts off.        *)
(***************************************************************************)
EXTENDS Integers

CONSTANTS
  Content,   \* the demo files, by their bytes (so also by their sha256)
  Table,     \* the child tables
  RowsOf,    \* RowsOf[c]: the <<table, tick>> rows the passes extract from c; a player is on
             \* the tick first seen, a round on one that places it before or after the cut
  CutOf,     \* CutOf[c]: the tick --last-round cuts c at, NoCut or Bail
  NoCut,     \* no round after the last one wanted began: nothing to cut
  Bail       \* cut_after has no tick to cut at: the demo fails

Tick == Nat

ASSUME DemoRowsAssumption ==
  /\ RowsOf \in [Content -> SUBSET (Table \X Tick)]
  /\ CutOf \in [Content -> Tick \cup {NoCut, Bail}]
  /\ NoCut \notin Tick /\ Bail \notin Tick /\ NoCut # Bail

\* The options of one run that decide which rows it keeps: whether it was
\* given --last-round, and the tables it omits.
Option == [last_round : BOOLEAN, omitted : SUBSET Table]

\* Whether a run with these options cuts demo c.
IsCut(c, opt) == opt.last_round /\ CutOf[c] # NoCut

\* Whether --last-round finds what it needs in demo c.
Cuttable(c, opt) == opt.last_round => CutOf[c] # Bail

\* Whether a row on this tick survives the cut.
Kept(c, opt, tick) == IsCut(c, opt) => tick < CutOf[c]

\* The rows that make demo c whole under these options.
WholeRows(c, opt) ==
  {r \in RowsOf[c] : r[1] \notin opt.omitted /\ Kept(c, opt, r[2])}
==============================================================================
