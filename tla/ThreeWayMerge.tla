--------------------------- MODULE ThreeWayMerge ---------------------------
(***************************************************************************)
(* The line-based merge of three-way-merge.ts.                             *)
(*                                                                         *)
(* A file is cut into regions that edits rewrite as a whole and that are   *)
(* separated by lines nobody touches, so that hunks of two sides overlap   *)
(* only when they rewrite the same region.  A content gives each region    *)
(* its text; two regions have the same text iff they have the same value.  *)
(***************************************************************************)
EXTENDS Naturals

CONSTANT Regions

Contents == [Regions -> Nat]

Hunks(base, changed) == {r \in Regions : changed[r] # base[r]}

\* Regions that both sides rewrote, and not to the same text.
Overlaps(base, ours, theirs) ==
  {r \in Hunks(base, ours) \cap Hunks(base, theirs) : ours[r] # theirs[r]}

Conflict(base, ours, theirs) == Overlaps(base, ours, theirs) # {}

\* Where both sides have a hunk they are equal, or theirs was dropped (preferOurs).
Merged(base, ours, theirs) ==
  [r \in Regions |-> IF r \in Hunks(base, ours) THEN ours[r] ELSE theirs[r]]
=============================================================================
