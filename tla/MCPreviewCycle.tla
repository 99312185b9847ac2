--------------------------- MODULE MCPreviewCycle ---------------------------
(***************************************************************************)
(* An instance of PreviewCycle: the first preview is rendered in two        *)
(* versions, the others in one.                                             *)
(***************************************************************************)
EXTENDS PreviewCycle

MCRendered == [u \in Uuid |-> IF u = 1 THEN Version ELSE {1}]
=============================================================================
