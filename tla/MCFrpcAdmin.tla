----------------------------- MODULE MCFrpcAdmin -----------------------------
(* A small instance: a template as the original file, one other good text,  *)
(* and one without a [common] section.                                      *)
EXTENDS FrpcAdmin

CONSTANTS tab1, none

MCText == {"template", "plain", "edited", "bare", "empty", "garbled"}
MCTyped == {"edited", "bare"}
MCRendered == [t \in MCText |-> IF t = "template" THEN "plain" ELSE t]
MCHasCommon == {"template", "plain", "edited"}
MCValid == {"plain", "edited"}
MCBroken == {"garbled"}
MCTab == {tab1}
MCRow == {"p", "q"}
MCRowsOf == [t \in MCText |-> IF t = "edited" THEN {"p", "q"} ELSE {"p"}]

=============================================================================
