-------------------------- MODULE MCNodeLifecycle --------------------------
(***************************************************************************)
(* Goroutines with which TLC checks NodeLifecycle: one that does all there *)
(* is to do with a node, or two that meet the same crash.                  *)
(***************************************************************************)
EXTENDS NodeLifecycle

CONSTANTS s, r1, r2         (* model values: goroutines                    *)

One == {s}
All == {s, r1, r2}
OneOrTwoCallers == {{s}, {r1, r2}}
=============================================================================
