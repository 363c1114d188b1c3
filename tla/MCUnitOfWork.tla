----------------------------- MODULE MCUnitOfWork -----------------------------
(* Instances of UnitOfWork for TLC. *)
EXTENDS UnitOfWork, TLC

CONSTANTS x1, x2, x3, x4, i1, i2, i3, i4

\* Distinct: a call with a nested one, another call, and one without an id.
DistinctId == (x1 :> i1) @@ (x2 :> i2) @@ (x3 :> i3) @@ (x4 :> NoId)
DistinctParent == (x1 :> NoCall) @@ (x2 :> x1) @@ (x3 :> NoCall) @@ (x4 :> NoCall)

\* Shared: one id for two calls, as when a command is delivered twice, and for
\* a call nested in the first, as when its callback handles an event of the same
\* flow; a call nested in the second has an id of its own.
SharedId == (x1 :> i1) @@ (x2 :> i1) @@ (x3 :> i1) @@ (x4 :> i2)
SharedParent == (x1 :> NoCall) @@ (x2 :> NoCall) @@ (x3 :> x1) @@ (x4 :> x2)

\* Twice: the same id for two calls.
TwiceId == (x1 :> i1) @@ (x2 :> i1)
TwiceParent == (x1 :> NoCall) @@ (x2 :> NoCall)
=============================================================================
