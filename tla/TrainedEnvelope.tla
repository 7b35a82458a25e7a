--------------------------- MODULE TrainedEnvelope ---------------------------
(***************************************************************************)
(* The canvas and frame range that a model set was trained on: what it     *)
(* fills in for a request that names no dimensions, and what it refuses.   *)
(***************************************************************************)
EXTENDS Integers

\* MIN_CANVAS_EDGE: the floor of RequestBase for every model set.
CONSTANT MinEdge

ASSUME EnvelopeAssumption == MinEdge \in Nat \ {0}

Least(a, b) == IF a <= b THEN a ELSE b
Greatest(a, b) == IF a <= b THEN b ELSE a

TrainedRange(Values) ==
    [shortEdge : Values, longEdge : Values, minFrames : Values, maxFrames : Values,
     stride : Values, offset : Values, multiple : Values]

OnFrameGrid(r, frames) == (frames - r.offset) % r.stride = 0

\* __post_init__: the ranges that can be constructed at all.
WellFormed(r) ==
    /\ r.shortEdge <= r.longEdge /\ r.minFrames <= r.maxFrames
    /\ r.multiple > 0 /\ r.stride > 0
    /\ r.shortEdge % r.multiple = 0 /\ r.longEdge % r.multiple = 0
    /\ OnFrameGrid(r, r.minFrames)

WithinCanvas(r, width, height) ==
    /\ Least(width, height) <= r.shortEdge
    /\ Greatest(width, height) <= r.longEdge

\* The dimensions of a request that names none.
DefaultWidth(r) == r.longEdge
DefaultHeight(r) == r.shortEdge
DefaultFrames(r) == r.minFrames

\* departure, and EnvelopeDeparture.inside.
Inside(r, width, height, frames) ==
    /\ ~(Least(width, height) < r.shortEdge)
    /\ ~(frames < r.minFrames)

\* validate_against_trained_range, with the bounds of the fields.
Admitted(r, width, height, frames) ==
    /\ width >= MinEdge /\ height >= MinEdge /\ frames >= 1
    /\ width % r.multiple = 0 /\ height % r.multiple = 0
    /\ WithinCanvas(r, width, height)
    /\ OnFrameGrid(r, frames)
    /\ r.offset <= frames /\ frames <= r.maxFrames

-----------------------------------------------------------------------------

\* trained_envelope.py:137-139: the bounds of the two edges imply the area cap
\* of the node, so it needs no check of its own.
AreaIsCapped(r, width, height) == width * height <= r.shortEdge * r.longEdge

\* What __post_init__ does not ask of a range, and a request without dimensions
\* needs (contracts.py:92-94, 195).
Usable(r) == r.shortEdge >= MinEdge /\ r.minFrames >= r.offset /\ r.minFrames >= 1

=============================================================================
