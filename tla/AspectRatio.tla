----------------------------- MODULE AspectRatio -----------------------------
(***************************************************************************)
(* The sizes of aspect_ratio.cpp and of awkawk::apply_sizing_policy.  A    *)
(* size is a record of two LONGs, a ratio one of a numerator and a         *)
(* denominator (boost::rational<int>, kept here unreduced: the divisions   *)
(* that follow drop the same fraction either way).                         *)
(***************************************************************************)
EXTENDS Integers

Ratio(n, d) == [num |-> n, den |-> d]

Wider(a, b) == a.num * b.den > b.num * a.den

FixWidth(size, f) == [size EXCEPT !.cx = (size.cy * f.num) \div f.den]
FixHeight(size, f) == [size EXCEPT !.cy = (size.cx * f.den) \div f.num]

FixEnlarge(size, actual, intended) ==
    IF Wider(actual, intended) THEN FixHeight(size, intended)
    ELSE IF Wider(intended, actual) THEN FixWidth(size, intended)
    ELSE size

\* Mutant of FixShrink: the two cases the wrong way round.
FixShrinkSwapped(size, actual, intended) ==
    IF Wider(actual, intended) THEN FixHeight(size, intended)
    ELSE IF Wider(intended, actual) THEN FixWidth(size, intended)
    ELSE size

FixShrink(size, actual, intended) ==
    IF Wider(actual, intended) THEN FixWidth(size, intended)
    ELSE IF Wider(intended, actual) THEN FixHeight(size, intended)
    ELSE size

ScaleSize(size, f) ==
    [cx |-> (size.cx * f.num) \div f.den, cy |-> (size.cy * f.num) \div f.den]

\* The ratio of a size: natural_aspect_ratio for the video's.
RatioOf(size) == Ratio(size.cx, size.cy)

\* The video with the chosen aspect ratio: as large as needed to hold it.
ArFixed(video, ar) == FixEnlarge(video, RatioOf(video), ar)

\* The part of it inside the chosen letterbox.
Protected(video, ar, lb) == FixShrink(ArFixed(video, ar), ar, lb)

FitToConstraint(size, constraint) == FixShrink(constraint, RatioOf(constraint), RatioOf(size))

==============================================================================
