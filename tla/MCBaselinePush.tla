--------------------------- MODULE MCBaselinePush ---------------------------
(* A small instance of BaselinePush. *)
EXTENDS BaselinePush

CONSTANTS a, b  \* the two tabs

\* Row 1 has a time between two milliseconds: its cursor stands before it.
ToTheMillisecond == <<0, 2>>
WholeSpan == {<<1, NumKeys>>}
=============================================================================
