---------------------------- MODULE MCDescQueue ----------------------------
(* A caller and a vector of two on a ring that holds two descriptors.        *)
EXTENDS DescQueue

TwoElements == <<"v1", "v2">>
OneCaller == {"r"}

\* The caller needs more than the ring; one of the vector's elements is the
\* longer.
ShortAndLong ==
  {s \in [{"r", "v1", "v2"} -> 1 .. 3] :
     s["r"] = 3 /\ <<s["v1"], s["v2"]>> \in {<<1, 2>>, <<2, 1>>}}
=============================================================================
