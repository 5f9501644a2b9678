-------------------------------- MODULE MCVm --------------------------------
(* Vm with one program of a text and a data page, and one without data.    *)
EXTENDS Vm

MCSegments == {<<{"u", "x"}>>, <<{"u", "x"}, {"u", "w"}>>}
\* The text, the guard page of the shorter program, the end of the longer one, and the
\* first page that no table reaches.
MCTouched == {0, 1, 3, 8}
MCGrows == {-9, -3, 3}
=============================================================================
