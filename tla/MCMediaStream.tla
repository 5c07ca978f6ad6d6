---------------------------- MODULE MCMediaStream ----------------------------
(* Files without loop tags, whose duration is exact or half a frame short;    *)
(* with a loop inside and one up to the end; with a start tag only; with a    *)
(* loop that starts behind the end; and without samples or a duration.        *)
EXTENDS MediaStream

File(len, start, end, duration) ==
  [len |-> len, loopStart |-> start, loopEnd |-> end, duration |-> duration]
MCSources == {File(2, 0, 0, 4), File(2, 0, 0, 3), File(3, 1, 2, 6), File(3, 1, 3, 6),
              File(2, 1, 0, 4), File(1, 2, 3, 2), File(0, 0, 0, 0)}
=============================================================================
