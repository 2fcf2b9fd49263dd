---------------------------- MODULE MCSkyTable ----------------------------
(* Three talkers of four systems, two of them counted under one total; one  *)
(* sky shows more satellites than the table holds, has a run of two         *)
(* sentences and names a satellite by an id that a byte cannot hold, one    *)
(* shows none.                                                              *)
EXTENDS SkyTable

TalkersMC == <<"GP", "GL", "GQ">>
Sight(t, i, u) == [talker |-> t, id |-> i, used |-> u]
SkiesMC == {
  <<Sight(1, 1, TRUE), Sight(1, 33, TRUE), Sight(1, 258, FALSE), Sight(2, 65, TRUE),
    Sight(3, 1, TRUE)>>,
  <<Sight(1, 1, TRUE), Sight(1, 33, FALSE)>>,
  <<Sight(1, 33, TRUE), Sight(2, 65, FALSE), Sight(3, 1, TRUE)>>,
  <<Sight(1, 1, FALSE), Sight(2, 65, TRUE), Sight(3, 1, FALSE)>>,
  <<>> }
=============================================================================
