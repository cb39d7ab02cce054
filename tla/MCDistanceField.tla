---------------------------- MODULE MCDistanceField ----------------------------
(* An instance of DistanceField and WallPower for TLC: the values on both  *)
(* sides of the threshold of 65, 5 : 7 for 1 : sqrt(2), and robots within  *)
(* two cells of the map, on a grid of half cells.                          *)
EXTENDS WallPower

MCOccupancy == {64, 65}
MCWorld == (-9..9) \X (-9..9)
MCOrigin == <<1, 0>>
=============================================================================
