--------------------------- MODULE MCPlayerWindow ---------------------------
(* Sizes in units of about 160 pixels: a 4:3 and a 3:1 video, a ratio in   *)
(* between in the menus.                                                   *)
EXTENDS PlayerWindow

Size(x, y) == [cx |-> x, cy |-> y]

MCVideoSizes == {Size(4, 3), Size(6, 2)}
MCFixedRatios == <<Ratio(2, 1)>>
MCDrags == {Size(5, 4)}
MCFirstSize == Size(4, 3)
MCScreen == Size(8, 6)
MCWork == Size(8, 5)
MCIcon == Size(1, 1)

=============================================================================
