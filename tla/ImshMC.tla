------------------------------- MODULE ImshMC -------------------------------
(***************************************************************************)
(* Scripts of two calls on two small images of different sizes.            *)
(***************************************************************************)
EXTENDS Imsh

Rgb(r, g, b) == [k \in Channels |-> CASE k = "r" -> r [] k = "g" -> g [] k = "b" -> b]
Drawing(rows) ==
  [p \in (0..(Len(rows) - 1)) \X (0..(Len(rows[1]) - 1)) |-> rows[p[1] + 1][p[2] + 1]]

Red == Rgb(255, 0, 0)
Blue == Rgb(0, 0, 200)
G(v) == Grey(v)

MCBitmaps ==
  { Drawing(<< <<G(0), G(90), Red>>, <<G(140), G(255), G(127)>>, <<Blue, G(30), G(200)>> >>),
    Drawing(<< <<White, Black, Red, G(100), White>> >>) }

MCScales == { <<0, 0>>, <<2, 60>>, <<2, NotNum>> }

MCLists == { <<-1, -1, -1, -1, 8, -1, -1, -1, 0, 77>>, <<1, 1, 1, 1>>,
             [i \in 1..25 |-> 1], <<1, NotNum, 1>> }

MCSymmetry == Permutations(Handles)

(* floyd-dith-matrix; nine points of which one is read; not all numbers.   *)
MCDithLists ==
  { FloydMatrix,
    [i \in 1..27 |-> CASE i % 3 = 1 -> <<1, 1>> [] i % 3 = 2 -> <<0, 1>> [] i % 3 = 0 -> <<1, 3>>],
    << <<1, 1>>, <<1, 2>>, NotNum>>, <<NotNum, <<1, 1>>, <<1, 1>> >> }
=============================================================================
