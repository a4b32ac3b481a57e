---------------------------- MODULE MCNavWorkshop ----------------------------
(***************************************************************************)
(* Maps of the workshop in every form of their names, and one that is not; *)
(* files of theirs in the game's directories and in the map.               *)
(***************************************************************************)
EXTENDS NavWorkshop

Tokens == {"maps/", "maps\\", "workshop/", "workshop\\", ".ugc", ".nav", "embed",
           "cp_a", "cp_b", "1"}

Maps ==
  { <<"workshop/", "cp_a", ".ugc", "1">>, <<"workshop\\", "cp_a", ".ugc", "1">>,
    <<"maps/", "workshop/", "cp_a", ".ugc", "1">>, <<"maps\\", "workshop\\", "cp_a">>,
    <<"workshop/", "cp_b">>, <<"cp_b">> }

Leftovers == {<<>>, <<"cp_a">>}

Files ==
  { FileAt(NavPath(<<"workshop/", "cp_a", ".ugc", "1">>), "MOD"),
    FileAt(NavPath(<<"cp_b">>), "MOD"),
    FileAt(NavPath(<<"cp_a">>), "BSP"), FileAt(NavPath(<<"maps/", "cp_a">>), "BSP"),
    FileAt(NavPath(<<"cp_b">>), "BSP"), FileAt(EmbedPath, "BSP") }
=============================================================================
