-------------------------------- MODULE MCFs --------------------------------
(* Fs on small instances: the paths, which a .cfg cannot write. *)
EXTENDS Fs

(* A file in the root, a directory and a file in it. *)
MCPaths == {<<"a">>, <<"d">>, <<"d", "a">>}

MCOffsets == {-1, 1}

(* Two files, for long histories of one of them. *)
MCTwoFiles == {<<"a">>, <<"b">>}
=============================================================================
