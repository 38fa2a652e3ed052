------------------------------ MODULE MCShell ------------------------------
(* Shell on a small instance: the paths, which a .cfg cannot write. *)
EXTENDS Shell

MCPipe == <<"pipe">>
MCPaths == {MCPipe, <<"a">>}
=============================================================================
