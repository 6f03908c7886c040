-------------------------------- MODULE MCCli --------------------------------
(***************************************************************************)
(* Instances of Cli.                                                       *)
(***************************************************************************)
EXTENDS CliProperties

\* A line as ribsu_read_callback prints it, a character for four digits: two
\* groups, each with its space.
MCPrinted == {<<"0", " ", "6", " ", "\n">>}

\* Pieces of lines as a pipe delivers them.
MCPieces == {<<"2">>, <<"3", "\n">>, <<"I", " ">>, <<"Q", "\n">>}
=============================================================================
