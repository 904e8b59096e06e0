------------------------------ MODULE MCDoInstall ------------------------------
(***************************************************************************)
(* do_install with an archive longer than the pipe.                        *)
(***************************************************************************)
EXTENDS DoInstall
=============================================================================
