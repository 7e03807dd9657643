---------------------------- MODULE MCMoaiUpgrade ----------------------------
(* Model-checking instances of MoaiUpgrade.                                   *)
EXTENDS MoaiUpgrade

\* The version comes first, so that a later failure leaves a half-done upgrade
\* that counts as the newest version.
MCCommon == <<"vtag">>
MCSection == <<"moai", "birdman">>

\* Every kind of directory on Windows, of which the report is checked.
MCHosts ==
  ({"windows"} \X DirKinds) \cup {<<"cygwin", "bare">>, <<"linux", "section">>}
MCWindows == {<<"windows", "bare">>}
MCLinux == {<<"linux", "section">>}
=============================================================================
