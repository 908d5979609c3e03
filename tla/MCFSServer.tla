----------------------------- MODULE MCFSServer -----------------------------
EXTENDS FSServer

MCObcd     == <<"x">>
MCSaveHack == {<<"x", "tmp">>}
MCFiles    == {<<"x">>, <<"x", "tmp">>}
MCTargets  == {<<"x">>, <<"tmp", "x">>}
MCModes    == {{"r"}, {"r", "w"}}
=============================================================================
