---------------------------- MODULE MCRunCommand ----------------------------
EXTENDS RunCommand

MCPaths == {<<"a">>, <<".", "a", "b">>, <<"..", "a">>, <<"/", "a">>, <<".">>}
MCFiles == <<"stubs", "luarc", "script">>
=============================================================================
