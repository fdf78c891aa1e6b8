-------------------------------- MODULE MCShell --------------------------------
EXTENDS Shell

\* Pid 2 is the shell, 3 is its first command; few words keep the search small.
MCLines ==
    {valid_user, valid_pass, <<"ex">>, <<"ps">>, <<"t", "&">>, <<"a", " ", "3", "&">>,
     <<"k", " ", "2">>, <<"k", " ", "3">>, <<"sudo", " ", "3">>, <<"sudo", " ", "3", " ", "&", " ">>}
=============================================================================
