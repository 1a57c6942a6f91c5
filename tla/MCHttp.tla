------------------------------- MODULE MCHttp -------------------------------
(***************************************************************************)
(* The server's edge on small instances.                                   *)
(***************************************************************************)
EXTENDS Http

\* Two labels under co.uk, which the table lists, and one under com.bo, which it does not.
KnownHosts ==
    {<<"acme", "com">>, <<"app", "acme", "com">>, <<"shop", "co", "uk">>, <<"other", "co", "uk">>, <<"pub", "com", "bo">>}
KnownSuffixes == {<<"co", "uk">>}
AllSuffixes == KnownSuffixes \cup {<<"com", "bo">>}
DeclaredLabels == {{<<"acme">>, <<"pub">>}, {<<"acme">>, <<"shop">>, <<"pub">>}}
=============================================================================
