----------------------------- MODULE MCConnect -----------------------------
(***************************************************************************)
(* Small instances of Connect: the host h, which the file may call r, with *)
(* up to two addresses and two attempts, an agent with up to two           *)
(* identities, keys for either name, and preferences for two types.        *)
(***************************************************************************)
EXTENDS Connect

MCTexts == {"", "h", "r", "me", "you", "pw", "k1", "k2", "i1"}
MCAgents == {<< >>, <<"k1">>, <<"k2", "k1">>}
MCAlgos == {"good", "better", "bad"}
MCSupported == {"good", "better"}

MethodsChoices ==
    {<< >>, <<[type |-> "CryptSc", algos |-> "better"]>>,
     <<[type |-> "Kex", algos |-> "good"], [type |-> "Kex", algos |-> "better"]>>}

Opts(timeouts, agents, keyed, methods) ==
    {[host |-> "h", port |-> << >>, username |-> <<"me">>, password |-> <<"pw">>,
      connection_timeout |-> t, config_file |-> f, keyed |-> k, methods |-> m,
      agent |-> a] :
        t \in timeouts, f \in BOOLEAN, k \in keyed, m \in methods, a \in agents}

MCOptions == Opts({<< >>, <<0>>}, {<< >>, <<"All">>, <<"k1">>},
                  {{}, {"h"}, {"r"}}, MethodsChoices)

FileParams(attempts, files, kexes, ciphers) ==
    {[host_name |-> <<"r">>, port |-> <<2222>>, user |-> <<"you">>,
      connect_timeout |-> <<60>>, connection_attempts |-> n, identity_file |-> i,
      kex |-> x, host_key |-> << >>, ciphers |-> c, mac |-> << >>] :
        n \in attempts, i \in files, x \in kexes, c \in ciphers}

MCHostParams == FileParams({<<0>>, <<2>>}, {<< >>, <<"i1">>}, {<< >>, <<"bad">>},
                           {<< >>, <<"good">>})
=============================================================================
