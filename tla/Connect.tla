------------------------------ MODULE Connect ------------------------------
(***************************************************************************)
(* How a session comes about (src/ssh/commons.rs connect and its helpers,  *)
(* src/ssh/config.rs): the options and the configuration file are resolved *)
(* to one configuration, the addresses of the host are dialed in rounds,   *)
(* algorithm preferences are set, the handshake is made, and the ssh agent, *)
(* a key or the password authenticates.                                    *)
(*                                                                         *)
(* The network, the agent and the server answer as they like.  An optional *)
(* value is a sequence of at most one element.                             *)
(***************************************************************************)
EXTENDS Integers, Sequences

CONSTANTS
    Texts,         \* names, passwords, keys
    Empty,         \* the empty one
    Options,       \* the SshOpts a caller may have built
    HostParams,    \* what a configuration file may say of the host
    Agents,        \* the identities an agent may hold, in its order
    MaxAddresses,  \* how many addresses a host name may resolve to
    Algos,         \* the values of an algorithm preference
    Supported      \* those of which libssh2 supports at least one algorithm

MethodTypes == {"Kex", "HostKey", "CryptCs", "CryptSc", "MacCs", "MacSc"}

Optional(S) == {o \in Seq(S) : Len(o) <= 1}

Methods == Seq([type : MethodTypes, algos : Algos])

SshOpts ==
    [host : Texts, port : Optional(Nat), username : Optional(Texts),
     password : Optional(Texts), connection_timeout : Optional(Nat),
     config_file : BOOLEAN, keyed : SUBSET Texts, methods : Methods,
     agent : Optional({"All"} \cup Texts)]

Params ==
    [host_name : Optional(Texts), port : Optional(Nat), user : Optional(Texts),
     connect_timeout : Optional(Nat), connection_attempts : Optional(Nat),
     identity_file : Seq(Texts), kex : Optional(Algos), host_key : Optional(Algos),
     ciphers : Optional(Algos), mac : Optional(Algos)]

ASSUME ConnectAssumption ==
    /\ Empty \in Texts
    /\ Options \subseteq SshOpts
    /\ HostParams \subseteq Params
    /\ Agents \subseteq Seq(Texts)
    /\ MaxAddresses \in Nat
    /\ "default" \notin Algos
    /\ Supported \subseteq Algos

VARIABLES
    opts,           \* SshOpts
    file,           \* what the configuration file says
    identities,     \* the identities of the agent
    config,         \* the local ssh_config
    addresses,      \* how many addresses the host has
    attempt, nth,   \* the counters of the two dialing loops
    dialed,         \* every connection attempt: history
    session,        \* "none", "new" or "handshaken"
    prefs,          \* the preferences set in the session
    wish,           \* the next preference to set
    turn,           \* the next identity or key to offer
    authenticated,  \* session.authenticated()
    offered,        \* every credential offered to the server: history
    pc, ret

given == <<opts, file, identities>>
dialing == <<addresses, attempt, nth, dialed>>
auth == <<turn, authenticated, offered>>
vars == <<given, config, dialing, session, prefs, wish, auth, pc, ret>>

-----------------------------------------------------------------------------
(* Config.                                                                 *)

OrElse(option, default) == IF option = << >> THEN default ELSE Head(option)

\* HostParams::default()
NoParams ==
    [host_name |-> << >>, port |-> << >>, user |-> << >>, connect_timeout |-> << >>,
     connection_attempts |-> << >>, identity_file |-> << >>, kex |-> << >>,
     host_key |-> << >>, ciphers |-> << >>, mac |-> << >>]

resolve_host(params, o) == OrElse(params.host_name, o.host)
resolve_address(params, o) ==
    <<resolve_host(params, o), OrElse(o.port, OrElse(params.port, 22))>>
resolve_username(params, o) == OrElse(o.username, OrElse(params.user, Empty))
resolve_connection_timeout(params, o) ==
    OrElse(o.connection_timeout, OrElse(params.connect_timeout, 30))
resolve_connection_attempts(params) == OrElse(params.connection_attempts, 1)

from_params(params, o) ==
    [host |-> o.host,
     resolved_host |-> resolve_host(params, o),
     address |-> resolve_address(params, o),
     username |-> resolve_username(params, o),
     connection_timeout |-> resolve_connection_timeout(params, o),
     connection_attempts |-> resolve_connection_attempts(params),
     params |-> params]

\* set_algo_prefs: the preferences of the file in a fixed order, then those of
\* the options as they were added.
Wish(types, algos) ==
    IF algos = << >> THEN << >>
    ELSE [i \in DOMAIN types |-> [type |-> types[i], algos |-> Head(algos)]]

FileWishes(params) ==
    Wish(<<"Kex">>, params.kex) \o Wish(<<"HostKey">>, params.host_key)
      \o Wish(<<"CryptCs", "CryptSc">>, params.ciphers)
      \o Wish(<<"MacCs", "MacSc">>, params.mac)

\* Variant of Wishes with the file after the options.
WishesFileLast == opts.methods \o FileWishes(config.params)

Wishes == FileWishes(config.params) \o opts.methods

\* SshAgentIdentity::pubkey_matches
pubkey_matches(blob) == Head(opts.agent) \in {"All", blob}

\* The key the storage has for the user at the host as given or, failing that, as
\* resolved (keyed: the hosts for which it has one).
StoredKey ==
    IF config.host \in opts.keyed THEN <<config.host>>
    ELSE IF config.resolved_host \in opts.keyed THEN <<config.resolved_host>>
    ELSE << >>

Keys == StoredKey \o config.params.identity_file

-----------------------------------------------------------------------------

Init ==
    /\ opts \in Options
    /\ file \in HostParams
    /\ identities \in Agents
    /\ config = from_params(NoParams, opts)
    /\ addresses = 0 /\ attempt = 0 /\ nth = 0 /\ dialed = << >>
    /\ session = "none"
    /\ prefs = [t \in MethodTypes |-> "default"]
    /\ wish = 1
    /\ turn = 1 /\ authenticated = FALSE /\ offered = << >>
    /\ pc = "start" /\ ret = "none"

Goto(place) == pc' = place /\ UNCHANGED ret
Return(kind) == pc' = "done" /\ ret' = kind

ReadConfig ==
    /\ pc = "start"
    /\ config' = from_params(IF opts.config_file THEN file ELSE NoParams, opts)
    /\ Goto("resolve")
    /\ UNCHANGED <<given, dialing, session, prefs, wish, auth>>

\* The file cannot be opened or parsed.
ReadConfigFails ==
    /\ pc = "start" /\ opts.config_file
    /\ Return("IoError")
    /\ UNCHANGED <<given, config, dialing, session, prefs, wish, auth>>

ResolveHost ==
    /\ pc = "resolve"
    /\ addresses' \in 0..MaxAddresses
    /\ Goto("dial")
    /\ UNCHANGED <<given, config, attempt, nth, dialed, session, prefs, wish, auth>>

ResolveFails ==
    /\ pc = "resolve"
    /\ Return("BadAddress")
    /\ UNCHANGED <<given, config, dialing, session, prefs, wish, auth>>

-----------------------------------------------------------------------------
(* The dialing loops.                                                      *)

More == pc = "dial" /\ attempt < config.connection_attempts

\* tcp_connect: no timeout when it is zero.
Bounded == config.connection_timeout # 0

\* Variant of Dial that goes one address too far.
DialOneTooFar(answered) ==
    /\ More /\ nth <= addresses
    /\ dialed' = Append(dialed, [to |-> nth + 1, ok |-> answered])

Dial(answered) ==
    /\ More /\ nth < addresses
    /\ dialed' = Append(dialed, [to |-> nth + 1, ok |-> answered])

DialFails ==
    /\ Dial(FALSE)
    /\ nth' = nth + 1
    /\ UNCHANGED <<given, config, addresses, attempt, session, prefs, wish, auth,
                   pc, ret>>

\* Variant of DialSucceeds: the inner loop is left, the outer one is not.
DialSucceedsAndGoesOn ==
    /\ Dial(TRUE)
    /\ attempt' = attempt + 1 /\ nth' = 0
    /\ IF attempt' < config.connection_attempts THEN Goto("dial") ELSE Goto("session")
    /\ UNCHANGED <<given, config, addresses, session, prefs, wish, auth>>

DialSucceeds ==
    /\ Dial(TRUE)
    /\ Goto("session")
    /\ UNCHANGED <<given, config, addresses, attempt, nth, session, prefs, wish,
                   auth>>

\* Variant of NextAttempt that does not count.
NextAttemptUncounted ==
    /\ More /\ nth >= addresses
    /\ nth' = 0
    /\ UNCHANGED <<given, config, addresses, attempt, dialed, session, prefs, wish,
                   auth, pc, ret>>

NextAttempt ==
    /\ More /\ nth >= addresses
    /\ attempt' = attempt + 1 /\ nth' = 0
    /\ UNCHANGED <<given, config, addresses, dialed, session, prefs, wish, auth,
                   pc, ret>>

GiveUp ==
    /\ pc = "dial" /\ ~More
    /\ Return("ConnectionError")
    /\ UNCHANGED <<given, config, dialing, session, prefs, wish, auth>>

-----------------------------------------------------------------------------
(* The session.                                                            *)

NewSession ==
    /\ pc = "session"
    /\ session' = "new"
    /\ Goto("prefs")
    /\ UNCHANGED <<given, config, dialing, prefs, wish, auth>>

NewSessionFails ==
    /\ pc = "session"
    /\ Return("ConnectionError")
    /\ UNCHANGED <<given, config, dialing, session, prefs, wish, auth>>

\* method_pref takes a list of which libssh2 supports something.
PrefAccepted ==
    /\ pc = "prefs" /\ wish <= Len(Wishes)
    /\ Wishes[wish].algos \in Supported
    /\ prefs' = [prefs EXCEPT ![Wishes[wish].type] = Wishes[wish].algos]
    /\ wish' = wish + 1
    /\ UNCHANGED <<given, config, dialing, session, auth, pc, ret>>

PrefRejected ==
    /\ pc = "prefs" /\ wish <= Len(Wishes)
    /\ Wishes[wish].algos \notin Supported
    /\ Return("ProtocolError")
    /\ UNCHANGED <<given, config, dialing, session, prefs, wish, auth>>

Handshake ==
    /\ pc = "prefs" /\ wish > Len(Wishes)
    /\ session' = "handshaken"
    /\ Goto(IF opts.agent # << >> THEN "agent" ELSE "auth")
    /\ UNCHANGED <<given, config, dialing, prefs, wish, auth>>

HandshakeFails ==
    /\ pc = "prefs" /\ wish > Len(Wishes)
    /\ Return("ProtocolError")
    /\ UNCHANGED <<given, config, dialing, session, prefs, wish, auth>>

-----------------------------------------------------------------------------
(* Authentication.                                                         *)

kept == <<given, config, dialing, session, prefs, wish>>

Offer(kind, what, accepted) ==
    /\ offered' = Append(offered, [kind |-> kind, what |-> what,
                                   user |-> config.username, ok |-> accepted])
    /\ authenticated' = accepted
    /\ UNCHANGED kept

\* No agent, no connection to it, or no list from it: go on without.
AgentFails ==
    /\ pc = "agent"
    /\ Goto("auth")
    /\ UNCHANGED <<kept, auth>>

ListIdentities ==
    /\ pc = "agent"
    /\ Goto("identities") /\ turn' = 1
    /\ UNCHANGED <<kept, authenticated, offered>>

SkipIdentity ==
    /\ pc = "identities" /\ turn <= Len(identities)
    /\ ~pubkey_matches(identities[turn])
    /\ turn' = turn + 1
    /\ UNCHANGED <<kept, authenticated, offered, pc, ret>>

IdentityAccepted ==
    /\ pc = "identities" /\ turn <= Len(identities)
    /\ pubkey_matches(identities[turn])
    /\ Offer("agent", identities[turn], TRUE)
    /\ Return("Ok")
    /\ UNCHANGED turn

IdentityRejected ==
    /\ pc = "identities" /\ turn <= Len(identities)
    /\ pubkey_matches(identities[turn])
    /\ Offer("agent", identities[turn], FALSE)
    /\ turn' = turn + 1
    /\ UNCHANGED <<pc, ret>>

\* Variant of IdentitiesExhausted: the result of the agent is not looked at.
IdentitiesExhaustedOk ==
    /\ pc = "identities" /\ turn > Len(identities)
    /\ Return("Ok")
    /\ UNCHANGED <<kept, auth>>

IdentitiesExhausted ==
    /\ pc = "identities" /\ turn > Len(identities)
    /\ Goto("auth")
    /\ UNCHANGED <<kept, auth>>

\* if !session.authenticated(), which holds whenever this is reached
ChooseKeys ==
    /\ pc = "auth" /\ ~authenticated /\ StoredKey # << >>
    /\ Goto("keys") /\ turn' = 1
    /\ UNCHANGED <<kept, authenticated, offered>>

KeyAccepted ==
    /\ pc = "keys" /\ turn <= Len(Keys)
    /\ Offer("key", Keys[turn], TRUE)
    /\ Return("Ok")
    /\ UNCHANGED turn

\* The server refuses it, or it is of no use (no such file, wrong passphrase).
KeyRejected ==
    /\ pc = "keys" /\ turn <= Len(Keys)
    /\ Offer("key", Keys[turn], FALSE)
    /\ turn' = turn + 1
    /\ UNCHANGED <<pc, ret>>

\* Variant of KeysExhausted: on to the password.
KeysExhaustedPassword ==
    /\ pc = "keys" /\ turn > Len(Keys)
    /\ \E accepted \in BOOLEAN :
          /\ Offer("password", OrElse(opts.password, Empty), accepted)
          /\ Return(IF accepted THEN "Ok" ELSE "AuthenticationFailed")
    /\ UNCHANGED turn

\* The password is not tried when there was a key.
KeysExhausted ==
    /\ pc = "keys" /\ turn > Len(Keys)
    /\ Return("AuthenticationFailed")
    /\ UNCHANGED <<kept, auth>>

Password ==
    /\ pc = "auth" /\ ~authenticated /\ StoredKey = << >>
    /\ \E accepted \in BOOLEAN :
          /\ Offer("password", OrElse(opts.password, Empty), accepted)
          /\ Return(IF accepted THEN "Ok" ELSE "AuthenticationFailed")
    /\ UNCHANGED turn

Terminating == pc = "done" /\ UNCHANGED vars

Dialing == DialFails \/ DialSucceeds
Local == ReadConfig \/ ReadConfigFails \/ NextAttempt \/ GiveUp

Next ==
    \/ Local \/ ResolveHost \/ ResolveFails \/ Dialing
    \/ NewSession \/ NewSessionFails \/ PrefAccepted \/ PrefRejected
    \/ Handshake \/ HandshakeFails
    \/ AgentFails \/ ListIdentities \/ SkipIdentity
    \/ IdentityAccepted \/ IdentityRejected \/ IdentitiesExhausted
    \/ ChooseKeys \/ KeyAccepted \/ KeyRejected \/ KeysExhausted \/ Password
    \/ Terminating

Spec == Init /\ [][Next]_vars

\* What needs no peer, and a dialing that a timeout bounds, comes to its end.
\* Nothing is assumed of the peer, nor of a dialing without timeout.
FairSpec == Spec /\ WF_vars(Local \/ (Bounded /\ Dialing))

-----------------------------------------------------------------------------
(* Correctness.                                                            *)

Places == {"start", "resolve", "dial", "session", "prefs", "agent", "identities",
           "auth", "keys", "done"}
Kinds == {"none", "Ok", "IoError", "BadAddress", "ConnectionError",
          "ProtocolError", "AuthenticationFailed"}
Dials == [to : 1..MaxAddresses, ok : BOOLEAN]
Offers == [kind : {"agent", "key", "password"}, what : Texts, user : Texts,
           ok : BOOLEAN]

GivenOK ==
    /\ opts \in Options /\ file \in HostParams /\ identities \in Agents
    /\ \E params \in HostParams \cup {NoParams} : config = from_params(params, opts)
DialsOK ==
    /\ addresses \in 0..MaxAddresses
    /\ attempt \in Nat /\ nth \in 0..addresses
    /\ dialed \in Seq(Dials)
PrefsOK ==
    /\ prefs \in [MethodTypes -> Supported \cup {"default"}]
    /\ wish \in 1..(Len(Wishes) + 1)
OffersOK ==
    /\ turn \in Nat \ {0}
    /\ authenticated \in BOOLEAN
    /\ offered \in Seq(Offers)

TypeOK ==
    /\ GivenOK /\ DialsOK /\ PrefsOK /\ OffersOK
    /\ session \in {"none", "new", "handshaken"}
    /\ pc \in Places /\ ret \in Kinds

\* Whichever of the agent, the keys and the password ends the search: connect
\* returns Ok exactly when the server accepted a credential, over a session
\* whose handshake was made, and offers nothing more after that.
OkIsAuthenticated ==
    /\ ret = "Ok" => authenticated /\ session = "handshaken"
    /\ authenticated =>
          ret = "Ok" /\ offered # << >> /\ offered[Len(offered)].ok
    /\ \A i \in 1..(Len(offered) - 1) : ~offered[i].ok

What(s) == [i \in DOMAIN s |-> s[i].what]

StartsWith(s, t) == Len(t) <= Len(s) /\ \A i \in DOMAIN t : s[i] = t[i]

\* The credentials of the agent that match (of its first n: Matching[n]), then the
\* keys if the storage has one for the host and the password otherwise.
Matching[n \in 0..Len(identities)] ==
    IF n = 0 THEN << >>
    ELSE IF pubkey_matches(identities[n]) THEN Append(Matching[n - 1], identities[n])
    ELSE Matching[n - 1]
FromAgent == IF opts.agent = << >> THEN << >> ELSE Matching[Len(identities)]
AfterAgent == IF StoredKey # << >> THEN Keys ELSE <<OrElse(opts.password, Empty)>>

\* The server sees the credentials in that order, each once, none left out
\* before another, and never the password after a key; a failed search has
\* offered them all.  An agent that cannot be listed is passed over.
OffersInOrder ==
    /\ \/ StartsWith(FromAgent \o AfterAgent, What(offered))
       \/ StartsWith(AfterAgent, What(offered))
    /\ ret = "AuthenticationFailed" =>
          What(offered) \in {FromAgent \o AfterAgent, AfterAgent}

\* Addresses are dialed in rounds, none after one has answered, and "connection
\* timeout" is reported only when every address was dialed in every attempt.
DialsInRounds ==
    /\ \A i \in DOMAIN dialed :
          /\ dialed[i].to = ((i - 1) % addresses) + 1
          /\ dialed[i].ok => i = Len(dialed)
    /\ Len(dialed) <= addresses * config.connection_attempts
    /\ ret = "ConnectionError" /\ (\A i \in DOMAIN dialed : ~dialed[i].ok) =>
          Len(dialed) = addresses * config.connection_attempts

\* The preferences of a type: the last in the options, else in the file.
Preferred(s, type, otherwise) ==
    IF \E i \in DOMAIN s : s[i].type = type
      THEN s[CHOOSE i \in DOMAIN s :
               s[i].type = type /\ \A j \in DOMAIN s : s[j].type = type => j <= i].algos
      ELSE otherwise

Effective(type) ==
    Preferred(opts.methods, type,
              Preferred(FileWishes(config.params), type, "default"))

\* The handshake is made with the preferences of the options, and with those of
\* the configuration file only where the options have none.
OptionsWin ==
    session = "handshaken" => \A type \in MethodTypes : prefs[type] = Effective(type)

\* The documented order of priority: connect is refused for the sake of a
\* preference only when that preference has priority.
OnlyEffectivePrefsRefuse ==
    ret = "ProtocolError" /\ wish <= Len(Wishes) =>
        Effective(Wishes[wish].type) \notin Supported

\* With a timeout the dialing phase ends, whatever the peers do.
DialingEnds == (pc = "dial" /\ Bounded) ~> pc # "dial"

=============================================================================
