---------------------------- MODULE ConnectProofs ----------------------------
(***************************************************************************)
(* Proofs about Connect, for every set of options, configuration file,     *)
(* agent and number of addresses: a session that is handed out is          *)
(* authenticated, it was negotiated with the preferences of the options    *)
(* where they have any, and addresses and credentials are tried in order.  *)
(*                                                                         *)
(* ConnectInv is the invariant everything rests on; DialInv is the count   *)
(* of the dials that the counters of the two loops stand for, OrderInv is  *)
(* what has been offered, by how far the search is. Both are inductive     *)
(* relative to ConnectInv.                                                 *)
(***************************************************************************)
EXTENDS Connect, SequenceTheorems, Iteration

-----------------------------------------------------------------------------
(* Types of the configuration.                                             *)

\* An optional value with a default is a value.
LEMMA OrElseType ==
  ASSUME NEW S, NEW option \in Optional(S), NEW default \in S
  PROVE  OrElse(option, default) \in S
BY DEF Optional, OrElse

\* The parameters that apply are parameters, whether the file names the host,
\* or there is no file.
LEMMA ParamsType ==
  ASSUME NEW params \in HostParams \cup {NoParams}
  PROVE  params \in Params
<1>1. \A S : << >> \in Optional(S)
  BY DEF Optional
<1>2. NoParams \in Params
  BY <1>1 DEF NoParams, Params
<1> QED
  BY <1>2, ConnectAssumption

\* What the rest of connect reads of the configuration.
ConfigOK(c) ==
    /\ c.host \in Texts /\ c.resolved_host \in Texts /\ c.username \in Texts
    /\ c.connection_attempts \in Nat
    /\ c.params \in Params

\* Config::from_params makes such a configuration.
LEMMA ConfigType ==
  ASSUME NEW params \in HostParams \cup {NoParams}, NEW o \in Options
  PROVE  ConfigOK(from_params(params, o))
<1>1. params \in Params
  BY ParamsType
<1>2. o \in SshOpts
  BY ConnectAssumption
<1>3. /\ params.host_name \in Optional(Texts) /\ params.user \in Optional(Texts)
      /\ params.connection_attempts \in Optional(Nat)
      /\ o.host \in Texts /\ o.username \in Optional(Texts)
  BY <1>1, <1>2 DEF Params, SshOpts
<1>4. resolve_host(params, o) \in Texts
  BY <1>3, OrElseType DEF resolve_host
<1>5. OrElse(params.user, Empty) \in Texts
  <2>1. Empty \in Texts
    BY ConnectAssumption
  <2> QED
    BY <1>3, <2>1, OrElseType
<1>6. resolve_username(params, o) \in Texts
  BY <1>3, <1>5, OrElseType DEF resolve_username
<1>7. resolve_connection_attempts(params) \in Nat
  BY <1>3, OrElseType DEF resolve_connection_attempts
<1> QED
  BY <1>1, <1>3, <1>4, <1>6, <1>7 DEF from_params, ConfigOK

\* One preference of the file.
LEMMA WishType ==
  ASSUME NEW types \in Seq(MethodTypes), NEW algos \in Optional(Algos)
  PROVE  Wish(types, algos) \in Methods
<1>1. CASE algos = << >>
  BY <1>1 DEF Wish, Methods
<1>2. CASE algos # << >>
  <2>1. Head(algos) \in Algos
    BY <1>2 DEF Optional
  <2> DEFINE R == [type : MethodTypes, algos : Algos]
  <2>2. Wish(types, algos) \in [1..Len(types) -> R]
    BY <1>2, <2>1 DEF Wish
  <2> HIDE DEF R
  <2>3. Wish(types, algos) \in Seq(R)
    BY <2>2
  <2> QED
    BY <2>3 DEF Methods, R
<1> QED
  BY <1>1, <1>2

\* All of them.
LEMMA FileWishesType ==
  ASSUME NEW params \in Params
  PROVE  FileWishes(params) \in Methods
<1>1. /\ params.kex \in Optional(Algos) /\ params.host_key \in Optional(Algos)
      /\ params.ciphers \in Optional(Algos) /\ params.mac \in Optional(Algos)
  BY DEF Params
<1>2. /\ <<"Kex">> \in Seq(MethodTypes) /\ <<"HostKey">> \in Seq(MethodTypes)
      /\ <<"CryptCs", "CryptSc">> \in Seq(MethodTypes)
      /\ <<"MacCs", "MacSc">> \in Seq(MethodTypes)
  BY DEF MethodTypes
<1> DEFINE W1 == Wish(<<"Kex">>, params.kex)
           W2 == Wish(<<"HostKey">>, params.host_key)
           W3 == Wish(<<"CryptCs", "CryptSc">>, params.ciphers)
           W4 == Wish(<<"MacCs", "MacSc">>, params.mac)
<1>3. W1 \in Methods /\ W2 \in Methods /\ W3 \in Methods /\ W4 \in Methods
  BY <1>1, <1>2, WishType
<1> HIDE DEF W1, W2, W3, W4
<1>4. ((W1 \o W2) \o W3) \o W4 \in Methods
  BY <1>3 DEF Methods
<1> QED
  BY <1>4 DEF FileWishes, W1, W2, W3, W4

\* What follows from the types, as the steps use it.
Facts ==
    /\ opts \in SshOpts
    /\ identities \in Seq(Texts)
    /\ ConfigOK(config)
    /\ FileWishes(config.params) \in Methods
    /\ opts.methods \in Methods
    /\ Wishes \in Methods
    /\ Keys \in Seq(Texts)

\* The algorithms wished for are algorithms.
LEMMA WishesType ==
  ASSUME NEW params \in Params, NEW methods \in Methods
  PROVE  FileWishes(params) \o methods \in Methods
<1>1. FileWishes(params) \in Methods
  BY FileWishesType
<1> QED
  BY <1>1 DEF Methods

\* What is given has its type.
LEMMA GivenFacts ==
  ASSUME GivenOK
  PROVE  /\ opts \in SshOpts /\ opts.methods \in Methods
         /\ identities \in Seq(Texts)
         /\ ConfigOK(config) /\ config.params \in Params
<1>1. opts \in SshOpts /\ identities \in Seq(Texts)
  BY ConnectAssumption DEF GivenOK
<1>2. opts.methods \in Methods
  BY <1>1 DEF SshOpts
<1>3. ConfigOK(config)
  BY ConfigType DEF GivenOK
<1> QED
  BY <1>1, <1>2, <1>3 DEF ConfigOK

\* And so do the wishes made of it.
LEMMA GivenWishes ==
  ASSUME GivenOK
  PROVE  Wishes \in Methods
BY GivenFacts, WishesType DEF Wishes

\* The facts about types that the steps need.
LEMMA TypeFacts == TypeOK => Facts
<1> SUFFICES ASSUME TypeOK PROVE Facts
  OBVIOUS
<1>1. /\ opts \in SshOpts /\ opts.methods \in Methods
      /\ identities \in Seq(Texts)
      /\ ConfigOK(config) /\ config.params \in Params
  BY GivenFacts DEF TypeOK
<1>2. FileWishes(config.params) \in Methods
  BY <1>1, FileWishesType
<1>3. Wishes \in Methods
  BY GivenWishes DEF TypeOK
<1>4. StoredKey \in Seq(Texts)
  <2>1. /\ <<config.host>> \in Seq(Texts) /\ <<config.resolved_host>> \in Seq(Texts)
        /\ << >> \in Seq(Texts)
    BY <1>1 DEF ConfigOK
  <2> QED
    BY <2>1 DEF StoredKey
<1>5. config.params.identity_file \in Seq(Texts)
  BY <1>1 DEF Params
<1>6. Keys \in Seq(Texts)
  BY <1>4, <1>5 DEF Keys
<1> QED
  BY <1>1, <1>2, <1>3, <1>6 DEF Facts

-----------------------------------------------------------------------------
(* The inductive invariant.                                                *)

\* What each phase has and has not done.
PhaseInv ==
    /\ pc \in {"start", "resolve"} => nth = 0
    /\ pc \in {"start", "resolve", "dial", "session"} => wish = 1 /\ session = "none"
    /\ pc = "prefs" => session = "new"
    /\ pc \in {"agent", "identities", "auth", "keys"} => session = "handshaken"
    /\ session = "handshaken" => wish = Len(Wishes) + 1
    /\ pc # "done" => ret = "none"

\* The server has refused every credential but the last of a success.
AuthInv ==
    /\ authenticated <=> ret = "Ok"
    /\ authenticated => /\ session = "handshaken" /\ offered # << >>
                        /\ offered[Len(offered)].ok
    /\ ~authenticated => \A i \in 1..Len(offered) : ~offered[i].ok
    /\ \A i \in 1..(Len(offered) - 1) : ~offered[i].ok

\* A preference is that of the last wish for its type among those granted.
Granted(type) ==
    \/ /\ prefs[type] = "default"
       /\ \A i \in 1..(wish - 1) : Wishes[i].type # type
    \/ \E i \in 1..(wish - 1) :
          /\ Wishes[i].type = type /\ prefs[type] = Wishes[i].algos
          /\ \A j \in (i + 1)..(wish - 1) : Wishes[j].type # type

PrefsInv == \A type \in MethodTypes : Granted(type)

ConnectInv == TypeOK /\ PhaseInv /\ AuthInv /\ PrefsInv

\* The actions by what they touch.
BeforeSession == ReadConfig \/ ReadConfigFails \/ ResolveHost \/ ResolveFails
                   \/ DialFails \/ DialSucceeds \/ NextAttempt \/ GiveUp
Preparing == NewSession \/ NewSessionFails \/ PrefAccepted \/ PrefRejected
               \/ Handshake \/ HandshakeFails
Offering == IdentityAccepted \/ IdentityRejected \/ KeyAccepted \/ KeyRejected
              \/ Password
Searching == AgentFails \/ ListIdentities \/ SkipIdentity \/ IdentitiesExhausted
               \/ ChooseKeys \/ KeysExhausted

\* A step is one of these.
LEMMA NextGroups ==
  ASSUME [Next]_vars
  PROVE  BeforeSession \/ Preparing \/ Offering \/ Searching \/ UNCHANGED vars
BY DEF Next, Local, Dialing, Terminating, BeforeSession, Preparing, Offering,
       Searching

\* It holds at the start.
LEMMA InitInv == Init => ConnectInv
<1> SUFFICES ASSUME Init PROVE ConnectInv
  OBVIOUS
<1>1. GivenOK
  BY DEF Init, GivenOK
<1>2. DialsOK
  <2>1. MaxAddresses \in Nat
    BY ConnectAssumption
  <2> QED
    BY <2>1 DEF Init, DialsOK
<1>3. OffersOK
  <2>1. turn = 1 /\ authenticated = FALSE /\ offered = << >>
    BY DEF Init
  <2>2. << >> \in Seq(Offers)
    BY EmptySeq
  <2>3. 1 \in Nat \ {0} /\ FALSE \in BOOLEAN
    OBVIOUS
  <2> QED
    BY <2>1, <2>2, <2>3 DEF OffersOK
<1>4. PrefsOK
  <2>1. Wishes \in Methods
    BY <1>1, GivenWishes
  <2>2. wish \in 1..(Len(Wishes) + 1)
    BY <2>1 DEF Init, Methods
  <2> QED
    BY <2>2 DEF Init, PrefsOK
<1>5. TypeOK
  BY <1>1, <1>2, <1>3, <1>4 DEF Init, TypeOK, Places, Kinds
<1>6. PhaseInv /\ AuthInv
  BY DEF Init, PhaseInv, AuthInv
<1>7. PrefsInv
  BY DEF Init, PrefsInv, Granted
<1> QED
  BY <1>5, <1>6, <1>7 DEF ConnectInv

\* The wishes depend on the options and the configuration only.
LEMMA SameWishes ==
  ASSUME UNCHANGED <<opts, config>>
  PROVE  Wishes' = Wishes /\ Keys' = Keys
BY DEF Wishes, Keys, StoredKey

\* The invariant of the preferences outlives what leaves them alone.
LEMMA PrefsKept ==
  ASSUME PrefsOK, PrefsInv, UNCHANGED <<opts, config, prefs, wish>>
  PROVE  PrefsOK' /\ PrefsInv'
BY SameWishes DEF PrefsOK, PrefsInv, Granted

\* Reading the configuration: the wishes change, and none has been granted.
LEMMA ReadConfigInv ==
  ASSUME ConnectInv, ReadConfig
  PROVE  ConnectInv'
<1>1. /\ TypeOK /\ PhaseInv /\ AuthInv /\ PrefsInv
      /\ pc = "start" /\ wish = 1 /\ nth = 0 /\ session = "none" /\ ret = "none"
  BY DEF ConnectInv, PhaseInv, ReadConfig
<1>2. GivenOK'
  BY <1>1 DEF TypeOK, GivenOK, ReadConfig, given
<1>3. DialsOK' /\ OffersOK'
  BY <1>1 DEF TypeOK, DialsOK, OffersOK, ReadConfig, dialing, auth
<1>4. PrefsOK'
  <2>1. Wishes' \in Methods
    <3>1. /\ opts' \in SshOpts /\ opts'.methods \in Methods
          /\ config'.params \in Params
      BY <1>2, ConfigType, ConnectAssumption DEF GivenOK, ConfigOK, SshOpts
    <3> QED
      BY <3>1, WishesType DEF Wishes
  <2>2. wish' \in 1..(Len(Wishes') + 1)
    BY <1>1, <2>1 DEF ReadConfig, Methods
  <2> QED
    BY <1>1, <2>2 DEF TypeOK, PrefsOK, ReadConfig
<1>5. PrefsInv'
  BY <1>1 DEF PrefsInv, Granted, ReadConfig
<1>6. TypeOK'
  BY <1>1, <1>2, <1>3, <1>4 DEF TypeOK, ReadConfig, Goto, Places
<1>7. PhaseInv' /\ AuthInv'
  BY <1>1 DEF PhaseInv, AuthInv, ReadConfig, Goto, dialing, auth
<1> QED
  BY <1>5, <1>6, <1>7 DEF ConnectInv

\* The steps up to the connection.
LEMMA BeforeSessionInv ==
  ASSUME ConnectInv, BeforeSession, ~ReadConfig
  PROVE  ConnectInv'
<1>1. TypeOK /\ PhaseInv /\ AuthInv /\ PrefsInv /\ MaxAddresses \in Nat
  BY ConnectAssumption DEF ConnectInv
<1>2. /\ UNCHANGED <<given, config, session, prefs, wish, auth>>
      /\ pc \in {"start", "resolve", "dial"}
  BY DEF BeforeSession, ReadConfigFails, ResolveHost, ResolveFails, DialFails, Dial,
         DialSucceeds, NextAttempt, GiveUp, More
<1>3. GivenOK' /\ OffersOK' /\ PrefsOK' /\ PrefsInv'
  BY <1>1, <1>2, PrefsKept DEF TypeOK, GivenOK, OffersOK, given, auth
<1>4. DialsOK'
  <2>1. CASE UNCHANGED dialing
    BY <1>1, <2>1 DEF TypeOK, DialsOK, dialing
  <2>2. CASE ResolveHost
    BY <1>1, <2>2 DEF TypeOK, DialsOK, ResolveHost, PhaseInv
  <2>3. ASSUME NEW answered \in BOOLEAN, Dial(answered)
        PROVE  dialed' \in Seq(Dials)
    <3>1. [to |-> nth + 1, ok |-> answered] \in Dials
      BY <1>1, <2>3 DEF TypeOK, DialsOK, Dial, Dials
    <3> QED
      BY <1>1, <2>3, <3>1 DEF TypeOK, DialsOK, Dial
  <2>4. CASE DialFails
    <3>1. dialed' \in Seq(Dials)
      BY <2>3, <2>4 DEF DialFails
    <3>2. /\ nth' = nth + 1 /\ nth < addresses
          /\ UNCHANGED <<addresses, attempt>>
      BY <2>4 DEF DialFails, Dial
    <3> QED
      BY <1>1, <3>1, <3>2 DEF TypeOK, DialsOK
  <2>5. CASE DialSucceeds
    BY <1>1, <2>3, <2>5 DEF TypeOK, DialsOK, DialSucceeds
  <2>6. CASE NextAttempt
    BY <1>1, <2>6 DEF TypeOK, DialsOK, NextAttempt
  <2> QED
    BY <2>1, <2>2, <2>4, <2>5, <2>6
    DEF BeforeSession, ReadConfigFails, ResolveFails, GiveUp
<1>5. pc' \in Places /\ ret' \in Kinds
  BY <1>1 DEF BeforeSession, ReadConfigFails, ResolveHost, ResolveFails, DialFails,
              DialSucceeds, NextAttempt, GiveUp, Goto, Return, Places, Kinds, TypeOK
<1>6. TypeOK'
  BY <1>1, <1>2, <1>3, <1>4, <1>5 DEF TypeOK
<1>7. /\ ret' = "none" \/ (pc' = "done" /\ ret' \notin {"none", "Ok"})
      /\ pc' \in {"resolve", "dial", "session", "done"}
      /\ pc' = "resolve" => FALSE
  BY <1>1, <1>2 DEF PhaseInv, BeforeSession, ReadConfigFails, ResolveHost,
              ResolveFails, DialFails, Dial, More,
              DialSucceeds, NextAttempt, GiveUp, Goto, Return
<1>8. PhaseInv' /\ AuthInv'
  BY <1>1, <1>2, <1>7, SameWishes DEF PhaseInv, AuthInv, given, auth
<1> QED
  BY <1>3, <1>6, <1>8 DEF ConnectInv

\* The steps that make the session.
LEMMA PreparingInv ==
  ASSUME ConnectInv, Preparing
  PROVE  ConnectInv'
<1>1. /\ TypeOK /\ PhaseInv /\ AuthInv /\ PrefsInv /\ Wishes \in Methods
      /\ wish \in 1..(Len(Wishes) + 1) /\ Len(Wishes) \in Nat
  <2>1. TypeOK /\ PhaseInv /\ AuthInv /\ PrefsInv
    BY DEF ConnectInv
  <2>2. Wishes \in Methods
    BY <2>1, GivenWishes DEF TypeOK
  <2> QED
    BY <2>1, <2>2 DEF TypeOK, PrefsOK, Methods
<1>2. /\ UNCHANGED <<given, config, dialing, auth>>
      /\ pc \in {"session", "prefs"}
  BY DEF Preparing, NewSession, NewSessionFails, PrefAccepted, PrefRejected,
         Handshake, HandshakeFails
<1>3. ret = "none" /\ ~authenticated
  BY <1>1, <1>2 DEF PhaseInv, AuthInv
<1>4. GivenOK' /\ DialsOK' /\ OffersOK'
  BY <1>1, <1>2 DEF TypeOK, GivenOK, DialsOK, OffersOK, given, dialing, auth
<1>5. Wishes' = Wishes
  BY <1>2, SameWishes DEF given
<1>6. PrefsOK' /\ PrefsInv'
  <2>1. CASE UNCHANGED <<prefs, wish>>
    BY <1>1, <1>2, <2>1, PrefsKept DEF TypeOK, given
  <2>2. CASE PrefAccepted
    <3> DEFINE W == Wishes[wish]
    <3>1. W \in [type : MethodTypes, algos : Algos] /\ wish \in 1..Len(Wishes)
      <4>1. wish \in 1..Len(Wishes)
        BY <1>1, <2>2 DEF PrefAccepted
      <4> QED
        BY <1>1, <4>1, ElementOfSeq DEF Methods
    <3>2. /\ prefs \in [MethodTypes -> Supported \cup {"default"}]
          /\ prefs' = [prefs EXCEPT ![W.type] = W.algos] /\ W.algos \in Supported
          /\ wish' = wish + 1
      BY <1>1, <2>2 DEF PrefAccepted, TypeOK, PrefsOK
    <3>3. PrefsOK'
      BY <1>1, <1>5, <3>1, <3>2 DEF PrefsOK
    <3>4. ASSUME NEW type \in MethodTypes PROVE Granted(type)'
      <4>1. CASE type = W.type
        <5>1. prefs'[type] = W.algos
          BY <3>1, <3>2, <4>1
        <5>2. /\ wish \in 1..(wish' - 1) /\ Wishes'[wish].type = type
              /\ prefs'[type] = Wishes'[wish].algos
              /\ \A j \in (wish + 1)..(wish' - 1) : Wishes'[j].type # type
          BY <1>5, <3>1, <3>2, <4>1, <5>1
        <5> QED
          BY <5>2 DEF Granted
      <4>2. CASE type # W.type
        <5>1. prefs'[type] = prefs[type]
          BY <3>1, <3>2, <4>2
        <5>2. Granted(type)
          BY <1>1 DEF PrefsInv
        <5>3. \A i : i \in 1..(wish' - 1) <=> i \in 1..(wish - 1) \/ i = wish
          BY <3>1, <3>2
        <5>4. \A i, j : i \in 1..(wish - 1) /\ j \in (i + 1)..(wish' - 1) =>
                          j \in (i + 1)..(wish - 1) \/ j = wish
          BY <3>1, <3>2
        <5>5. CASE prefs[type] = "default" /\ \A i \in 1..(wish - 1) : Wishes[i].type # type
          BY <1>5, <4>2, <5>1, <5>3, <5>5 DEF Granted
        <5>6. CASE \E i \in 1..(wish - 1) :
                      /\ Wishes[i].type = type /\ prefs[type] = Wishes[i].algos
                      /\ \A j \in (i + 1)..(wish - 1) : Wishes[j].type # type
          BY <1>5, <4>2, <5>1, <5>3, <5>4, <5>6 DEF Granted
        <5> QED
          BY <5>2, <5>5, <5>6 DEF Granted
      <4> QED
        BY <4>1, <4>2
    <3> QED
      BY <3>3, <3>4 DEF PrefsInv
  <2> QED
    BY <2>1, <2>2
    DEF Preparing, NewSession, NewSessionFails, PrefRejected, Handshake, HandshakeFails
<1>7. /\ pc' \in {"prefs", "agent", "auth", "done"}
      /\ pc' # "done" => ret' = "none"
      /\ ret' \in {"none", "ConnectionError", "ProtocolError"}
      /\ session' \in {"none", "new", "handshaken"}
      /\ pc' = "prefs" => session' = "new"
      /\ pc' \in {"agent", "auth"} => session' = "handshaken"
      /\ session' = "handshaken" => wish' = Len(Wishes) + 1
  BY <1>1, <1>2, <1>3
  DEF Preparing, NewSession, NewSessionFails, PrefAccepted, PrefRejected, Handshake,
      HandshakeFails, Goto, Return, PhaseInv
<1>8. TypeOK'
  BY <1>4, <1>6, <1>7 DEF TypeOK, Places, Kinds
<1>9. PhaseInv'
  BY <1>5, <1>7 DEF PhaseInv
<1>10. AuthInv'
  BY <1>1, <1>2, <1>3, <1>7 DEF AuthInv, auth
<1> QED
  BY <1>6, <1>8, <1>9, <1>10 DEF ConnectInv

\* A credential is offered when none has been accepted.
LEMMA OfferInv ==
  ASSUME ConnectInv, pc \in {"identities", "auth", "keys"},
         NEW kind \in {"agent", "key", "password"}, NEW what \in Texts,
         NEW accepted \in BOOLEAN, Offer(kind, what, accepted),
         turn' \in {turn, turn + 1},
         \/ accepted /\ Return("Ok")
         \/ ~accepted /\ (Return("AuthenticationFailed") \/ UNCHANGED <<pc, ret>>)
  PROVE  ConnectInv'
<1>1. /\ TypeOK /\ PhaseInv /\ AuthInv /\ PrefsInv /\ ConfigOK(config)
      /\ session = "handshaken" /\ ret = "none" /\ ~authenticated
  BY TypeFacts DEF ConnectInv, PhaseInv, AuthInv, Facts
<1>2. UNCHANGED <<given, config, dialing, session, prefs, wish>>
  BY DEF Offer, kept
<1>3. GivenOK' /\ DialsOK' /\ PrefsOK' /\ PrefsInv'
  BY <1>1, <1>2, PrefsKept DEF TypeOK, GivenOK, DialsOK, given, dialing
<1> DEFINE new == [kind |-> kind, what |-> what, user |-> config.username,
                   ok |-> accepted]
<1>4. /\ offered \in Seq(Offers) /\ new \in Offers
      /\ offered' = Append(offered, new) /\ authenticated' = accepted
  BY <1>1 DEF TypeOK, OffersOK, Offers, ConfigOK, Offer
<1>5. /\ offered' \in Seq(Offers) /\ Len(offered') = Len(offered) + 1
      /\ offered'[Len(offered')] = new
      /\ \A i \in 1..Len(offered) : offered'[i] = offered[i]
  <2> HIDE DEF new
  <2> QED
    BY <1>4
<1>6. OffersOK'
  BY <1>1, <1>4, <1>5 DEF TypeOK, OffersOK
<1>7. /\ pc' \in {"identities", "auth", "keys", "done"}
      /\ pc' # "done" => ret' = "none"
      /\ ret' \in {"none", "Ok", "AuthenticationFailed"}
      /\ ret' = "Ok" <=> accepted
  BY <1>1 DEF Return
<1>8. TypeOK'
  BY <1>1, <1>2, <1>3, <1>6, <1>7 DEF TypeOK, Places, Kinds
<1>9. PhaseInv'
  BY <1>1, <1>2, <1>7, SameWishes DEF PhaseInv, given
<1>10. AuthInv'
  <2>1. Len(offered) \in Nat /\ new.ok = accepted
    BY <1>4
  <2>2. \A i \in 1..Len(offered) : ~offered'[i].ok
    BY <1>1, <1>5 DEF AuthInv
  <2> HIDE DEF new
  <2>3. \A i \in 1..(Len(offered') - 1) : ~offered'[i].ok
    BY <1>5, <2>1, <2>2
  <2>4. ~accepted => \A i \in 1..Len(offered') : ~offered'[i].ok
    BY <1>5, <2>1, <2>2
  <2>5. offered' # << >>
    BY <1>5, <2>1
  <2> QED
    BY <1>1, <1>2, <1>4, <1>5, <1>7, <2>1, <2>3, <2>4, <2>5 DEF AuthInv
<1> QED
  BY <1>3, <1>8, <1>9, <1>10 DEF ConnectInv

\* Each credential comes from the agent, the keys or the options.
LEMMA OfferingInv ==
  ASSUME ConnectInv, Offering
  PROVE  ConnectInv'
<1>1. /\ identities \in Seq(Texts) /\ Keys \in Seq(Texts)
      /\ turn \in Nat \ {0} /\ opts \in SshOpts
  BY TypeFacts DEF ConnectInv, Facts, TypeOK, OffersOK
<1>2. CASE IdentityAccepted \/ IdentityRejected
  <2>1. turn \in 1..Len(identities)
    <3>1. turn <= Len(identities)
      BY <1>2 DEF IdentityAccepted, IdentityRejected
    <3> QED
      BY <1>1, <3>1
  <2>2. identities[turn] \in Texts
    BY <1>1, <2>1, ElementOfSeq
  <2> QED
    BY <1>2, <2>2, OfferInv DEF IdentityAccepted, IdentityRejected
<1>3. CASE KeyAccepted \/ KeyRejected
  <2>1. turn \in 1..Len(Keys)
    <3>1. turn <= Len(Keys)
      BY <1>3 DEF KeyAccepted, KeyRejected
    <3> QED
      BY <1>1, <3>1
  <2>2. Keys[turn] \in Texts
    BY <1>1, <2>1, ElementOfSeq
  <2> QED
    BY <1>3, <2>2, OfferInv DEF KeyAccepted, KeyRejected
<1>4. CASE Password
  <2>1. OrElse(opts.password, Empty) \in Texts
    BY <1>1, OrElseType, ConnectAssumption DEF SshOpts
  <2>2. PICK accepted \in BOOLEAN :
          /\ Offer("password", OrElse(opts.password, Empty), accepted)
          /\ Return(IF accepted THEN "Ok" ELSE "AuthenticationFailed")
    BY <1>4 DEF Password
  <2> QED
    BY <1>4, <2>1, <2>2, OfferInv DEF Password
<1> QED
  BY <1>2, <1>3, <1>4 DEF Offering

\* The steps between the offers.
LEMMA SearchingInv ==
  ASSUME ConnectInv, Searching
  PROVE  ConnectInv'
<1>1. /\ TypeOK /\ PhaseInv /\ AuthInv /\ PrefsInv
  BY DEF ConnectInv
<1>2. /\ UNCHANGED <<given, config, dialing, session, prefs, wish, authenticated,
                     offered>>
      /\ pc \in {"agent", "identities", "auth", "keys"}
      /\ turn' \in {1, turn, turn + 1}
      /\ pc' \in {"identities", "auth", "keys", "done"}
      /\ \/ ret' = ret /\ pc' # "done"
         \/ ret' = "AuthenticationFailed" /\ pc' = "done"
  BY DEF Searching, AgentFails, ListIdentities, SkipIdentity, IdentitiesExhausted,
         ChooseKeys, KeysExhausted, Goto, Return, kept, auth
<1>3. session = "handshaken" /\ ret = "none"
  BY <1>1, <1>2 DEF PhaseInv
<1>4. GivenOK' /\ DialsOK' /\ PrefsOK' /\ PrefsInv'
  BY <1>1, <1>2, PrefsKept DEF TypeOK, GivenOK, DialsOK, given, dialing
<1>5. OffersOK'
  BY <1>1, <1>2 DEF TypeOK, OffersOK
<1>6. TypeOK'
  BY <1>1, <1>2, <1>3, <1>4, <1>5 DEF TypeOK, Places, Kinds
<1>7. PhaseInv'
  BY <1>1, <1>2, <1>3, SameWishes DEF PhaseInv, given
<1>8. AuthInv'
  BY <1>1, <1>2, <1>3 DEF AuthInv
<1> QED
  BY <1>4, <1>6, <1>7, <1>8 DEF ConnectInv

\* Nothing happens.
LEMMA StutterInv ==
  ASSUME ConnectInv, UNCHANGED vars
  PROVE  ConnectInv'
<1>1. UNCHANGED <<opts, config, prefs, wish>>
  BY DEF vars, given
<1>2. PrefsOK' /\ PrefsInv' /\ Wishes' = Wishes
  BY <1>1, PrefsKept, SameWishes DEF ConnectInv, TypeOK
<1> QED
  BY <1>2 DEF ConnectInv, TypeOK, GivenOK, DialsOK, OffersOK, PhaseInv, AuthInv, vars,
              given, dialing, auth

\* Every step preserves the invariant.
LEMMA NextInv ==
  ASSUME ConnectInv, [Next]_vars
  PROVE  ConnectInv'
BY NextGroups, ReadConfigInv, BeforeSessionInv, PreparingInv, OfferingInv,
   SearchingInv, StutterInv

\* The inductive invariant holds, whatever the network, the agent and the server
\* answer.
THEOREM ConnectInvariant == Spec => []ConnectInv
<1>1. Init => ConnectInv
  BY InitInv
<1>2. ConnectInv /\ [Next]_vars => ConnectInv'
  BY NextInv
<1> QED
  BY <1>1, <1>2, PTL DEF Spec

\* The state has its type.
THEOREM TypeCorrect == Spec => []TypeOK
<1>1. ConnectInv => TypeOK
  BY DEF ConnectInv
<1> QED
  BY <1>1, ConnectInvariant, PTL

\* connect returns Ok exactly for a session whose handshake was made and in which
\* the server accepted the last credential offered, and no other.
THEOREM AuthenticatedSession == Spec => []OkIsAuthenticated
<1>1. ConnectInv => OkIsAuthenticated
  BY DEF ConnectInv, AuthInv, OkIsAuthenticated
<1> QED
  BY <1>1, ConnectInvariant, PTL

-----------------------------------------------------------------------------
(* The preferences the handshake is made with.                             *)

\* Preferred takes the last preference for the type ...
LEMMA PreferredLast ==
  ASSUME NEW s \in Methods, NEW type, NEW otherwise, NEW i \in 1..Len(s),
         s[i].type = type,
         \A j \in 1..Len(s) : s[j].type = type => j <= i
  PROVE  Preferred(s, type, otherwise) = s[i].algos
<1> DEFINE Last(k) == s[k].type = type /\ \A j \in DOMAIN s : s[j].type = type => j <= k
<1>1. DOMAIN s = 1..Len(s) /\ Len(s) \in Nat
  BY DEF Methods
<1>2. i \in DOMAIN s /\ Last(i)
  BY <1>1
<1>3. \A k \in DOMAIN s : Last(k) => k = i
  BY <1>1
<1>4. (CHOOSE k \in DOMAIN s : Last(k)) = i
  <2> HIDE DEF Last
  <2> QED
    BY <1>2, <1>3
<1> QED
  BY <1>2, <1>4 DEF Preferred

\* ... and leaves a type without one as it was.
LEMMA PreferredNone ==
  ASSUME NEW s \in Methods, NEW type, NEW otherwise,
         \A j \in 1..Len(s) : s[j].type # type
  PROVE  Preferred(s, type, otherwise) = otherwise
<1>1. DOMAIN s = 1..Len(s)
  BY DEF Methods
<1> QED
  BY <1>1 DEF Preferred

\* The last wish granted for a type is the last of the options, and that of the
\* file only if the options have none.
LEMMA LastWishIsEffective ==
  ASSUME ConnectInv, session = "handshaken", NEW type \in MethodTypes
  PROVE  prefs[type] = Effective(type)
<1> DEFINE F == FileWishes(config.params)
           M == opts.methods
           n == Len(F)
           m == Len(M)
<1>1. /\ F \in Methods /\ M \in Methods /\ Wishes = F \o M
      /\ wish = Len(Wishes) + 1 /\ Granted(type)
  BY TypeFacts DEF ConnectInv, Facts, PhaseInv, PrefsInv, Wishes
<1>2. Effective(type) = Preferred(M, type, Preferred(F, type, "default"))
  BY DEF Effective
<1> HIDE DEF F, M
<1>3. /\ n \in Nat /\ m \in Nat /\ wish - 1 = n + m
      /\ \A i \in 1..n : Wishes[i] = F[i]
      /\ \A i \in 1..m : Wishes[n + i] = M[i]
  BY <1>1 DEF Methods
<1> HIDE DEF n, m
<1>4. CASE prefs[type] = "default" /\ \A i \in 1..(wish - 1) : Wishes[i].type # type
  <2>1. \A i \in 1..n : F[i].type # type
    BY <1>3, <1>4
  <2>2. \A i \in 1..m : M[i].type # type
    BY <1>3, <1>4
  <2> QED
    BY <1>1, <1>2, <1>4, <2>1, <2>2, PreferredNone DEF n, m
<1>5. CASE \E i \in 1..(wish - 1) :
              /\ Wishes[i].type = type /\ prefs[type] = Wishes[i].algos
              /\ \A j \in (i + 1)..(wish - 1) : Wishes[j].type # type
  <2>1. PICK i \in 1..(n + m) :
              /\ Wishes[i].type = type /\ prefs[type] = Wishes[i].algos
              /\ \A j \in (i + 1)..(n + m) : Wishes[j].type # type
    BY <1>3, <1>5
  <2>2. CASE i <= n
    <3>1. \A j \in 1..m : M[j].type # type
      BY <1>3, <2>1, <2>2
    <3>2. i \in 1..n /\ F[i].type = type /\ prefs[type] = F[i].algos
      BY <1>3, <2>1, <2>2
    <3>3. \A j \in 1..n : F[j].type = type => j <= i
      BY <1>3, <2>1, <2>2
    <3>4. Preferred(F, type, "default") = F[i].algos
      BY <1>1, <3>2, <3>3, PreferredLast DEF n
    <3> QED
      BY <1>1, <1>2, <3>1, <3>2, <3>4, PreferredNone DEF m
  <2>3. CASE i > n
    <3> DEFINE k == i - n
    <3>1. /\ k \in 1..m /\ n + k = i
      BY <1>3, <2>1, <2>3
    <3>2. M[k].type = type /\ prefs[type] = M[k].algos
      BY <1>3, <2>1, <3>1
    <3>3. \A j \in 1..m : M[j].type = type => j <= k
      BY <1>3, <2>1, <3>1
    <3> HIDE DEF k
    <3> QED
      BY <1>1, <1>2, <3>1, <3>2, <3>3, PreferredLast, ZenonT(60) DEF m
  <2> QED
    BY <1>3, <2>1, <2>2, <2>3
<1> QED
  BY <1>1, <1>4, <1>5 DEF Granted

\* The handshake is made with the preferences of the options, and with those of
\* the configuration file only where the options have none.
THEOREM PreferencesOfTheOptions == Spec => []OptionsWin
<1>1. ConnectInv => OptionsWin
  BY LastWishIsEffective DEF OptionsWin
<1> QED
  BY <1>1, ConnectInvariant, PTL

-----------------------------------------------------------------------------
(* The rounds of the dials.                                                *)

AnyDialed == \E i \in DOMAIN dialed : dialed[i].ok

\* Where the dialing loops are is what the dials so far say.
DialInv ==
    /\ pc \in {"start", "resolve"} => dialed = << >> /\ attempt = 0 /\ nth = 0
    /\ \A i \in DOMAIN dialed :
          /\ dialed[i].to = ((i - 1) % addresses) + 1
          /\ dialed[i].ok => i = Len(dialed)
    /\ pc = "dial" =>
          /\ ~AnyDialed
          /\ attempt <= config.connection_attempts
          /\ attempt = config.connection_attempts => nth = 0
          /\ Len(dialed) = addresses * attempt + nth
    /\ Len(dialed) <= addresses * config.connection_attempts
    /\ pc \notin {"start", "resolve", "dial", "done"} => AnyDialed
    /\ ret = "ConnectionError" /\ ~AnyDialed =>
          Len(dialed) = addresses * config.connection_attempts

\* The n-th address is dialed in the round that the number of dials says.
LEMMA RoundOf ==
  ASSUME NEW a \in Nat, NEW k \in Nat, NEW n \in 0..a - 1
  PROVE  (a * k + n) % a = n
OBVIOUS

\* More attempts, more dials.
LEMMA Rounds ==
  ASSUME NEW a \in Nat, NEW k \in Nat, NEW n \in Nat, k <= n
  PROVE  a * k <= a * n
OBVIOUS

\* No attempt, no dial.
LEMMA NoRounds ==
  ASSUME NEW a \in Nat, NEW n \in Nat
  PROVE  a * n \in Nat /\ a * 0 = 0
OBVIOUS

\* What the dialing loops rest on.
LEMMA DialFacts ==
  ASSUME ConnectInv
  PROVE  /\ addresses \in Nat /\ attempt \in Nat /\ nth \in 0..addresses
         /\ config.connection_attempts \in Nat
         /\ dialed \in Seq(Dials) /\ Len(dialed) \in Nat /\ DOMAIN dialed = 1..Len(dialed)
<1>1. MaxAddresses \in Nat
  BY ConnectAssumption
<1>2. DialsOK
  BY DEF ConnectInv, TypeOK
<1>3. ConfigOK(config)
  BY TypeFacts DEF ConnectInv, Facts
<1> QED
  BY <1>1, <1>2, <1>3 DEF DialsOK, ConfigOK

\* Nothing has been dialed yet.
LEMMA DialInit == Init => DialInv
<1> SUFFICES ASSUME Init PROVE DialInv
  OBVIOUS
<1>1. /\ pc = "start" /\ ret = "none" /\ addresses = 0 /\ attempt = 0 /\ nth = 0
      /\ dialed = << >>
  BY DEF Init
<1>2. config.connection_attempts \in Nat
  BY InitInv, DialFacts
<1>3. DOMAIN dialed = {} /\ Len(dialed) = 0
  BY <1>1
<1> QED
  BY <1>1, <1>2, <1>3 DEF DialInv

\* One address is dialed.
LEMMA DialGrows ==
  ASSUME ConnectInv, DialInv, NEW answered \in BOOLEAN, Dial(answered)
  PROVE  /\ Len(dialed') = Len(dialed) + 1
         /\ Len(dialed') = addresses * attempt + nth + 1
         /\ Len(dialed') <= addresses * config.connection_attempts
         /\ \A i \in DOMAIN dialed' :
               /\ dialed'[i].to = ((i - 1) % addresses) + 1
               /\ dialed'[i].ok <=> i = Len(dialed') /\ answered
<1> DEFINE new == [to |-> nth + 1, ok |-> answered]
<1>1. /\ pc = "dial" /\ attempt < config.connection_attempts /\ nth < addresses
      /\ dialed' = Append(dialed, new)
  BY DEF Dial, More
<1>2. /\ addresses \in Nat /\ attempt \in Nat /\ nth \in 0..addresses - 1
      /\ config.connection_attempts \in Nat
      /\ dialed \in Seq(Dials) /\ Len(dialed) \in Nat /\ DOMAIN dialed = 1..Len(dialed)
  BY <1>1, DialFacts
<1>3. /\ ~AnyDialed /\ Len(dialed) = addresses * attempt + nth
      /\ \A i \in DOMAIN dialed : dialed[i].to = ((i - 1) % addresses) + 1
  BY <1>1 DEF DialInv
<1>4. new.to = nth + 1 /\ new.ok = answered
  OBVIOUS
<1> HIDE DEF new
<1>5. /\ Len(dialed') = Len(dialed) + 1 /\ DOMAIN dialed' = 1..Len(dialed) + 1
      /\ \A i \in 1..Len(dialed) : dialed'[i] = dialed[i]
      /\ dialed'[Len(dialed) + 1] = new
  BY <1>1, <1>2
<1>6. (addresses * attempt + nth) % addresses = nth
  BY <1>2, RoundOf
<1>7. ASSUME NEW i \in DOMAIN dialed'
      PROVE  /\ dialed'[i].to = ((i - 1) % addresses) + 1
             /\ dialed'[i].ok <=> i = Len(dialed') /\ answered
  <2>1. CASE i = Len(dialed) + 1
    <3>1. (i - 1) % addresses = nth
      BY <1>2, <1>3, <1>6, <2>1
    <3> QED
      BY <1>4, <1>5, <2>1, <3>1
  <2>2. CASE i \in 1..Len(dialed)
    BY <1>2, <1>3, <1>5, <2>2 DEF AnyDialed
  <2> QED
    BY <1>2, <1>5, <2>1, <2>2
<1>8. addresses * (attempt + 1) <= addresses * config.connection_attempts
  BY <1>1, <1>2, Rounds, SMTT(60)
<1>9. addresses * (attempt + 1) = addresses * attempt + addresses
  BY <1>2
<1>10. addresses * attempt \in Nat /\ addresses * config.connection_attempts \in Nat
  BY <1>2
<1>11. Len(dialed') <= addresses * config.connection_attempts
  <2> DEFINE p == addresses * attempt
             q == addresses * config.connection_attempts
  <2>1. p + addresses <= q /\ p \in Nat /\ q \in Nat
    BY <1>8, <1>9, <1>10
  <2>2. Len(dialed') = p + nth + 1
    BY <1>3, <1>5
  <2> HIDE DEF p, q
  <2>3. Len(dialed') <= q
    BY <1>2, <2>1, <2>2
  <2> QED
    BY <2>3 DEF q
<1> QED
  BY <1>3, <1>5, <1>7, <1>11

\* A step that leaves the dials alone.
LEMMA DialKept ==
  ASSUME ConnectInv, DialInv, UNCHANGED <<addresses, attempt, nth, dialed, config>>,
         pc' # pc => pc' # "dial",
         pc' \in {"start", "resolve"} => pc' = pc,
         pc' \notin {"start", "resolve", "dial", "done"} => AnyDialed,
         ret' = "ConnectionError" /\ ~AnyDialed =>
           ret = ret' \/ Len(dialed) = addresses * config.connection_attempts
  PROVE  DialInv'
<1>1. AnyDialed' <=> AnyDialed
  BY DEF AnyDialed
<1> QED
  BY <1>1 DEF DialInv

\* The steps of the dialing loops.
LEMMA DialingInv ==
  ASSUME ConnectInv, DialInv, DialFails \/ DialSucceeds \/ NextAttempt
  PROVE  DialInv'
<1> DEFINE N == config.connection_attempts
<1>1. /\ addresses \in Nat /\ attempt \in Nat /\ nth \in 0..addresses /\ N \in Nat
      /\ Len(dialed) \in Nat /\ DOMAIN dialed = 1..Len(dialed)
  BY DialFacts
<1>2. /\ pc = "dial" /\ attempt < N /\ ret = "none"
      /\ UNCHANGED <<addresses, config>>
  BY DEF DialFails, DialSucceeds, NextAttempt, Dial, More, ConnectInv, PhaseInv
<1>3. /\ ~AnyDialed /\ Len(dialed) = addresses * attempt + nth
      /\ Len(dialed) <= addresses * N
      /\ \A i \in DOMAIN dialed :
            /\ dialed[i].to = ((i - 1) % addresses) + 1
            /\ dialed[i].ok => i = Len(dialed)
  BY <1>2 DEF DialInv
<1>4. CASE DialFails
  <2>1. Dial(FALSE) /\ pc' = pc /\ ret' = ret /\ nth' = nth + 1 /\ attempt' = attempt
    BY <1>4 DEF DialFails
  <2>2. /\ Len(dialed') = addresses * attempt + nth + 1
        /\ Len(dialed') <= addresses * N
        /\ \A i \in DOMAIN dialed' :
              /\ dialed'[i].to = ((i - 1) % addresses) + 1
              /\ ~dialed'[i].ok
    BY <2>1, DialGrows
  <2>3. addresses * attempt \in Nat
    BY <1>1
  <2> QED
    BY <1>1, <1>2, <2>1, <2>2, <2>3 DEF DialInv, AnyDialed
<1>5. CASE DialSucceeds
  <2>1. Dial(TRUE) /\ pc' = "session" /\ ret' = ret
    BY <1>5 DEF DialSucceeds, Goto
  <2>2. /\ Len(dialed') = Len(dialed) + 1
        /\ Len(dialed') <= addresses * N
        /\ \A i \in DOMAIN dialed' :
              /\ dialed'[i].to = ((i - 1) % addresses) + 1
              /\ dialed'[i].ok <=> i = Len(dialed')
    BY <2>1, DialGrows
  <2>3. Len(dialed') \in DOMAIN dialed'
    <3>1. dialed' = Append(dialed, [to |-> nth + 1, ok |-> TRUE])
      BY <2>1 DEF Dial
    <3>2. dialed \in Seq(Dials)
      BY DialFacts
    <3> QED
      BY <1>1, <3>1, <3>2
  <2> QED
    BY <1>2, <2>1, <2>2, <2>3 DEF DialInv, AnyDialed
<1>6. CASE NextAttempt
  <2>1. /\ nth = addresses /\ attempt' = attempt + 1 /\ nth' = 0
        /\ UNCHANGED <<dialed, pc, ret>>
    BY <1>1, <1>6 DEF NextAttempt
  <2>2. addresses * (attempt + 1) = addresses * attempt + addresses
    BY <1>1
  <2>3. AnyDialed' <=> AnyDialed
    BY <2>1 DEF AnyDialed
  <2> QED
    BY <1>1, <1>2, <1>3, <2>1, <2>2, <2>3 DEF DialInv
<1> QED
  BY <1>4, <1>5, <1>6

\* The steps before them: nothing has been dialed.
LEMMA UndialedInv ==
  ASSUME ConnectInv, DialInv, ReadConfig \/ ResolveHost
  PROVE  DialInv'
<1>1. /\ pc \in {"start", "resolve"} /\ ret = "none" /\ ret' = "none"
      /\ dialed = << >> /\ attempt = 0 /\ nth = 0
      /\ UNCHANGED <<dialed, attempt, nth>>
  BY DEF ReadConfig, ResolveHost, Goto, ConnectInv, PhaseInv, DialInv, dialing
<1>2. /\ DOMAIN dialed' = {} /\ Len(dialed') = 0 /\ ~AnyDialed'
  BY <1>1 DEF AnyDialed
<1>3. addresses' \in Nat /\ config'.connection_attempts \in Nat
  <2>1. addresses \in Nat /\ config.connection_attempts \in Nat
    BY DialFacts
  <2>2. CASE ReadConfig
    <3>1. \E params \in HostParams \cup {NoParams} : config' = from_params(params, opts)
      BY <2>2 DEF ReadConfig, ConnectInv, TypeOK, GivenOK
    <3>2. opts \in Options
      BY DEF ConnectInv, TypeOK, GivenOK
    <3>3. ConfigOK(config')
      BY <3>1, <3>2, ConfigType
    <3> QED
      BY <2>1, <2>2, <3>3 DEF ReadConfig, dialing, ConfigOK
  <2>3. CASE ResolveHost
    BY <2>1, <2>3, ConnectAssumption DEF ResolveHost
  <2> QED
    BY <2>2, <2>3
<1>4. /\ addresses' * config'.connection_attempts \in Nat
      /\ addresses' * 0 = 0
  BY <1>3, NoRounds
<1>5. pc' \in {"resolve", "dial"}
  BY DEF ReadConfig, ResolveHost, Goto
<1>6. addresses' * attempt' + nth' = 0
  BY <1>1, <1>4
<1> DEFINE p == addresses' * config'.connection_attempts
<1> HIDE DEF p
<1>7. 0 <= p
  BY <1>4 DEF p
<1>8. pc' = "dial" => attempt' <= config'.connection_attempts
  BY <1>1, <1>3
<1> QED
  BY <1>1, <1>2, <1>5, <1>6, <1>7, <1>8 DEF DialInv, p

\* The steps that dial no more.
LEMMA DialedInv ==
  ASSUME ConnectInv, DialInv, [Next]_vars,
         ~(ReadConfig \/ ResolveHost \/ DialFails \/ DialSucceeds \/ NextAttempt)
  PROVE  DialInv'
<1>1. UNCHANGED <<addresses, attempt, nth, dialed, config>>
  BY DEF Next, Local, Dialing, Terminating, vars, ReadConfigFails, ResolveFails, GiveUp,
     NewSession, NewSessionFails, PrefAccepted, PrefRejected, Handshake, HandshakeFails,
     AgentFails, ListIdentities, SkipIdentity, IdentityAccepted, IdentityRejected,
     IdentitiesExhausted, ChooseKeys, KeyAccepted, KeyRejected, KeysExhausted, Password,
     Offer, kept, dialing
<1>2. /\ pc' # pc => pc' # "dial"
      /\ pc' \in {"start", "resolve"} => pc' = pc
      /\ pc' \notin {"start", "resolve", "dial", "done"} =>
           pc \notin {"start", "resolve", "dial", "done"}
  BY DEF Next, Local, Dialing, Terminating, vars, ReadConfigFails, ResolveFails, GiveUp,
     NewSession, NewSessionFails, PrefAccepted, PrefRejected, Handshake, HandshakeFails,
     AgentFails, ListIdentities, SkipIdentity, IdentityAccepted, IdentityRejected,
     IdentitiesExhausted, ChooseKeys, KeyAccepted, KeyRejected, KeysExhausted, Password,
     Goto, Return
<1>3. ret' = "ConnectionError" => ret = ret' \/ GiveUp \/ pc = "session"
  BY DEF Next, Local, Dialing, Terminating, vars, ReadConfigFails, ResolveFails, GiveUp,
     NewSession, NewSessionFails, PrefAccepted, PrefRejected, Handshake, HandshakeFails,
     AgentFails, ListIdentities, SkipIdentity, IdentityAccepted, IdentityRejected,
     IdentitiesExhausted, ChooseKeys, KeyAccepted, KeyRejected, KeysExhausted, Password,
     Goto, Return
<1>4. pc \notin {"start", "resolve", "dial", "done"} => AnyDialed
  BY DEF DialInv
<1>5. GiveUp => Len(dialed) = addresses * config.connection_attempts
  <2> SUFFICES ASSUME GiveUp PROVE Len(dialed) = addresses * config.connection_attempts
    OBVIOUS
  <2>1. /\ attempt = config.connection_attempts /\ nth = 0
        /\ Len(dialed) = addresses * attempt + nth
    BY DialFacts DEF GiveUp, More, DialInv
  <2>2. addresses * attempt \in Nat
    BY DialFacts
  <2> QED
    BY <2>1, <2>2
<1> QED
  BY <1>1, <1>2, <1>3, <1>4, <1>5, DialKept

\* Every step preserves the count of the dials.
LEMMA DialNext ==
  ASSUME ConnectInv, DialInv, [Next]_vars
  PROVE  DialInv'
BY DialingInv, UndialedInv, DialedInv

\* Addresses are dialed in rounds, none after one has answered, and a connection
\* that never came about was tried at every address in every attempt.
THEOREM RoundsOfDials == Spec => []DialsInRounds
<1>1. Spec => []DialInv
  BY ConnectInvariant, DialInit, DialNext, PTL DEF Spec
<1>2. DialInv => DialsInRounds
  BY DEF DialInv, DialsInRounds, AnyDialed
<1> QED
  BY <1>1, <1>2, PTL

-----------------------------------------------------------------------------
(* The order of the credentials.                                           *)

\* The recursive definition of Matching has the function it describes.
LEMMA MatchingDef ==
  ASSUME identities \in Seq(Texts)
  PROVE  /\ Matching \in [0..Len(identities) -> Seq(Texts)]
         /\ Matching[0] = << >>
         /\ \A n \in 1..Len(identities) :
               Matching[n] = IF pubkey_matches(identities[n])
                               THEN Append(Matching[n - 1], identities[n])
                               ELSE Matching[n - 1]
<1> DEFINE N == Len(identities)
           G == {n \in 1..N : pubkey_matches(identities[n])}
           T == Seq(Texts)
           Added(s, n) == IF n \in G THEN Append(s, identities[n]) ELSE s
           D == [x \in T \X Nat |-> Added(x[1], x[2])]
           body(g, n) == IF n = 0 THEN << >>
                         ELSE IF pubkey_matches(identities[n])
                                THEN Append(g[n - 1], identities[n])
                         ELSE g[n - 1]
           IsMatching(g) == g = [n \in 0..N |-> body(g, n)]
<1>1. /\ N \in Nat /\ G \subseteq 1..N /\ << >> \in T
      /\ \A n \in 1..N : n \in G <=> pubkey_matches(identities[n])
      /\ \A s \in T, n \in Nat : Added(s, n) \in T
  OBVIOUS
<1>2. D \in [T \X Nat -> T] /\ \A s \in T, n \in Nat : D[<<s, n>>] = Added(s, n)
  <2> HIDE DEF T, Added
  <2> QED
    BY <1>1
<1>3. \A g, n : n \in 1..N => body(g, n) = Added(g[n - 1], n)
  BY <1>1
<1>4. \A g : body(g, 0) = << >>
  OBVIOUS
<1>5. Matching = CHOOSE g : IsMatching(g)
  BY DEF Matching
<1> HIDE DEF G, T, Added, D, body, N
<1>6. PICK f : Iterated(f, T, << >>, D, N)
  BY <1>1, <1>2, Iterates
<1>7. IsMatching(f)
  <2>1. ASSUME NEW n \in 0..N PROVE f[n] = body(f, n)
    <3>1. CASE n = 0
      BY <1>4, <1>6, <3>1 DEF Iterated
    <3>2. CASE n # 0
      <4>1. n \in 1..N /\ n \in Nat /\ n - 1 \in 0..N
        BY <1>1, <3>2
      <4>2. f[n - 1] \in T /\ f[n] = D[<<f[n - 1], n>>]
        BY <1>6, <4>1 DEF Iterated
      <4>3. D[<<f[n - 1], n>>] = Added(f[n - 1], n)
        BY <1>2, <4>1, <4>2
      <4>4. body(f, n) = Added(f[n - 1], n)
        BY <1>3, <4>1
      <4> QED
        BY <4>2, <4>3, <4>4
    <3> QED
      BY <3>1, <3>2
  <2> QED
    BY <1>6, <2>1 DEF Iterated
<1> HIDE DEF IsMatching
<1>8. IsMatching(Matching)
  BY <1>5, <1>7
<1>9. /\ DOMAIN Matching = 0..N /\ Matching = [n \in 0..N |-> Matching[n]]
      /\ \A n \in 0..N : Matching[n] = body(Matching, n)
  BY <1>8 DEF IsMatching
<1>10. Matching[0] = << >>
  <2>1. Matching[0] = body(Matching, 0)
    BY <1>1, <1>9
  <2>2. body(Matching, 0) = << >>
    BY <1>4
  <2> QED
    BY <2>1, <2>2
<1>11. \A n \in 1..N : Matching[n] = Added(Matching[n - 1], n)
  BY <1>1, <1>3, <1>9
<1>12. \A n \in 0..N : Matching[n] \in T
  <2> DEFINE S == {n \in Nat : n \in 0..N => Matching[n] \in T}
  <2>1. 0 \in S
    BY <1>1, <1>10
  <2>2. ASSUME NEW n \in Nat, n \in S PROVE n + 1 \in S
    <3> SUFFICES ASSUME n + 1 \in 0..N PROVE Matching[n + 1] \in T
      OBVIOUS
    <3>1. n \in 0..N /\ n + 1 \in 1..N /\ (n + 1) - 1 = n /\ n + 1 \in Nat
      BY <1>1
    <3>2. Matching[n] \in T
      BY <2>2, <3>1
    <3>3. Matching[n + 1] = Added(Matching[n], n + 1)
      BY <1>11, <3>1
    <3> QED
      BY <1>1, <3>1, <3>2, <3>3
  <2> HIDE DEF S
  <2>3. Nat \subseteq S
    BY <2>1, <2>2, SetInduction
  <2> QED
    BY <1>1, <2>3 DEF S
<1>13. Matching \in [0..N -> T]
  BY <1>9, <1>12
<1>14. ASSUME NEW n \in 1..N
       PROVE  Matching[n] = IF pubkey_matches(identities[n])
                              THEN Append(Matching[n - 1], identities[n])
                              ELSE Matching[n - 1]
  BY <1>1, <1>11 DEF Added
<1> QED
  BY <1>10, <1>13, <1>14 DEF N, T

\* A sequence starts with itself, with what is extended, and so on.
LEMMA StartsWithConcat ==
  ASSUME NEW S, NEW s \in Seq(S), NEW t \in Seq(S)
  PROVE  StartsWith(s \o t, s)
BY DEF StartsWith

\* A sequence that grows starts with what it started with.
LEMMA StartsWithAppend ==
  ASSUME NEW S, NEW s \in Seq(S), NEW t \in Seq(S), NEW x \in S, StartsWith(s, t)
  PROVE  StartsWith(Append(s, x), t)
BY DEF StartsWith

\* What starts with a sequence starts with what that starts with.
LEMMA StartsWithTrans ==
  ASSUME NEW S, NEW r \in Seq(S), NEW s \in Seq(S), NEW t \in Seq(S),
         StartsWith(r, s), StartsWith(s, t)
  PROVE  StartsWith(r, t)
BY DEF StartsWith

\* A sequence starts with the first of its elements.
LEMMA StartsWithSlice ==
  ASSUME NEW S, NEW a \in Seq(S), NEW s \in Seq(S), NEW n \in 0..Len(s)
  PROVE  StartsWith(a \o s, a \o SubSeq(s, 1, n))
<1>1. SubSeq(s, 1, n) \in Seq(S) /\ Len(SubSeq(s, 1, n)) = n
  OBVIOUS
<1>2. \A i \in 1..n : SubSeq(s, 1, n)[i] = s[i]
  OBVIOUS
<1> DEFINE u == SubSeq(s, 1, n)
<1> HIDE DEF u
<1>3. Len(a \o u) = Len(a) + n /\ \A i \in 1..Len(a) + n : (a \o s)[i] = (a \o u)[i]
  BY <1>1, <1>2 DEF u
<1> QED
  BY <1>1, <1>3 DEF StartsWith, u

\* The more identities, the longer what matches.
LEMMA MatchingGrows ==
  ASSUME identities \in Seq(Texts), NEW n \in 0..Len(identities)
  PROVE  StartsWith(Matching[Len(identities)], Matching[n])
<1> DEFINE N == Len(identities)
           T == Seq(Texts)
           S == {k \in Nat : n + k \in 0..N => StartsWith(Matching[n + k], Matching[n])}
<1>1. /\ N \in Nat /\ n \in 0..N /\ \A k \in 0..N : Matching[k] \in T
      /\ \A k \in 1..N : identities[k] \in Texts
  BY MatchingDef, SMTT(60)
<1>2. \A k \in 1..N : \/ Matching[k] = Append(Matching[k - 1], identities[k])
                      \/ Matching[k] = Matching[k - 1]
  BY MatchingDef
<1>3. \A s \in T : StartsWith(s, s)
  BY DEF StartsWith
<1>4. \A s \in T, t \in T, x \in Texts : StartsWith(s, t) => StartsWith(Append(s, x), t)
  BY StartsWithAppend
<1> HIDE DEF N, T
<1>5. 0 \in S
  BY <1>1, <1>3
<1>6. ASSUME NEW k \in Nat, k \in S PROVE k + 1 \in S
  <2> SUFFICES ASSUME n + (k + 1) \in 0..N
               PROVE  StartsWith(Matching[n + (k + 1)], Matching[n])
    OBVIOUS
  <2> DEFINE j == n + (k + 1)
  <2>1. n + k \in 0..N /\ j \in 1..N /\ j - 1 = n + k
    BY <1>1
  <2>2. StartsWith(Matching[n + k], Matching[n])
    BY <1>6, <2>1
  <2> HIDE DEF j
  <2>3. Matching[j] = Append(Matching[n + k], identities[j]) \/ Matching[j] = Matching[n + k]
    BY <1>2, <2>1
  <2>4. StartsWith(Matching[j], Matching[n])
    BY <1>1, <1>4, <2>1, <2>2, <2>3
  <2> QED
    BY <2>4 DEF j
<1> HIDE DEF S
<1>7. Nat \subseteq S
  BY <1>5, <1>6, SetInduction
<1>8. N - n \in Nat /\ n + (N - n) = N /\ N \in 0..N
  BY <1>1
<1>9. N - n \in S
  BY <1>7, <1>8
<1>10. StartsWith(Matching[N], Matching[n])
  BY <1>8, <1>9 DEF S
<1> QED
  BY <1>10 DEF N

\* What the search for a credential has offered, by how far it is.
OrderInv ==
    /\ pc \in {"start", "resolve", "dial", "session", "prefs", "agent"} =>
          offered = << >>
    /\ pc \in {"agent", "identities"} => opts.agent # << >>
    /\ pc = "identities" =>
          turn - 1 \in 0..Len(identities) /\ What(offered) = Matching[turn - 1]
    /\ pc = "auth" => What(offered) \in {<< >>, FromAgent}
    /\ pc = "keys" =>
          /\ StoredKey # << >> /\ turn - 1 \in 0..Len(Keys)
          /\ \E start \in {<< >>, FromAgent} :
                What(offered) = start \o SubSeq(Keys, 1, turn - 1)
    /\ pc = "done" => OffersInOrder
    /\ ret = "AuthenticationFailed" => pc = "done"

\* The sequences the invariant speaks of.
LEMMA OrderFacts ==
  ASSUME ConnectInv
  PROVE  /\ identities \in Seq(Texts) /\ Keys \in Seq(Texts)
         /\ FromAgent \in Seq(Texts) /\ AfterAgent \in Seq(Texts)
         /\ opts.agent # << >> => FromAgent = Matching[Len(identities)]
         /\ offered \in Seq(Offers) /\ turn \in Nat \ {0}
         /\ config.username \in Texts /\ OrElse(opts.password, Empty) \in Texts
<1>1. Facts /\ offered \in Seq(Offers) /\ turn \in Nat \ {0}
  BY TypeFacts DEF ConnectInv, TypeOK, OffersOK
<1>2. identities \in Seq(Texts) /\ Keys \in Seq(Texts) /\ config.username \in Texts
  BY <1>1 DEF Facts, ConfigOK
<1>3. OrElse(opts.password, Empty) \in Texts
  BY <1>1, OrElseType, ConnectAssumption DEF SshOpts, Facts
<1>4. Len(identities) \in 0..Len(identities)
  BY <1>2
<1>5. Matching[Len(identities)] \in Seq(Texts)
  BY <1>2, <1>4, MatchingDef
<1>6. FromAgent \in Seq(Texts)
  <2>1. << >> \in Seq(Texts)
    OBVIOUS
  <2> QED
    BY <1>5, <2>1 DEF FromAgent
<1>7. AfterAgent \in Seq(Texts)
  <2>1. <<OrElse(opts.password, Empty)>> \in Seq(Texts)
    BY <1>3
  <2> QED
    BY <1>2, <2>1 DEF AfterAgent
<1> QED
  BY <1>1, <1>2, <1>3, <1>6, <1>7 DEF FromAgent

\* The order follows from the options, the identities and the configuration.
LEMMA SameOrder ==
  ASSUME UNCHANGED <<opts, identities, config>>
  PROVE  /\ Matching' = Matching /\ FromAgent' = FromAgent
         /\ AfterAgent' = AfterAgent /\ StoredKey' = StoredKey /\ Keys' = Keys
<1>1. Matching' = Matching
  BY DEF Matching, pubkey_matches
<1>2. StoredKey' = StoredKey /\ Keys' = Keys
  BY DEF StoredKey, Keys
<1> QED
  BY <1>1, <1>2 DEF FromAgent, AfterAgent

\* What a sequence of offers shows.
LEMMA WhatOf ==
  ASSUME NEW s \in Seq(Offers)
  PROVE  /\ What(s) \in Seq(Texts)
         /\ \A x \in Offers : What(Append(s, x)) = Append(What(s), x.what)
<1>1. \A x \in Offers : x.what \in Texts
  BY DEF Offers
<1>2. Len(s) \in Nat /\ DOMAIN s = 1..Len(s) /\ \A i \in 1..Len(s) : s[i] \in Offers
  OBVIOUS
<1>3. What(s) \in Seq(Texts) /\ Len(What(s)) = Len(s)
  BY <1>1, <1>2 DEF What
<1>4. ASSUME NEW x \in Offers PROVE What(Append(s, x)) = Append(What(s), x.what)
  <2>1. Append(s, x) \in Seq(Offers) /\ Append(What(s), x.what) \in Seq(Texts)
    BY <1>1, <1>3
  <2>2. /\ Len(Append(s, x)) = Len(s) + 1 /\ Len(Append(What(s), x.what)) = Len(s) + 1
    BY <1>3
  <2>3. ASSUME NEW i \in 1..Len(s) + 1
        PROVE  Append(s, x)[i].what = Append(What(s), x.what)[i]
    <3>1. CASE i \in 1..Len(s)
      <4>1. Append(s, x)[i] = s[i] /\ Append(What(s), x.what)[i] = What(s)[i]
        BY <1>3, <3>1
      <4> QED
        BY <3>1, <4>1, <1>2 DEF What
    <3>2. CASE i = Len(s) + 1
      <4>1. Append(s, x)[i] = x /\ Append(What(s), x.what)[i] = x.what
        BY <1>3, <3>2
      <4> QED
        BY <4>1
    <3>3. i \in 1..Len(s) \/ i = Len(s) + 1
      BY <1>2
    <3> QED
      BY <3>1, <3>2, <3>3
  <2>4. What(Append(s, x)) = [i \in 1..Len(s) + 1 |-> Append(s, x)[i].what]
    BY <2>1, <2>2 DEF What
  <2>5. Append(What(s), x.what) = [i \in 1..Len(s) + 1 |-> Append(What(s), x.what)[i]]
    BY <2>1, <2>2
  <2> QED
    BY <2>3, <2>4, <2>5
<1> QED
  BY <1>3, <1>4

\* One key more.
LEMMA OneMoreKey ==
  ASSUME NEW S, NEW start \in Seq(S), NEW s \in Seq(S), NEW n \in 1..Len(s)
  PROVE  Append(start \o SubSeq(s, 1, n - 1), s[n]) = start \o SubSeq(s, 1, n)
BY SMTT(60)

\* The invariant has the property in every place of the search.
LEMMA OrderShown ==
  ASSUME ConnectInv, OrderInv
  PROVE  OffersInOrder
<1>1. /\ identities \in Seq(Texts) /\ FromAgent \in Seq(Texts) /\ AfterAgent \in Seq(Texts)
      /\ Keys \in Seq(Texts) /\ pc \in Places /\ FromAgent \o AfterAgent \in Seq(Texts)
      /\ opts.agent # << >> => FromAgent = Matching[Len(identities)]
  BY OrderFacts DEF ConnectInv, TypeOK
<1>2. CASE pc = "done"
  BY <1>2 DEF OrderInv
<1>3. ASSUME pc # "done",
             \/ StartsWith(FromAgent \o AfterAgent, What(offered))
             \/ StartsWith(AfterAgent, What(offered))
      PROVE  OffersInOrder
  BY <1>3 DEF OffersInOrder, OrderInv
<1>4. StartsWith(AfterAgent, << >>)
  BY <1>1 DEF StartsWith
<1>5. StartsWith(FromAgent \o AfterAgent, FromAgent)
  BY <1>1, StartsWithConcat
<1>6. CASE pc \in {"start", "resolve", "dial", "session", "prefs", "agent"}
  BY <1>3, <1>4, <1>6 DEF OrderInv, What
<1>7. CASE pc = "auth"
  BY <1>3, <1>4, <1>5, <1>7 DEF OrderInv
<1>8. CASE pc = "identities"
  <2>1. turn - 1 \in 0..Len(identities) /\ What(offered) = Matching[turn - 1]
        /\ FromAgent = Matching[Len(identities)]
    BY <1>1, <1>8 DEF OrderInv
  <2>2. Matching[turn - 1] \in Seq(Texts)
    BY <1>1, <2>1, MatchingDef
  <2>3. StartsWith(FromAgent, Matching[turn - 1])
    BY <1>1, <2>1, MatchingGrows
  <2> QED
    BY <1>1, <1>3, <1>5, <1>8, <2>1, <2>2, <2>3, StartsWithTrans
<1>9. CASE pc = "keys"
  <2>1. PICK start \in {<< >>, FromAgent} :
          What(offered) = start \o SubSeq(Keys, 1, turn - 1)
    BY <1>9 DEF OrderInv
  <2>2. turn - 1 \in 0..Len(Keys) /\ AfterAgent = Keys /\ << >> \o Keys = Keys
    BY <1>1, <1>9 DEF OrderInv, AfterAgent
  <2>3. << >> \in Seq(Texts)
    OBVIOUS
  <2>4. StartsWith(start \o Keys, What(offered))
    BY <1>1, <2>1, <2>2, <2>3, StartsWithSlice
  <2> QED
    BY <1>3, <1>9, <2>1, <2>2, <2>4
<1> QED
  BY <1>1, <1>2, <1>6, <1>7, <1>8, <1>9 DEF Places

\* The property after a step that leaves the configuration alone.
LEMMA OrderNext ==
  ASSUME UNCHANGED <<opts, identities, config>>,
         \/ StartsWith(FromAgent \o AfterAgent, What(offered'))
         \/ StartsWith(AfterAgent, What(offered')),
         ret' = "AuthenticationFailed" =>
            What(offered') \in {FromAgent \o AfterAgent, AfterAgent}
  PROVE  OffersInOrder'
BY SameOrder DEF OffersInOrder

\* Before the search nothing has been offered.
LEMMA EarlyOrder ==
  ASSUME ConnectInv, ConnectInv', OrderInv, BeforeSession \/ Preparing
  PROVE  OrderInv'
<1>1. pc \in {"start", "resolve", "dial", "session", "prefs"} /\ ret = "none"
  BY DEF BeforeSession, Preparing, ReadConfig, ReadConfigFails, ResolveHost, ResolveFails,
     DialFails, DialSucceeds, Dial, NextAttempt, More, GiveUp, NewSession, NewSessionFails,
     PrefAccepted, PrefRejected, Handshake, HandshakeFails, ConnectInv, PhaseInv
<1>2. /\ offered' = offered
      /\ pc' \in {"start", "resolve", "dial", "session", "prefs", "agent", "auth", "done"}
      /\ pc' = "agent" => opts'.agent # << >>
      /\ ret' # "AuthenticationFailed"
  BY <1>1 DEF BeforeSession, Preparing, ReadConfig, ReadConfigFails, ResolveHost,
     ResolveFails, DialFails, DialSucceeds, Dial, NextAttempt, More, GiveUp, NewSession,
     NewSessionFails, PrefAccepted, PrefRejected, Handshake, HandshakeFails, Goto, Return,
     given, auth
<1>3. offered' = << >> /\ What(offered') = << >>
  BY <1>1, <1>2 DEF OrderInv, What
<1>4. pc' = "done" => UNCHANGED <<opts, identities, config>>
  BY DEF BeforeSession, Preparing, ReadConfig, ReadConfigFails, ResolveHost, ResolveFails,
     DialFails, DialSucceeds, NextAttempt, GiveUp, NewSession, NewSessionFails,
     PrefAccepted, PrefRejected, Handshake, HandshakeFails, Goto, given
<1>5. pc' = "done" => OffersInOrder'
  <2>1. AfterAgent \in Seq(Texts)
    BY OrderFacts
  <2>2. StartsWith(AfterAgent, << >>)
    BY <2>1 DEF StartsWith
  <2> QED
    BY <1>2, <1>3, <1>4, <2>2, OrderNext
<1> QED
  BY <1>2, <1>3, <1>5 DEF OrderInv

\* The next identity of the agent that matches is offered, or it is passed over.
LEMMA IdentityOrder ==
  ASSUME ConnectInv, OrderInv,
         SkipIdentity \/ IdentityAccepted \/ IdentityRejected
  PROVE  OrderInv'
<1>1. /\ identities \in Seq(Texts) /\ FromAgent \in Seq(Texts) /\ AfterAgent \in Seq(Texts)
      /\ opts.agent # << >> /\ FromAgent = Matching[Len(identities)]
      /\ offered \in Seq(Offers) /\ turn \in 1..Len(identities)
      /\ What(offered) = Matching[turn - 1] /\ pc = "identities"
      /\ config.username \in Texts /\ ret = "none"
  <2>1. /\ identities \in Seq(Texts) /\ FromAgent \in Seq(Texts)
        /\ AfterAgent \in Seq(Texts) /\ offered \in Seq(Offers)
        /\ opts.agent # << >> => FromAgent = Matching[Len(identities)]
        /\ config.username \in Texts /\ turn \in Nat \ {0}
    BY OrderFacts
  <2>2. pc = "identities" /\ turn <= Len(identities)
    BY DEF SkipIdentity, IdentityAccepted, IdentityRejected
  <2>3. ret = "none"
    BY <2>2 DEF ConnectInv, PhaseInv
  <2>4. opts.agent # << >> /\ What(offered) = Matching[turn - 1]
    BY <2>2 DEF OrderInv
  <2>5. turn \in 1..Len(identities)
    BY <2>1, <2>2
  <2> QED
    BY <2>1, <2>2, <2>3, <2>4, <2>5
<1>2. UNCHANGED <<opts, identities, config>>
  BY DEF SkipIdentity, IdentityAccepted, IdentityRejected, Offer, kept, given
<1>3. What(offered') = Matching[turn]
  <2>1. CASE SkipIdentity
    BY <1>1, <2>1, MatchingDef DEF SkipIdentity
  <2>2. CASE IdentityAccepted \/ IdentityRejected
    <3>1. identities[turn] \in Texts
      BY <1>1
    <3>2. PICK x \in Offers : x.what = identities[turn] /\ offered' = Append(offered, x)
      <4>1. PICK ok \in BOOLEAN : Offer("agent", identities[turn], ok)
        BY <2>2 DEF IdentityAccepted, IdentityRejected
      <4>2. [kind |-> "agent", what |-> identities[turn], user |-> config.username,
             ok |-> ok] \in Offers
        BY <1>1, <3>1 DEF Offers
      <4> QED
        BY <4>1, <4>2 DEF Offer
    <3>3. What(offered') = Append(Matching[turn - 1], identities[turn])
      BY <1>1, <3>2, WhatOf
    <3>4. pubkey_matches(identities[turn])
      BY <2>2 DEF IdentityAccepted, IdentityRejected
    <3> QED
      BY <1>1, <3>3, <3>4, MatchingDef
  <2> QED
    BY <2>1, <2>2
<1>4. CASE IdentityAccepted
  <2>1. turn \in 0..Len(identities) /\ Matching[turn] \in Seq(Texts)
    BY <1>1, MatchingDef, SMTT(60)
  <2>2. StartsWith(FromAgent, Matching[turn])
    BY <1>1, <2>1, MatchingGrows
  <2>3. StartsWith(FromAgent \o AfterAgent, Matching[turn])
    <3>1. FromAgent \o AfterAgent \in Seq(Texts)
      BY <1>1
    <3> QED
      BY <1>1, <2>1, <2>2, <3>1, StartsWithConcat, StartsWithTrans
  <2>4. pc' = "done" /\ ret' = "Ok"
    BY <1>4 DEF IdentityAccepted, Return
  <2>5. OffersInOrder'
    BY <1>2, <1>3, <2>3, <2>4, OrderNext
  <2> QED
    BY <2>4, <2>5 DEF OrderInv
<1>5. CASE SkipIdentity \/ IdentityRejected
  <2>1. pc' = pc /\ ret' = ret /\ turn' = turn + 1
    BY <1>5 DEF SkipIdentity, IdentityRejected
  <2>2. turn' - 1 = turn /\ turn \in 0..Len(identities)
    BY <1>1, <2>1
  <2> QED
    BY <1>1, <1>2, <1>3, <2>1, <2>2, SameOrder DEF OrderInv
<1> QED
  BY <1>4, <1>5

\* The next key is offered.
LEMMA KeyOrder ==
  ASSUME ConnectInv, OrderInv, KeyAccepted \/ KeyRejected
  PROVE  OrderInv'
<1>1. /\ Keys \in Seq(Texts) /\ FromAgent \in Seq(Texts) /\ AfterAgent = Keys
      /\ offered \in Seq(Offers) /\ turn \in 1..Len(Keys) /\ pc = "keys"
      /\ config.username \in Texts /\ ret = "none" /\ StoredKey # << >>
  <2>1. /\ Keys \in Seq(Texts) /\ FromAgent \in Seq(Texts) /\ offered \in Seq(Offers)
        /\ config.username \in Texts
    BY OrderFacts
  <2>2. pc = "keys" /\ turn <= Len(Keys)
    BY DEF KeyAccepted, KeyRejected
  <2>3. ret = "none"
    BY <2>2 DEF ConnectInv, PhaseInv
  <2>4. turn - 1 \in 0..Len(Keys) /\ StoredKey # << >> /\ AfterAgent = Keys
    BY <2>2 DEF OrderInv, AfterAgent
  <2>5. turn \in Nat \ {0}
    BY OrderFacts
  <2>6. turn \in 1..Len(Keys)
    BY <2>1, <2>2, <2>5
  <2> QED
    BY <2>1, <2>2, <2>3, <2>4, <2>6
<1>2. UNCHANGED <<opts, identities, config>>
  BY DEF KeyAccepted, KeyRejected, Offer, kept, given
<1>3. PICK start \in {<< >>, FromAgent} :
        What(offered) = start \o SubSeq(Keys, 1, turn - 1)
  BY <1>1 DEF OrderInv
<1>4. start \in Seq(Texts)
  <2>1. << >> \in Seq(Texts)
    OBVIOUS
  <2> QED
    BY <1>1, <2>1
<1>5. What(offered') = start \o SubSeq(Keys, 1, turn)
  <2>1. Keys[turn] \in Texts
    BY <1>1
  <2>2. PICK x \in Offers : x.what = Keys[turn] /\ offered' = Append(offered, x)
    <3>1. PICK ok \in BOOLEAN : Offer("key", Keys[turn], ok)
      BY DEF KeyAccepted, KeyRejected
    <3>2. [kind |-> "key", what |-> Keys[turn], user |-> config.username,
           ok |-> ok] \in Offers
      BY <1>1, <2>1 DEF Offers
    <3> QED
      BY <3>1, <3>2 DEF Offer
  <2>3. What(offered') = Append(start \o SubSeq(Keys, 1, turn - 1), Keys[turn])
    BY <1>1, <1>3, <2>2, WhatOf
  <2>4. Append(start \o SubSeq(Keys, 1, turn - 1), Keys[turn])
          = start \o SubSeq(Keys, 1, turn)
    BY <1>1, <1>4, OneMoreKey
  <2> QED
    BY <2>3, <2>4
<1>6. CASE KeyAccepted
  <2>1. turn \in 0..Len(Keys)
    BY <1>1
  <2>2. StartsWith(start \o AfterAgent, What(offered'))
    BY <1>1, <1>4, <1>5, <2>1, StartsWithSlice
  <2>3. << >> \o AfterAgent = AfterAgent
    BY <1>1
  <2>4. pc' = "done" /\ ret' = "Ok"
    BY <1>6 DEF KeyAccepted, Return
  <2>5. OffersInOrder'
    BY <1>2, <1>3, <2>2, <2>3, <2>4, OrderNext
  <2> QED
    BY <2>4, <2>5 DEF OrderInv
<1>7. CASE KeyRejected
  <2>1. pc' = pc /\ ret' = ret /\ turn' = turn + 1
    BY <1>7 DEF KeyRejected
  <2>2. turn' - 1 = turn /\ turn \in 0..Len(Keys)
    BY <1>1, <2>1
  <2> QED
    BY <1>1, <1>2, <1>5, <2>1, <2>2, SameOrder DEF OrderInv
<1> QED
  BY <1>6, <1>7

\* The steps from one kind of credential to the next.
LEMMA SearchOrder ==
  ASSUME ConnectInv, OrderInv,
         AgentFails \/ ListIdentities \/ IdentitiesExhausted \/ ChooseKeys
  PROVE  OrderInv'
<1>1. /\ identities \in Seq(Texts) /\ FromAgent \in Seq(Texts) /\ Keys \in Seq(Texts)
      /\ opts.agent # << >> => FromAgent = Matching[Len(identities)]
      /\ ret = "none" /\ turn \in Nat \ {0}
  BY OrderFacts DEF ConnectInv, PhaseInv, AgentFails, ListIdentities, IdentitiesExhausted,
     ChooseKeys
<1>2. UNCHANGED <<opts, identities, config, offered, ret>>
  BY DEF AgentFails, ListIdentities, IdentitiesExhausted, ChooseKeys, kept, given, auth,
     Goto
<1>3. CASE AgentFails
  BY <1>1, <1>2, <1>3, SameOrder DEF AgentFails, Goto, OrderInv, What
<1>4. CASE ListIdentities
  <2>1. Len(identities) \in Nat /\ turn' - 1 = 0 /\ Matching[0] = << >>
    BY <1>1, <1>4, MatchingDef DEF ListIdentities
  <2> QED
    BY <1>1, <1>2, <1>4, <2>1, SameOrder DEF ListIdentities, Goto, OrderInv, What
<1>5. CASE IdentitiesExhausted
  <2>1. turn - 1 = Len(identities)
    BY <1>1, <1>5 DEF IdentitiesExhausted, OrderInv
  <2> QED
    BY <1>1, <1>2, <1>5, <2>1, SameOrder DEF IdentitiesExhausted, Goto, OrderInv
<1>6. CASE ChooseKeys
  <2>1. /\ What(offered) \in {<< >>, FromAgent} /\ StoredKey # << >>
        /\ turn' - 1 = 0 /\ pc' = "keys" /\ 0 \in 0..Len(Keys)
    BY <1>1, <1>6 DEF ChooseKeys, Goto, OrderInv
  <2>2. ASSUME NEW s \in {<< >>, FromAgent}
        PROVE  s = s \o SubSeq(Keys, 1, 0)
    <3>1. << >> \in Seq(Texts)
      OBVIOUS
    <3>2. s \in Seq(Texts)
      BY <1>1, <3>1
    <3> QED
      BY <1>1, <3>2
  <2> QED
    BY <1>1, <1>2, <2>1, <2>2, SameOrder DEF OrderInv
<1> QED
  BY <1>3, <1>4, <1>5, <1>6

\* The keys are all refused, or the password is the last to be offered.
LEMMA LastOrder ==
  ASSUME ConnectInv, OrderInv, KeysExhausted \/ Password
  PROVE  OrderInv'
<1>1. /\ Keys \in Seq(Texts) /\ FromAgent \in Seq(Texts) /\ AfterAgent \in Seq(Texts)
      /\ offered \in Seq(Offers) /\ config.username \in Texts
      /\ OrElse(opts.password, Empty) \in Texts /\ turn \in Nat \ {0}
  BY OrderFacts
<1>2. UNCHANGED <<opts, identities, config>> /\ pc' = "done"
  BY DEF KeysExhausted, Password, Offer, kept, given, Return
<1>3. What(offered') \in {FromAgent \o AfterAgent, AfterAgent}
  <2>1. CASE KeysExhausted
    <3>1. /\ AfterAgent = Keys /\ turn - 1 = Len(Keys) /\ offered' = offered
          /\ What(offered) \in {<< >> \o SubSeq(Keys, 1, turn - 1),
                                FromAgent \o SubSeq(Keys, 1, turn - 1)}
      BY <1>1, <2>1 DEF KeysExhausted, OrderInv, AfterAgent, auth
    <3>2. SubSeq(Keys, 1, Len(Keys)) = Keys /\ << >> \o Keys = Keys
      BY <1>1
    <3> QED
      BY <3>1, <3>2
  <2>2. CASE Password
    <3>1. AfterAgent = <<OrElse(opts.password, Empty)>> /\ What(offered) \in {<< >>, FromAgent}
      BY <2>2 DEF Password, OrderInv, AfterAgent
    <3>2. PICK x \in Offers : /\ x.what = OrElse(opts.password, Empty)
                              /\ offered' = Append(offered, x)
      <4>1. PICK ok \in BOOLEAN : Offer("password", OrElse(opts.password, Empty), ok)
        BY <2>2 DEF Password
      <4>2. [kind |-> "password", what |-> OrElse(opts.password, Empty),
             user |-> config.username, ok |-> ok] \in Offers
        BY <1>1 DEF Offers
      <4> QED
        BY <4>1, <4>2 DEF Offer
    <3>3. What(offered') = Append(What(offered), OrElse(opts.password, Empty))
      BY <1>1, <3>2, WhatOf
    <3>4. \A s \in Seq(Texts), e \in Texts :
            Append(s, e) = s \o <<e>> /\ Append(<< >>, e) = <<e>>
      OBVIOUS
    <3> QED
      BY <1>1, <3>1, <3>3, <3>4
  <2> QED
    BY <2>1, <2>2
<1>4. OffersInOrder'
  <2>1. FromAgent \o AfterAgent \in Seq(Texts)
    BY <1>1
  <2>2. \A s \in Seq(Texts) : StartsWith(s, s)
    BY DEF StartsWith
  <2> QED
    BY <1>1, <1>2, <1>3, <2>1, <2>2, OrderNext
<1> QED
  BY <1>2, <1>4 DEF OrderInv

\* Nothing happens.
LEMMA StutterOrder ==
  ASSUME OrderInv, UNCHANGED vars
  PROVE  OrderInv'
<1>1. UNCHANGED <<opts, identities, config, pc, ret, offered, turn>>
  BY DEF vars, given, auth
<1> QED
  BY <1>1, SameOrder DEF OrderInv, OffersInOrder

\* Every step preserves the order.
LEMMA OrderStep ==
  ASSUME ConnectInv, ConnectInv', OrderInv, [Next]_vars
  PROVE  OrderInv'
BY NextGroups, EarlyOrder, IdentityOrder, KeyOrder, SearchOrder, LastOrder, StutterOrder
   DEF Offering, Searching

\* Nothing has been offered yet.
LEMMA OrderInit == Init => OrderInv
BY DEF Init, OrderInv

\* Whatever the agent and the server answer, the credentials are offered in the
\* order of the options, the identities that match, then the keys or else the
\* password, and a search that fails has offered them all.
THEOREM OrderOfOffers == Spec => []OffersInOrder
<1>1. Init => OrderInv
  BY OrderInit
<1>2. ConnectInv /\ ConnectInv' /\ OrderInv /\ [Next]_vars => OrderInv'
  BY OrderStep
<1>3. Spec => []OrderInv
  BY <1>1, <1>2, ConnectInvariant, PTL DEF Spec
<1>4. ConnectInv /\ OrderInv => OffersInOrder
  BY OrderShown
<1> QED
  BY <1>3, <1>4, ConnectInvariant, PTL
=============================================================================
