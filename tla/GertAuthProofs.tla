--------------------------- MODULE GertAuthProofs ---------------------------
(***************************************************************************)
(* What the retries counter of auth_callback achieves, for every server.   *)
(*                                                                         *)
(* The argument: the counter is at least the number of secrets sent and is *)
(* zero only before the first one (Counted); in a run of rounds of one     *)
(* kind its value tells which secrets have been refused (SshRounds,        *)
(* PasswordRounds).  A secret that is right and was sent ends the rounds.  *)
(***************************************************************************)
EXTENDS GertAuth, TLAPS

USE OffersAssumption

\* The operation is about to succeed.
Granted == pc = "server" /\ cred = "right"

Tried == {tried[i] : i \in DOMAIN tried}

Fresh == pc = "idle" => retries = 0 /\ tried = <<>> /\ seen = {}

Asked == pc = "callback" => offered \in seen /\ cred # "right"

Counted ==
  /\ Len(tried) <= retries
  /\ \A i \in DOMAIN tried : tried[i] \in {"agent", "pat"} => i = 1
  /\ retries <= 1 => "key" \notin Tried
  /\ \A i, j \in DOMAIN tried : tried[i] = "key" /\ tried[j] = "key" => i = j

SshRounds ==
  Steady("ssh_key") =>
    /\ retries <= 2
    /\ retries >= 1 => setup.agent # "right" \/ Granted
    /\ retries = 2 => setup.key # "right" \/ Granted

PasswordRounds ==
  Steady("userpass") /\ ~setup.string =>
    /\ retries >= 1 => setup.pat # "right" \/ Granted
    /\ setup.manager =>
         /\ retries >= 2 => "manager" \in Tried
         /\ retries >= 3 => setup.typed # "right" \/ Granted

AuthInv == Fresh /\ Asked /\ Counted /\ SshRounds /\ PasswordRounds

-----------------------------------------------------------------------------

\* What one more secret does to the list of those sent.
LEMMA SendTried ==
  ASSUME tried \in Seq(Source), NEW source \in Source, NEW secret, NEW count,
         Send(source, secret, count)
  PROVE  /\ tried' \in Seq(Source)
         /\ Len(tried') = Len(tried) + 1
         /\ DOMAIN tried = 1 .. Len(tried)
         /\ DOMAIN tried' = 1 .. Len(tried) + 1
         /\ \A i \in DOMAIN tried : tried'[i] = tried[i]
         /\ tried'[Len(tried) + 1] = source
         /\ Tried' = Tried \cup {source}
<1>1. tried' = Append(tried, source)
  BY DEF Send
<1>2. /\ Len(tried) \in Nat
      /\ DOMAIN tried = 1 .. Len(tried)
      /\ tried' \in Seq(Source)
      /\ Len(tried') = Len(tried) + 1
      /\ \A i \in 1 .. Len(tried) : tried'[i] = tried[i]
      /\ tried'[Len(tried) + 1] = source
  BY <1>1
<1>3. DOMAIN tried' = 1 .. Len(tried) + 1
  BY <1>2
<1>4. Tried' = Tried \cup {source}
  <2>1. ASSUME NEW y \in Tried' PROVE y \in Tried \cup {source}
    <3>1. PICK i \in DOMAIN tried' : y = tried'[i]
      BY <2>1 DEF Tried
    <3>2. CASE i = Len(tried) + 1
      BY <3>1, <3>2, <1>2
    <3>3. CASE i \in 1 .. Len(tried)
      BY <3>1, <3>3, <1>2 DEF Tried
    <3>. QED BY <3>1, <3>2, <3>3, <1>2, <1>3
  <2>2. ASSUME NEW y \in Tried PROVE y \in Tried'
    <3>1. PICK i \in DOMAIN tried : y = tried[i]
      BY <2>2 DEF Tried
    <3>2. i \in DOMAIN tried' /\ tried'[i] = y
      BY <3>1, <1>2, <1>3
    <3>. QED BY <3>2 DEF Tried
  <2>3. source \in Tried'
    <3>1. Len(tried) + 1 \in DOMAIN tried'
      BY <1>2, <1>3
    <3>. QED BY <3>1, <1>2 DEF Tried
  <2>. QED BY <2>1, <2>2, <2>3
<1>. QED BY <1>2, <1>3, <1>4

\* A round that gives up, or an operation that gets in, starts afresh.
LEMMA ReturnInv ==
  ASSUME TypeOK, Return, stored' \in Secret
  PROVE  TypeOK' /\ AuthInv'
<1>1. /\ pc' = "idle" /\ retries' = 0 /\ offered' = {} /\ tried' = <<>>
      /\ cred' = "none" /\ seen' = {} /\ setup' = setup
  BY DEF Return
<1>2. TypeOK'
  BY <1>1 DEF TypeOK, Secret
<1>3. Tried' = {} /\ Len(tried') = 0 /\ DOMAIN tried' = {}
  BY <1>1 DEF Tried
<1>4. Fresh' /\ Asked' /\ Counted'
  BY <1>1, <1>3 DEF Fresh, Asked, Counted
<1>5. SshRounds' /\ PasswordRounds'
  BY <1>1 DEF SshRounds, PasswordRounds, Granted
<1>. QED BY <1>2, <1>4, <1>5 DEF AuthInv

\* The counting part of a round that sends a secret.
LEMMA SendCounted ==
  ASSUME TypeOK, Counted, NEW source \in Source, NEW secret, NEW count \in Nat,
         Send(source, secret, count), count > retries,
         source \in {"agent", "pat"} => retries = 0,
         source = "key" => retries <= 1 /\ count = 2
  PROVE  Counted'
<1>1. tried \in Seq(Source) /\ retries \in 0 .. 4 /\ Len(tried) \in Nat
  BY DEF TypeOK
<1>2. /\ Len(tried') = Len(tried) + 1
      /\ DOMAIN tried = 1 .. Len(tried)
      /\ DOMAIN tried' = 1 .. Len(tried) + 1
      /\ \A i \in DOMAIN tried : tried'[i] = tried[i]
      /\ tried'[Len(tried) + 1] = source
      /\ Tried' = Tried \cup {source}
  BY <1>1, SendTried
<1>3. retries' = count /\ Len(tried) <= retries
  BY DEF Send, Counted
<1>4. Len(tried') <= retries'
  BY <1>1, <1>2, <1>3
<1>5. ASSUME NEW i \in DOMAIN tried', tried'[i] \in {"agent", "pat"}
      PROVE  i = 1
  <2>1. CASE i = Len(tried) + 1
    BY <2>1, <1>1, <1>2, <1>3, <1>5
  <2>2. CASE i \in DOMAIN tried
    BY <2>2, <1>2, <1>5 DEF Counted
  <2>. QED BY <2>1, <2>2, <1>1, <1>2
<1>6. retries' <= 1 => "key" \notin Tried'
  BY <1>1, <1>2, <1>3 DEF Counted
<1>7. ASSUME NEW i \in DOMAIN tried', NEW j \in DOMAIN tried',
             tried'[i] = "key", tried'[j] = "key"
      PROVE  i = j
  <2>1. CASE source = "key"
    <3>1. "key" \notin Tried
      BY <2>1 DEF Counted
    <3>2. i \notin DOMAIN tried /\ j \notin DOMAIN tried
      BY <3>1, <1>2, <1>7 DEF Tried
    <3>. QED BY <3>2, <1>1, <1>2
  <2>2. CASE source # "key"
    <3>1. i # Len(tried) + 1 /\ j # Len(tried) + 1
      BY <2>2, <1>2, <1>7
    <3>2. i \in DOMAIN tried /\ j \in DOMAIN tried
      BY <3>1, <1>1, <1>2
    <3>. QED BY <3>2, <1>2, <1>7 DEF Counted
  <2>. QED BY <2>1, <2>2
<1>. QED BY <1>4, <1>5, <1>6, <1>7 DEF Counted

\* The kinds in a steady run of rounds.
LEMMA SteadyOffer ==
  ASSUME Asked, pc = "callback"
  PROVE  /\ Steady("ssh_key") => "ssh_key" \in offered
         /\ Steady("userpass") => "userpass" \in offered /\ "ssh_key" \notin offered
BY DEF Asked, Steady

\* The frame of every round that sends a secret: types, freshness, counting.
LEMMA SendFrame ==
  ASSUME TypeOK, AuthInv, pc = "callback",
         NEW source \in Source, NEW secret \in Secret, NEW count \in 1 .. 4,
         Send(source, secret, count), count > retries, stored' \in Secret,
         source \in {"agent", "pat"} => retries = 0,
         source = "key" => retries <= 1 /\ count = 2
  PROVE  /\ TypeOK' /\ Fresh' /\ Asked' /\ Counted'
         /\ pc' = "server" /\ retries' = count /\ cred' = secret
         /\ setup' = setup /\ seen' = seen
         /\ Tried' = Tried \cup {source}
<1>1. /\ pc' = "server" /\ retries' = count /\ cred' = secret
      /\ setup' = setup /\ seen' = seen /\ offered' = offered
  BY DEF Send
<1>2. tried' \in Seq(Source) /\ Tried' = Tried \cup {source}
  BY SendTried DEF TypeOK
<1>3. TypeOK'
  BY <1>1, <1>2 DEF TypeOK
<1>4. Fresh' /\ Asked'
  BY <1>1 DEF Fresh, Asked
<1>5. Counted'
  BY SendCounted DEF AuthInv
<1>. QED BY <1>1, <1>2, <1>3, <1>4, <1>5

\* The SSH part: agent first, then the key, unless there is no agent.
LEMMA AgentInv ==
  ASSUME TypeOK, AuthInv, Agent PROVE TypeOK' /\ AuthInv'
<1>1. /\ pc = "callback" /\ "ssh_key" \in offered /\ retries = 0
      /\ Send("agent", setup.agent, 1) /\ stored' = stored
  BY DEF Agent, Ssh
<1>2. setup.agent \in Secret /\ stored' \in Secret
  BY <1>1 DEF TypeOK, Setup
<1>3. /\ TypeOK' /\ Fresh' /\ Asked' /\ Counted'
      /\ pc' = "server" /\ retries' = 1 /\ cred' = setup.agent
      /\ setup' = setup /\ seen' = seen
  BY <1>1, <1>2, SendFrame, 1 > 0 DEF Source
<1>4. SshRounds'
  BY <1>3 DEF SshRounds, Granted
<1>5. PasswordRounds'
  BY <1>1, <1>3, SteadyOffer DEF PasswordRounds, AuthInv, Steady
<1>. QED BY <1>3, <1>4, <1>5 DEF AuthInv

LEMMA KeyInv ==
  ASSUME TypeOK, AuthInv, Key PROVE TypeOK' /\ AuthInv'
<1>1. /\ pc = "callback" /\ "ssh_key" \in offered /\ KeysTurn
      /\ Send("key", setup.key, 2) /\ stored' = stored
  BY DEF Key, Ssh
<1>2. setup.key \in Secret /\ stored' \in Secret /\ retries \in 0 .. 4
  BY <1>1 DEF TypeOK, Setup
<1>3. retries <= 1
  BY <1>1, <1>2 DEF KeysTurn
<1>4. /\ TypeOK' /\ Fresh' /\ Asked' /\ Counted'
      /\ pc' = "server" /\ retries' = 2 /\ cred' = setup.key
      /\ setup' = setup /\ seen' = seen
  BY <1>1, <1>2, <1>3, SendFrame DEF Source
<1>5. SshRounds'
  <2>1. Steady("ssh_key") => setup.agent # "right"
    BY <1>1, <1>2 DEF KeysTurn, AuthInv, SshRounds, Granted
  <2>. QED BY <1>4, <2>1 DEF SshRounds, Granted, Steady
<1>6. PasswordRounds'
  BY <1>1, <1>4, SteadyOffer DEF PasswordRounds, AuthInv, Steady
<1>. QED BY <1>4, <1>5, <1>6 DEF AuthInv

\* In a steady run of SSH rounds no password is asked for.
LEMMA PasswordNotSsh ==
  ASSUME TypeOK, AuthInv, Password
  PROVE  ~Steady("ssh_key")
BY SteadyOffer DEF Password, Ssh, AuthInv, SshRounds, TypeOK

LEMMA HardcodedInv ==
  ASSUME TypeOK, AuthInv, Hardcoded, pc' # "idle" PROVE TypeOK' /\ AuthInv'
<1>1. /\ Password /\ pc = "callback" /\ retries <= 3 /\ setup.string
      /\ Send("string", setup.typed, retries + 1) /\ stored' = stored
  BY DEF Hardcoded, Asking, Password, Limit, Fail, Return
<1>2. /\ setup.typed \in Secret /\ stored' \in Secret /\ retries \in 0 .. 4
      /\ retries + 1 \in 1 .. 4 /\ retries + 1 > retries
  BY <1>1 DEF TypeOK, Setup
<1>3. /\ TypeOK' /\ Fresh' /\ Asked' /\ Counted'
      /\ setup' = setup /\ seen' = seen
  BY <1>1, <1>2, SendFrame DEF Source
<1>4. SshRounds' /\ PasswordRounds'
  BY <1>1, <1>3, PasswordNotSsh DEF SshRounds, PasswordRounds, Steady
<1>. QED BY <1>3, <1>4 DEF AuthInv

LEMMA PatInv ==
  ASSUME TypeOK, AuthInv, Pat PROVE TypeOK' /\ AuthInv'
<1>1. /\ Password /\ pc = "callback" /\ retries + 1 < 2
      /\ Send("pat", setup.pat, retries + 1) /\ stored' = stored
  BY DEF Pat, Asking, Password, PatsTurn
<1>2. /\ setup.pat \in Secret /\ stored' \in Secret /\ retries = 0
      /\ retries + 1 = 1
  BY <1>1 DEF TypeOK, Setup
<1>3. /\ TypeOK' /\ Fresh' /\ Asked' /\ Counted'
      /\ pc' = "server" /\ retries' = 1 /\ cred' = setup.pat
      /\ setup' = setup /\ seen' = seen
  BY <1>1, <1>2, SendFrame DEF Source
<1>4. SshRounds' /\ PasswordRounds'
  BY <1>1, <1>3, PasswordNotSsh
     DEF SshRounds, PasswordRounds, Steady, Granted
<1>. QED BY <1>3, <1>4 DEF AuthInv

LEMMA ManagerInv ==
  ASSUME TypeOK, AuthInv, Manager PROVE TypeOK' /\ AuthInv'
<1> DEFINE answer == IF Kept # "none" THEN Kept ELSE setup.typed
<1>1. /\ Password /\ pc = "callback" /\ retries <= 3 /\ ~PatsTurn
      /\ ~setup.string /\ setup.manager /\ stored' = answer
      /\ \/ answer # "none" /\ Send("manager", answer, retries + 1)
         \/ Return
  BY DEF Manager, Asking, Password, Limit
<1>2. /\ setup.typed \in Secret /\ answer \in Secret /\ retries \in 0 .. 4
      /\ retries + 1 \in 1 .. 4 /\ retries + 1 > retries
  BY <1>1 DEF TypeOK, Setup, Kept, Secret
<1>3. CASE Return
  BY <1>1, <1>2, <1>3, ReturnInv
<1>4. CASE Send("manager", answer, retries + 1)
  <2>1. /\ TypeOK' /\ Fresh' /\ Asked' /\ Counted'
        /\ pc' = "server" /\ retries' = retries + 1 /\ cred' = answer
        /\ setup' = setup /\ seen' = seen /\ Tried' = Tried \cup {"manager"}
    <3> HIDE DEF answer
    <3>. QED BY <1>1, <1>2, <1>4, SendFrame DEF Source
  <2>2. SshRounds'
    BY <1>1, <2>1, PasswordNotSsh DEF SshRounds, Steady
  <2>3. Steady("userpass") => setup.pat # "right"
    BY <1>1, <1>2 DEF PatsTurn, AuthInv, PasswordRounds, Granted
  <2>4. retries' >= 3 => answer = setup.typed
    BY <1>2, <2>1 DEF Kept
  <2>5. PasswordRounds'
    <3> HIDE DEF answer
    <3>. QED BY <1>1, <2>1, <2>3, <2>4 DEF PasswordRounds, Steady, Granted
  <2>. QED BY <2>1, <2>2, <2>5 DEF AuthInv
<1>. QED BY <1>1, <1>3, <1>4

LEMMA PromptInv ==
  ASSUME TypeOK, AuthInv, Prompt, pc' # "idle" PROVE TypeOK' /\ AuthInv'
<1> DEFINE secret == IF setup.named THEN setup.typed ELSE "wrong"
<1>1. /\ Password /\ pc = "callback" /\ retries <= 3 /\ ~PatsTurn
      /\ ~setup.string /\ ~setup.manager /\ stored' = stored
      /\ Send("prompt", secret, retries + 1)
  BY DEF Prompt, Asking, Password, Limit, Fail, Return
<1>2. /\ secret \in Secret /\ stored' \in Secret /\ retries \in 0 .. 4
      /\ retries + 1 \in 1 .. 4 /\ retries + 1 > retries
  BY <1>1 DEF TypeOK, Setup, Secret
<1> HIDE DEF secret
<1>3. /\ TypeOK' /\ Fresh' /\ Asked' /\ Counted'
      /\ setup' = setup /\ seen' = seen /\ retries' = retries + 1
  BY <1>1, <1>2, SendFrame DEF Source
<1>4. SshRounds'
  BY <1>1, <1>3, PasswordNotSsh DEF SshRounds, Steady
<1>5. Steady("userpass") => setup.pat # "right"
  BY <1>1, <1>2 DEF PatsTurn, AuthInv, PasswordRounds, Granted
<1>6. PasswordRounds'
  BY <1>1, <1>3, <1>5 DEF PasswordRounds, Steady
<1>. QED BY <1>3, <1>4, <1>6 DEF AuthInv

-----------------------------------------------------------------------------

LEMMA InitInv == Init => TypeOK /\ AuthInv
<1> SUFFICES ASSUME Init PROVE TypeOK /\ AuthInv
  OBVIOUS
<1>1. TypeOK
  BY DEF Init, TypeOK, Secret
<1>2. Tried = {} /\ Len(tried) = 0 /\ DOMAIN tried = {}
  BY DEF Init, Tried
<1>3. Fresh /\ Asked /\ Counted
  BY <1>2 DEF Init, Fresh, Asked, Counted
<1>4. SshRounds /\ PasswordRounds
  BY DEF Init, SshRounds, PasswordRounds
<1>. QED BY <1>1, <1>3, <1>4 DEF AuthInv

LEMMA FailInv ==
  ASSUME TypeOK, Fail PROVE TypeOK' /\ AuthInv'
BY ReturnInv DEF Fail, TypeOK

LEMMA NextInv ==
  TypeOK /\ AuthInv /\ [Next]_vars => TypeOK' /\ AuthInv'
<1> SUFFICES ASSUME TypeOK, AuthInv, [Next]_vars PROVE TypeOK' /\ AuthInv'
  OBVIOUS
<1>1. CASE Start
  <2>1. /\ pc' = "server" /\ setup' \in Setup /\ stored' \in Secret
        /\ retries' = 0 /\ tried' = <<>> /\ seen' = {} /\ offered' = offered
        /\ cred' = cred
    BY <1>1 DEF Start, AuthInv, Fresh, TypeOK, Secret
  <2>2. TypeOK'
    BY <2>1 DEF TypeOK
  <2>3. Tried' = {} /\ Len(tried') = 0 /\ DOMAIN tried' = {}
    BY <2>1 DEF Tried
  <2>4. Fresh' /\ Asked' /\ Counted'
    BY <2>1, <2>3 DEF Fresh, Asked, Counted
  <2>5. SshRounds' /\ PasswordRounds'
    BY <2>1 DEF SshRounds, PasswordRounds
  <2>. QED BY <2>2, <2>4, <2>5 DEF AuthInv
<1>2. CASE Accept
  BY <1>2, ReturnInv DEF Accept, TypeOK
<1>3. CASE Challenge
  <2>1. /\ pc' = "callback" /\ cred # "right" /\ offered' \in Offers
        /\ seen' = seen \cup {offered'} /\ tried' = tried
        /\ setup' = setup /\ stored' = stored /\ retries' = retries
        /\ cred' = cred
    BY <1>3 DEF Challenge
  <2>2. TypeOK' /\ Fresh' /\ Asked'
    BY <2>1 DEF TypeOK, Fresh, Asked
  <2>3. Tried' = Tried
    BY <2>1 DEF Tried
  <2>4. Counted'
    BY <2>1, <2>3 DEF AuthInv, Counted
  <2>5. \A kind : Steady(kind)' => Steady(kind)
    BY <2>1 DEF Steady
  <2>6. SshRounds' /\ PasswordRounds'
    BY <2>1, <2>3, <2>5 DEF AuthInv, SshRounds, PasswordRounds, Granted
  <2>. QED BY <2>2, <2>4, <2>6 DEF AuthInv
<1>4. CASE AuthCallback
  <2>1. CASE Agent BY <2>1, AgentInv
  <2>2. CASE Key BY <2>2, KeyInv
  <2>3. CASE NoKey BY <2>3, FailInv DEF NoKey
  <2>4. CASE Hardcoded
    <3>1. CASE pc' = "idle"
      BY <2>4, <3>1, FailInv DEF Hardcoded, Send
    <3>2. CASE pc' # "idle" BY <2>4, <3>2, HardcodedInv
    <3>. QED BY <3>1, <3>2
  <2>5. CASE Pat BY <2>5, PatInv
  <2>6. CASE Manager BY <2>6, ManagerInv
  <2>7. CASE Prompt
    <3>1. CASE pc' = "idle"
      BY <2>7, <3>1, FailInv DEF Prompt, Send
    <3>2. CASE pc' # "idle" BY <2>7, <3>2, PromptInv
    <3>. QED BY <3>1, <3>2
  <2>8. CASE GiveUp BY <2>8, FailInv DEF GiveUp
  <2>9. CASE NoMethod BY <2>9, FailInv DEF NoMethod
  <2>. QED BY <1>4, <2>1, <2>2, <2>3, <2>4, <2>5, <2>6, <2>7, <2>8, <2>9
          DEF AuthCallback
<1>5. CASE UNCHANGED vars
  BY <1>5 DEF vars, TypeOK, AuthInv, Fresh, Asked, Counted, SshRounds,
              PasswordRounds, Tried, Granted, Steady
<1>. QED BY <1>1, <1>2, <1>3, <1>4, <1>5 DEF Next

\* In every round the counter, the secrets and the kinds asked for are what
\* auth_callback expects, whatever the server asks for.
THEOREM AuthTypeCorrect == Spec => []TypeOK
<1>. QED BY InitInv, NextInv, PTL DEF Spec

LEMMA AuthInvariant == Spec => [](TypeOK /\ AuthInv)
<1>. QED BY InitInv, NextInv, PTL DEF Spec

\* auth_callback sends at most four secrets in an operation, and the agent, the
\* key and the token at most once each, whatever kinds of credential the server
\* asks for from round to round.
THEOREM AttemptsAreFew == Spec => []FewAttempts
<1>1. TypeOK /\ AuthInv => FewAttempts
  <2> SUFFICES ASSUME TypeOK, AuthInv PROVE FewAttempts
    OBVIOUS
  <2>1. Len(tried) \in Nat /\ retries \in 0 .. 4 /\ Len(tried) <= retries
    BY DEF TypeOK, AuthInv, Counted
  <2>2. Len(tried) <= 4
    BY <2>1
  <2>3. ASSUME NEW i \in DOMAIN tried, NEW j \in DOMAIN tried,
               tried[i] \in {"agent", "key", "pat"}, tried[i] = tried[j]
        PROVE  i = j
    BY <2>3 DEF AuthInv, Counted
  <2>. QED BY <2>2, <2>3 DEF FewAttempts
<1>. QED BY AuthInvariant, <1>1, PTL

\* A stored secret is forgotten only in an operation in which it was sent and
\* refused, if the server asks for passwords throughout.
THEOREM ForgetsRefused == Spec => ForgetsOnlyRefused
<1>1. TypeOK /\ AuthInv /\ [Next]_vars =>
        [pc = "callback" /\ Steady("userpass") /\ stored # "none"
           /\ stored' # stored =>
         "manager" \in {tried[i] : i \in DOMAIN tried} /\ cred # "right"]_vars
  <2> SUFFICES ASSUME TypeOK, AuthInv, [Next]_vars, pc = "callback",
                      Steady("userpass"), stored # "none", stored' # stored
               PROVE  "manager" \in Tried /\ cred # "right"
    BY DEF Tried
  <2>1. cred # "right"
    BY DEF AuthInv, Asked
  <2>2. Manager
    BY DEF Next, vars, Start, Accept, Challenge, AuthCallback, Agent, Key, NoKey,
           Hardcoded, Pat, Prompt, GiveUp, NoMethod, Fail
  <2>3. retries + 1 > 2
    BY <2>2 DEF Manager, Kept
  <2>4. retries >= 2 /\ setup.manager /\ ~setup.string
    BY <2>2, <2>3 DEF Manager, TypeOK
  <2>. QED BY <2>1, <2>4 DEF AuthInv, PasswordRounds
<1>. QED BY AuthInvariant, <1>1, PTL DEF Spec, ForgetsOnlyRefused

\* auth_callback gives up only when nothing the user has would have worked, if
\* the server keeps asking for the same kind of credential.
THEOREM RightSecretWorks == Spec => RightSecretGetsIn
<1>1. TypeOK /\ AuthInv /\ [Next]_vars =>
        [pc = "callback" /\ pc' = "idle" =>
           /\ Steady("ssh_key") => "right" \notin {setup.agent, setup.key}
           /\ Steady("userpass") /\ ~setup.string =>
                /\ setup.pat # "right"
                /\ setup.manager => setup.typed # "right"]_vars
  <2> SUFFICES ASSUME TypeOK, AuthInv, [Next]_vars, pc = "callback", pc' = "idle"
               PROVE  /\ Steady("ssh_key") => "right" \notin {setup.agent, setup.key}
                      /\ Steady("userpass") /\ ~setup.string =>
                           /\ setup.pat # "right"
                           /\ setup.manager => setup.typed # "right"
    OBVIOUS
  <2>1. NoKey \/ Hardcoded \/ Manager \/ Prompt \/ GiveUp \/ NoMethod
    BY DEF Next, vars, Start, Accept, Challenge, AuthCallback, Agent, Key, Pat, Send
  <2>2. ~Granted /\ retries \in 0 .. 4
    BY DEF Granted, TypeOK
  <2>3. ASSUME Steady("ssh_key") PROVE setup.agent # "right" /\ setup.key # "right"
    <3>1. Ssh
      BY <2>2, <2>3, SteadyOffer DEF Ssh, AuthInv, SshRounds
    <3>2. NoKey
      BY <2>1, <3>1 DEF Hardcoded, Manager, Prompt, GiveUp, NoMethod, Asking, Password
    <3>3. retries = 2 \/ (KeysTurn /\ setup.key = "none")
      BY <3>2 DEF NoKey
    <3>. QED BY <2>2, <2>3, <3>3 DEF KeysTurn, AuthInv, SshRounds
  <2>4. ASSUME Steady("userpass"), ~setup.string
        PROVE  setup.pat # "right" /\ (setup.manager => setup.typed # "right")
    <3>1. Password /\ ~Ssh
      BY <2>4, SteadyOffer DEF Password, Ssh, AuthInv
    <3>2. Manager \/ Prompt \/ GiveUp
      BY <2>1, <2>4, <3>1 DEF NoKey, Hardcoded, NoMethod, Asking
    <3>3. CASE Manager
      <4>1. ~PatsTurn
        BY <3>3 DEF Manager
      <4>2. setup.pat # "right"
        BY <4>1, <2>2, <2>4 DEF PatsTurn, AuthInv, PasswordRounds
      <4>3. setup.typed = "none"
        BY <3>3 DEF Manager, Send
      <4>. QED BY <4>2, <4>3
    <3>4. CASE Prompt
      <4>1. ~PatsTurn /\ ~setup.manager
        BY <3>4 DEF Prompt
      <4>. QED BY <4>1, <2>2, <2>4 DEF PatsTurn, AuthInv, PasswordRounds
    <3>5. CASE GiveUp
      <4>1. retries > 3
        BY <3>5 DEF GiveUp, Limit
      <4>. QED BY <4>1, <2>2, <2>4 DEF AuthInv, PasswordRounds
    <3>. QED BY <3>2, <3>3, <3>4, <3>5
  <2>. QED BY <2>3, <2>4
<1>. QED BY AuthInvariant, <1>1, PTL DEF Spec, RightSecretGetsIn
=============================================================================
