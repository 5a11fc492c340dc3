------------------------------ MODULE GertAuth ------------------------------
(***************************************************************************)
(* How a clone, fetch, push or listing gets in at a server: libgit2 calls  *)
(* auth_callback each time the server refuses, naming the kinds of         *)
(* credential it would take, and the callback has one more thing to offer  *)
(* or gives up.  A retries counter, fresh for each operation, is all that  *)
(* tells the rounds apart, for SSH and for passwords alike.                *)
(*                                                                         *)
(* A secret is none, right or wrong for the server.  What the credential   *)
(* manager has stored outlives the operation.                              *)
(***************************************************************************)
EXTENDS Integers, Sequences

CONSTANT Offers \* the sets of credential kinds a server may ask for

ASSUME OffersAssumption == Offers \subseteq SUBSET {"ssh_key", "userpass", "username"}

VARIABLES
  pc,       \* the call is not running, at the server or in auth_callback
  setup,    \* what the user has, for the operation that runs
  stored,   \* the secret in the credential manager
  retries,  \* of auth_callback_data_t
  offered,  \* allowed_types
  tried,    \* where the secrets came from that were sent
  cred,     \* the secret sent last
  seen      \* history: the sets of kinds asked for in this operation

vars == <<pc, setup, stored, retries, offered, tried, cred, seen>>

Secret == {"none", "right", "wrong"}

\* An agent, a key file that can be read, GITHUB_PAT for this host, what the
\* user types or passes as password (a string or a function), whether the URL
\* names the user, whether git's credential manager can be run.
Setup ==
  {u \in [agent : Secret, key : Secret, pat : Secret, typed : Secret,
          string : BOOLEAN, named : BOOLEAN, manager : BOOLEAN] :
     u.string => u.typed # "none"}

Source == {"agent", "key", "string", "pat", "manager", "prompt"}

TypeOK ==
  /\ pc \in {"idle", "server", "callback"}
  /\ setup \in Setup
  /\ {stored, cred} \subseteq Secret
  /\ retries \in 0 .. 4
  /\ offered \in Offers \cup {{}}
  /\ tried \in Seq(Source)
  /\ seen \subseteq Offers

Init ==
  /\ pc = "idle"
  /\ setup \in Setup
  /\ stored \in Secret
  /\ retries = 0
  /\ offered = {}
  /\ tried = <<>>
  /\ cred = "none"
  /\ seen = {}

-----------------------------------------------------------------------------
(* The server.  Between two operations a stored secret may be revoked.      *)

\* What the operation kept is on the stack and goes with it.
Return ==
  /\ pc' = "idle"
  /\ retries' = 0
  /\ offered' = {}
  /\ tried' = <<>>
  /\ cred' = "none"
  /\ seen' = {}
  /\ UNCHANGED setup

Start ==
  /\ pc = "idle"
  /\ pc' = "server"
  /\ setup' \in Setup
  /\ stored' \in IF stored = "right" THEN {"right", "wrong"} ELSE {stored}
  /\ UNCHANGED <<retries, offered, tried, cred, seen>>

\* A public repository asks for nothing.
Accept ==
  /\ pc = "server"
  /\ cred = "right" \/ seen = {}
  /\ Return
  /\ UNCHANGED stored

Challenge ==
  /\ pc = "server"
  /\ cred # "right"
  /\ offered' \in Offers
  /\ seen' = seen \cup {offered'}
  /\ pc' = "callback"
  /\ UNCHANGED <<setup, stored, retries, tried, cred>>

-----------------------------------------------------------------------------
(* auth_callback: each action is one way through it.                       *)

\* A round of the callback that ends with a secret to send.
Send(source, secret, count) ==
  /\ tried' = Append(tried, source)
  /\ cred' = secret
  /\ retries' = count
  /\ pc' = "server"
  /\ UNCHANGED <<setup, offered, seen>>

Fail == Return /\ UNCHANGED stored

\* Past two retries the SSH part is passed over.
Ssh == pc = "callback" /\ "ssh_key" \in offered /\ retries <= 2

\* Mutant of Agent: the round is not counted.
AgentUncounted ==
  /\ Ssh /\ retries = 0 /\ setup.agent # "none"
  /\ Send("agent", setup.agent, 0) /\ UNCHANGED stored

Agent ==
  /\ Ssh /\ retries = 0 /\ setup.agent # "none"
  /\ Send("agent", setup.agent, 1) /\ UNCHANGED stored

\* Without an agent the same round goes on to the key.
KeysTurn == retries = 1 \/ (retries = 0 /\ setup.agent = "none")

Key ==
  /\ Ssh /\ KeysTurn /\ setup.key # "none"
  /\ Send("key", setup.key, 2) /\ UNCHANGED stored

\* Mutant of NoKey: a missing agent ends the call.
NoAgent == Ssh /\ (retries = 2 \/ setup.agent = "none") /\ Fail

NoKey == Ssh /\ (retries = 2 \/ (KeysTurn /\ setup.key = "none")) /\ Fail

Password == pc = "callback" /\ "userpass" \in offered /\ ~Ssh

\* Mutant of Limit: the comparison is off by one.
LimitFour == 4

Limit == 3

Asking == Password /\ retries <= Limit

\* A hardcoded password needs the user's name in the URL.
Hardcoded ==
  /\ Asking /\ setup.string
  /\ \/ setup.named /\ Send("string", setup.typed, retries + 1) /\ UNCHANGED stored
     \/ ~setup.named /\ Fail

PatsTurn == setup.pat # "none" /\ retries + 1 < 2

Pat ==
  /\ Asking /\ ~setup.string /\ PatsTurn
  /\ Send("pat", setup.pat, retries + 1) /\ UNCHANGED stored

\* Mutant of Kept: the stored secret is forgotten a round too early.
KeptOnce == IF retries + 1 > 1 THEN "none" ELSE stored

\* git_credential_forget, from the third round on.
Kept == IF retries + 1 > 2 THEN "none" ELSE stored

\* git_credential_ask gives what is stored, or what the user types then, which
\* it stores.  A user who gives no answer is prompted again, and then it is over.
Manager ==
  /\ Asking /\ ~setup.string /\ ~PatsTurn /\ setup.manager
  /\ LET answer == IF Kept # "none" THEN Kept ELSE setup.typed IN
     /\ stored' = answer
     /\ \/ answer # "none" /\ Send("manager", answer, retries + 1)
        \/ answer = "none" /\ Return

\* The prompt for a user name throws the answer away; "NA" is sent for it.
Prompt ==
  /\ Asking /\ ~setup.string /\ ~PatsTurn /\ ~setup.manager
  /\ \/ /\ setup.typed # "none"
        /\ Send("prompt", IF setup.named THEN setup.typed ELSE "wrong", retries + 1)
        /\ UNCHANGED stored
     \/ setup.typed = "none" /\ Fail

\* Mutant of GiveUp: the counter that was reset starts the rounds again.
GiveUpRestarts ==
  /\ Password /\ retries > Limit
  /\ pc' = "server" /\ retries' = 0 /\ tried' = <<>>
  /\ UNCHANGED <<setup, stored, offered, cred, seen>>

GiveUp == Password /\ retries > Limit /\ Fail

\* Only the user name is asked for.
NoMethod ==
  pc = "callback" /\ ~Ssh /\ ~Password /\ Fail

AuthCallback ==
  \/ Agent \/ Key \/ NoKey
  \/ Hardcoded \/ Pat \/ Manager \/ Prompt
  \/ GiveUp \/ NoMethod

Next == Start \/ Accept \/ Challenge \/ AuthCallback

\* The callback goes on without waiting, a server answers.
Spec == Init /\ [][Next]_vars /\ WF_vars(Accept \/ Challenge \/ AuthCallback)

-----------------------------------------------------------------------------

\* Whatever a server asks for from one round to the next, an operation sends
\* at most four secrets, and agent, key and token once: the callback that must
\* not lock an account works on a counter that several branches set.
FewAttempts ==
  /\ Len(tried) <= 4
  /\ \A i, j \in DOMAIN tried :
       tried[i] \in {"agent", "key", "pat"} /\ tried[i] = tried[j] => i = j

\* A server that does not change its mind; a name without a password is no use.
Steady(kind) == \A o \in seen : kind \in o /\ (kind = "userpass" => "ssh_key" \notin o)

\* auth_callback gives up only when nothing the user has would have worked,
\* also when a wrong secret of an earlier operation is still stored, a wrong
\* token is set or a wrong key comes first.
RightSecretGetsIn ==
  [][pc = "callback" /\ pc' = "idle" =>
       /\ Steady("ssh_key") => "right" \notin {setup.agent, setup.key}
       /\ Steady("userpass") /\ ~setup.string =>
            /\ setup.pat # "right"
            /\ setup.manager => setup.typed # "right"]_vars

\* git_credential_forget drops a stored secret only after the server has
\* refused it in this operation.
ForgetsOnlyRefused ==
  [][pc = "callback" /\ Steady("userpass") /\ stored # "none" /\ stored' # stored =>
       "manager" \in {tried[i] : i \in DOMAIN tried} /\ cred # "right"]_vars

\* An operation ends, however often the server refuses.
CallReturns == pc # "idle" ~> pc = "idle"

=============================================================================
