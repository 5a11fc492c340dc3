----------------------------- MODULE GertRemote -----------------------------
(***************************************************************************)
(* Users with a clone each who fetch, pull and push through shared         *)
(* servers.  A clone is worked on by one R session; the servers change     *)
(* between any two steps of a call, because other users push to them.      *)
(*                                                                         *)
(* A history is the set of commits reachable from a tip, so that "is an    *)
(* ancestor of" is \subseteq and {} is a ref that does not exist.  Commit  *)
(* c carries the change made[c]: its own, 0 for a merge, or that of the    *)
(* commit a rebase copied.  What git_merge and git_rebase_commit do step   *)
(* by step is in GertMerge and GertPick; here they are one step.           *)
(*                                                                         *)
(* A call that fails before it changed anything (no such remote, refused   *)
(* credentials, not a fast-forward) leaves no trace and is not a step.     *)
(***************************************************************************)
EXTENDS Integers, Sequences, FiniteSets, SequencesExt

CONSTANTS
  Users,         \* people with a clone, one R session each
  Servers,       \* the hosted repositories
  ReadOnly,      \* the servers that refuse every push of a user
  Remotes,       \* remote names
  Origin,        \* the name "origin"
  Branches,
  DefaultBranch, \* what HEAD names on every server
  None,          \* NULL or NA: no remote, no upstream, no URL
  Calls,         \* the functions the users call, and what others do
  InitMade,      \* the commits there are at first
  InitHistories, \* what the servers may hold at first
  OtherPushes,   \* what others make a branch of a server hold
  MaxCommits     \* bound on the number of commits

ASSUME RemoteAssumption ==
  /\ Origin \in Remotes
  /\ DefaultBranch \in Branches
  /\ ReadOnly \subseteq Servers
  /\ None \notin Remotes \cup Servers
  /\ MaxCommits \in Nat
  /\ InitMade \in Seq(Nat) /\ Len(InitMade) <= MaxCommits
  /\ OtherPushes \subseteq Servers \X Branches \X SUBSET DOMAIN InitMade
  /\ InitHistories \subseteq [Branches -> SUBSET DOMAIN InitMade]

VARIABLES
  made,    \* the change each commit carries
  server,  \* refs/heads on each server
  repo,    \* the clone of each user
  pc, fr   \* where a user's call is, and its local variables

vars == <<made, server, repo, pc, fr>>

Commits == 1 .. Len(made)
New == Len(made) + 1
Changes(h) == {made[c] : c \in h} \ {0}
History == SUBSET (1 .. MaxCommits)
Upstreams == (Remotes \X Branches) \cup {None}

Clone == [kind : {"none", "work", "mirror"},
          url : [Remotes -> Servers \cup {None}],   \* remote.<name>.url
          local : [Branches -> History],            \* refs/heads
          track : [Remotes -> [Branches -> History]], \* refs/remotes
          upstream : [Branches -> Upstreams],       \* branch.<name>.merge
          mirrors : SUBSET Remotes,  \* their refspec is +refs/*:refs/*
          head : Branches]

Frame == [remote : Remotes \cup {None},
          onto : Branches,            \* info$shorthand
          force : BOOLEAN,
          setUpstream : BOOLEAN,      \* an upstream is wanted
          push : SUBSET Branches,     \* the refspecs
          adv : [Branches -> History], \* what the server advertised
          accepted : SUBSET Branches, \* what remote_message reported as done
          from : Upstreams,           \* the upstream a pull merges
          rebase : BOOLEAN]

NoRefs == [b \in Branches |-> {}]
NoTracks == [r \in Remotes |-> NoRefs]
NoClone == [kind |-> "none", url |-> [r \in Remotes |-> None],
            local |-> NoRefs, track |-> NoTracks,
            upstream |-> [b \in Branches |-> None], mirrors |-> {},
            head |-> DefaultBranch]
NoFrame == [remote |-> None, onto |-> DefaultBranch, force |-> FALSE,
            setUpstream |-> FALSE,
            push |-> {}, adv |-> NoRefs, accepted |-> {}, from |-> None,
            rebase |-> FALSE]

Init ==
  /\ made = InitMade
  /\ server \in [Servers -> InitHistories]
  /\ repo = [u \in Users |-> NoClone]
  /\ pc = [u \in Users |-> "idle"]
  /\ fr = [u \in Users |-> NoFrame]

Start(u, name) == pc[u] = "idle" /\ name \in Calls /\ repo[u].kind # "none"
Goto(u, l) == pc' = [pc EXCEPT ![u] = l]
Keep(u, f) == fr' = [fr EXCEPT ![u] = f]
Return(u) == Goto(u, "idle") /\ Keep(u, NoFrame)
Become(u, r) == repo' = [repo EXCEPT ![u] = r]

-----------------------------------------------------------------------------
(* git_info, and the remote that a call without the argument uses.         *)

HeadTip(u) == repo[u].local[repo[u].head]
Known(u) == {r \in Remotes : repo[u].url[r] # None}

\* git_branch_upstream fails when the tracking branch is gone.
InfoUpstream(u) ==
  LET up == repo[u].upstream[repo[u].head] IN
  IF HeadTip(u) # {} /\ up # None /\ repo[u].track[up[1]][up[2]] # {}
    THEN up ELSE None

InfoRemote(u) ==
  IF InfoUpstream(u) # None THEN InfoUpstream(u)[1]
  ELSE IF Cardinality(Known(u)) = 1 THEN CHOOSE r \in Remotes : r \in Known(u)
  ELSE None

\* The remote argument, else that of the branch, else "origin".
RemoteOf(u, arg) ==
  IF arg # None THEN arg
  ELSE IF InfoRemote(u) # None THEN InfoRemote(u)
  ELSE IF Origin \in Known(u) THEN Origin ELSE None

\* The remotes that a call without or with the argument is about.
Reached(u) == {RemoteOf(u, arg) : arg \in Remotes \cup {None}} \cap Known(u)

-----------------------------------------------------------------------------
(* git_clone and git_fetch.                                                *)

\* Mutant of RefsAfterFetch: the refspec has no "+", rewritten branches stay.
RefsUnforced(old, heads, prune) ==
  [b \in Branches |-> IF old[b] \subseteq heads[b] THEN heads[b]
                      ELSE IF heads[b] = {} /\ prune THEN {} ELSE old[b]]

\* The default refspec is forced; only prune removes what the server lost.
RefsAfterFetch(old, heads, prune) ==
  [b \in Branches |-> IF heads[b] # {} \/ prune THEN heads[b] ELSE old[b]]

\* Mutant of AfterFetch: a mirror takes what HEAD is for every ref.
FetchesHead(clone, r, prune) ==
  LET heads == server[clone.url[r]] IN
  IF r \in clone.mirrors
    THEN [clone EXCEPT !.local = [b \in Branches |-> heads[DefaultBranch]]]
    ELSE [clone EXCEPT !.track[r] = RefsAfterFetch(clone.track[r], heads, prune)]

\* What R_git_remote_fetch of r does to a clone.  The refspec of a mirror maps
\* every ref to itself, so its prune takes all that the server does not have,
\* the tracking branches of other remotes too.
AfterFetch(clone, r, prune) ==
  LET heads == server[clone.url[r]] IN
  IF r \in clone.mirrors
    THEN [clone EXCEPT !.local = RefsAfterFetch(clone.local, heads, prune),
                       !.track = IF prune THEN NoTracks ELSE clone.track]
    ELSE [clone EXCEPT !.track[r] = RefsAfterFetch(clone.track[r], heads, prune)]

\* git_clone checks one branch out: the one asked for, or the server's HEAD.
WorkClone(s, b) ==
  [NoClone EXCEPT !.kind = "work", !.url[Origin] = s,
     !.track[Origin] = server[s], !.head = b,
     !.local[b] = server[s][b],
     !.upstream[b] = <<Origin, b>>]

\* create_remote_mirror.
MirrorClone(s) ==
  [NoClone EXCEPT !.kind = "mirror", !.url[Origin] = s, !.local = server[s],
                  !.mirrors = {Origin}]

CallClone(u) ==
  \E s \in Servers, b \in Branches :
    /\ repo[u].kind = "none"
    /\ \/ "clone" \in Calls /\ server[s][b] # {} /\ Become(u, WorkClone(s, b))
       \/ "mirror" \in Calls /\ Become(u, MirrorClone(s))
    /\ UNCHANGED <<made, server, pc, fr>>

CallFetch(u) ==
  \E r \in Reached(u), prune \in BOOLEAN :
    /\ Start(u, "fetch")
    /\ Become(u, AfterFetch(repo[u], r, prune))
    /\ UNCHANGED <<made, server, pc, fr>>

-----------------------------------------------------------------------------
(* git_push.                                                               *)

\* HEAD's branch, an explicit refspec, or with mirror = TRUE every ref.
Pushes(u) ==
  LET born == {b \in Branches : repo[u].local[b] # {}} IN
  {{b} : b \in born} \cup {born}

\* The refs of interest in what a server told when the call connected.
Advertised(heads, bs) == [b \in Branches |-> IF b \in bs THEN heads[b] ELSE {}]

\* git_remote_push refuses the whole push if one branch of it would lose a
\* commit that the server advertised.
NotFastForward(u, s, push) ==
  \E b \in push : ~(server[s][b] \subseteq repo[u].local[b])

\* From git_info to the point where the remote has told its refs.
CallPush(u) ==
  \E r \in Reached(u), push \in Pushes(u), force, set \in BOOLEAN :
    /\ Start(u, "push")
    /\ HeadTip(u) # {}
    /\ force => "force" \in Calls
    /\ set => "set_upstream" \in Calls
    /\ ~force => ~NotFastForward(u, repo[u].url[r], push)
    /\ Keep(u, [NoFrame EXCEPT !.remote = r, !.onto = repo[u].head,
                  !.force = force, !.push = push,
                  !.adv = Advertised(server[repo[u].url[r]], push),
                  !.setUpstream = set \/ (/\ InfoUpstream(u) = None
                                          /\ repo[u].kind = "work")])
    /\ Goto(u, "send")
    /\ UNCHANGED <<made, server, repo>>

Sent(u, s, accepted) ==
  [server EXCEPT ![s] = [b \in Branches |->
     IF b \in accepted THEN repo[u].local[b] ELSE server[s][b]]]

\* Mutant of Acceptable: the server does not compare before it sets a ref.
AcceptsAll(u, s) == SUBSET fr[u].push

\* The server takes the refs that still are what it advertised, unless a
\* hook, a branch protection or missing rights refuse one.
Acceptable(u, s) ==
  SUBSET {b \in fr[u].push : s \notin ReadOnly /\ server[s][b] = fr[u].adv[b]}

\* Mutant of TrackPushed: tracking branches are set for refused refs too.
TrackAll(clone, r, accepted, push) ==
  [clone.track[r] EXCEPT ![CHOOSE b \in push : TRUE] =
     clone.local[CHOOSE b \in push : TRUE]]

TrackPushed(clone, r, accepted, push) ==
  [b \in Branches |-> IF b \in accepted THEN clone.local[b]
                                        ELSE clone.track[r][b]]

\* A refused ref is reported to remote_message, which is no error.
PushSend(u) ==
  /\ pc[u] = "send"
  /\ LET r == fr[u].remote
         s == repo[u].url[r] IN
     \E accepted \in Acceptable(u, s) :
       /\ server' = Sent(u, s, accepted)
       /\ IF r \in repo[u].mirrors THEN UNCHANGED repo
            ELSE Become(u, [repo[u] EXCEPT !.track[r] =
                   TrackPushed(repo[u], r, accepted, fr[u].push)])
       /\ IF fr[u].setUpstream
            THEN /\ Keep(u, [fr[u] EXCEPT !.accepted = accepted])
                 /\ Goto(u, "upstream")
            ELSE Return(u)
  /\ UNCHANGED made

\* The connection breaks before or after the server has moved its refs; the
\* call raises an error and records nothing.
PushLost(u) ==
  /\ pc[u] = "send"
  /\ LET s == repo[u].url[fr[u].remote] IN
     \E accepted \in Acceptable(u, s) : server' = Sent(u, s, accepted)
  /\ Return(u)
  /\ UNCHANGED <<made, repo>>

\* Mutant of PushUpstream: the upstream is the branch that was pushed.
UpstreamIsPushed(u) ==
  /\ pc[u] = "upstream"
  /\ LET r == fr[u].remote
         b == CHOOSE b \in fr[u].push : TRUE IN
     IF repo[u].track[r][b] # {}
       THEN Become(u, [repo[u] EXCEPT !.upstream[repo[u].head] = <<r, b>>])
       ELSE UNCHANGED repo
  /\ Return(u)
  /\ UNCHANGED <<made, server>>

\* git_branch_set_upstream stops if there is no such tracking branch.
PushUpstream(u) ==
  /\ pc[u] = "upstream"
  /\ LET r == fr[u].remote
         b == fr[u].onto IN
     IF repo[u].track[r][b] # {}
       THEN Become(u, [repo[u] EXCEPT !.upstream[repo[u].head] = <<r, b>>])
       ELSE UNCHANGED repo
  /\ Return(u)
  /\ UNCHANGED <<made, server>>

-----------------------------------------------------------------------------
(* git_pull.                                                               *)

\* git_info and git_fetch.  An explicit remote is fetched and its branch of
\* the same name is merged; it must exist after the fetch.
CallPull(u) ==
  \E arg \in Remotes \cup {None}, rebase \in BOOLEAN :
    LET from == IF arg # None THEN <<arg, repo[u].head>> ELSE InfoUpstream(u)
        r == RemoteOf(u, arg)
        fetched == AfterFetch(repo[u], r, FALSE) IN
    /\ Start(u, "pull") /\ repo[u].kind = "work"
    /\ HeadTip(u) # {}
    /\ from # None
    /\ r \in Known(u)
    /\ Become(u, fetched)
    /\ IF fetched.track[from[1]][from[2]] # {}
         THEN /\ Keep(u, [NoFrame EXCEPT !.from = from, !.remote = r,
                            !.rebase = rebase,
                 !.adv = Advertised(server[repo[u].url[r]], {from[2]})])
              /\ Goto(u, "integrate")
         ELSE UNCHANGED <<pc, fr>>
    /\ UNCHANGED <<made, server>>

\* Mutant of Todo: the branch is moved to the upstream, nothing is replayed.
NothingToDo(mine, theirs) == {}

\* The commits a rebase copies; merges are left out.
Todo(mine, theirs) == {c \in mine \ theirs : made[c] # 0}

\* Already there: a rebase drops even merge commits on top of the upstream.
UpToDate(mine, theirs, rebase) ==
  theirs \subseteq mine /\ (rebase => Todo(mine, theirs) = mine \ theirs)

\* Mutant of Integrated: the copies a rebase makes are counted from one up.
IntegratedOff(mine, theirs, rebase) ==
  LET todo == SetToSeq(Todo(mine, theirs)) IN
  IF UpToDate(mine, theirs, rebase) THEN [tip |-> mine, new |-> <<>>]
  ELSE IF mine \subseteq theirs THEN [tip |-> theirs, new |-> <<>>]
  ELSE IF rebase THEN [tip |-> theirs \cup {New + i : i \in DOMAIN todo},
                       new |-> [i \in DOMAIN todo |-> made[todo[i]]]]
  ELSE [tip |-> mine \cup theirs \cup {New}, new |-> <<0>>]

\* The new tip of the branch and what the commits made for it carry.
Integrated(mine, theirs, rebase) ==
  LET todo == SetToSeq(Todo(mine, theirs)) IN
  IF UpToDate(mine, theirs, rebase) THEN [tip |-> mine, new |-> <<>>]
  ELSE IF mine \subseteq theirs THEN [tip |-> theirs, new |-> <<>>]
  ELSE IF rebase THEN [tip |-> theirs \cup {Len(made) + i : i \in DOMAIN todo},
                       new |-> [i \in DOMAIN todo |-> made[todo[i]]]]
  ELSE [tip |-> mine \cup theirs \cup {New}, new |-> <<0>>]

\* A commit whose change the upstream already has is refused (EAPPLIED).
Replayable(mine, theirs) ==
  LET todo == Todo(mine, theirs) IN
  /\ Changes(todo) \cap Changes(theirs) = {}
  /\ Cardinality(Changes(todo)) = Cardinality(todo)

Pulled(u) == repo[u].track[fr[u].from[1]][fr[u].from[2]]

\* git_merge, or git_rebase_list and git_rebase_commit.
PullIntegrate(u) ==
  /\ pc[u] = "integrate"
  /\ LET r == Integrated(HeadTip(u), Pulled(u), fr[u].rebase) IN
       /\ Len(made \o r.new) <= MaxCommits
       /\ fr[u].rebase /\ r.new # <<>> => Replayable(HeadTip(u), Pulled(u))
       /\ made' = made \o r.new
       /\ Become(u, [repo[u] EXCEPT !.local[repo[u].head] = r.tip])
  /\ Return(u)
  /\ UNCHANGED server

\* Conflicts end a pull with an error and leave the branch where it was.
PullConflict(u) ==
  /\ pc[u] = "integrate"
  /\ Integrated(HeadTip(u), Pulled(u), fr[u].rebase).new # <<>>
  /\ Return(u)
  /\ UNCHANGED <<made, server, repo>>

-----------------------------------------------------------------------------
(* Remotes and branches of a clone, the user's commits, the servers.       *)

CallRemoteAdd(u) ==
  \E r \in Remotes, s \in Servers :
    /\ Start(u, "remote_add")
    /\ r \notin Known(u)
    /\ Become(u, [repo[u] EXCEPT !.url[r] = s])
    /\ UNCHANGED <<made, server, pc, fr>>

CallRemoteSetUrl(u) ==
  \E r \in Remotes, s \in Servers :
    /\ Start(u, "remote_set_url")
    /\ r \in Known(u)
    /\ Become(u, [repo[u] EXCEPT !.url[r] = s])
    /\ UNCHANGED <<made, server, pc, fr>>

\* git_remote_delete takes along the upstreams, and the refs that the refspec
\* of the remote maps to: its tracking branches, or every ref of a mirror.
WithoutRemote(clone, r) ==
  LET all == r \in clone.mirrors IN
  [clone EXCEPT !.url[r] = None, !.mirrors = clone.mirrors \ {r},
     !.local = IF all THEN NoRefs ELSE clone.local,
     !.track = IF all THEN NoTracks ELSE [clone.track EXCEPT ![r] = NoRefs],
     !.upstream = [b \in Branches |->
        IF @[b] # None /\ @[b][1] = r THEN None ELSE @[b]]]

\* A remote that is added again has the default refspec.
CallRemoteRemove(u) ==
  \E r \in Remotes :
    /\ Start(u, "remote_remove")
    /\ r \in Known(u)
    /\ Become(u, WithoutRemote(repo[u], r))
    /\ UNCHANGED <<made, server, pc, fr>>

\* git_branch_checkout makes a missing branch from the one remote that has it,
\* and leaves it there when the files cannot be checked out after that.  One
\* step: nobody else works on the clone while the call runs.
CallCheckout(u) ==
  \E b \in Branches :
    LET has == {r \in Remotes : repo[u].track[r][b] # {}} IN
    /\ Start(u, "checkout") /\ repo[u].kind = "work"
    /\ IF repo[u].local[b] # {}
         THEN Become(u, [repo[u] EXCEPT !.head = b])
         ELSE \E r \in has, head \in {b, repo[u].head} :
                /\ has = {r}
                /\ Become(u, [repo[u] EXCEPT !.head = head,
                     !.local[b] = repo[u].track[r][b],
                     !.upstream[b] = <<r, b>>])
    /\ UNCHANGED <<made, server, pc, fr>>

\* git_branch_create(b, ref): from HEAD, or from a tracking branch, which
\* becomes the upstream whatever b is called.  HEAD stays where it is with
\* checkout = FALSE, and when the files cannot be checked out.
CallCreate(u) ==
  \E b \in Branches, ref \in Upstreams : \E head \in {b, repo[u].head} :
    LET tip == IF ref = None THEN HeadTip(u) ELSE repo[u].track[ref[1]][ref[2]]
        up == IF ref = None THEN repo[u].upstream[b] ELSE ref IN
    /\ Start(u, "create") /\ repo[u].kind = "work"
    /\ repo[u].local[b] = {} /\ tip # {}
    /\ Become(u, [repo[u] EXCEPT !.head = head, !.local[b] = tip,
                                 !.upstream[b] = up])
    /\ UNCHANGED <<made, server, pc, fr>>

CallCommit(u) ==
  /\ Start(u, "commit") /\ repo[u].kind = "work"
  /\ New < MaxCommits
  /\ made' = Append(made, New)
  /\ Become(u, [repo[u] EXCEPT !.local[repo[u].head] = @ \cup {New}])
  /\ UNCHANGED <<server, pc, fr>>

\* Somebody else pushes to a server, rewrites a branch or deletes it.
ServerChange ==
  \E change \in OtherPushes :
    /\ "others" \in Calls
    /\ server' = [server EXCEPT ![change[1]][change[2]] = change[3]]
    /\ UNCHANGED <<made, repo, pc, fr>>

\* The session dies in the middle of a call.
Crash(u) ==
  /\ "crash" \in Calls
  /\ pc[u] # "idle"
  /\ Return(u)
  /\ UNCHANGED <<made, server, repo>>

Continue(u) ==
  \/ PushSend(u) \/ PushLost(u) \/ PushUpstream(u)
  \/ PullIntegrate(u) \/ PullConflict(u)

Call(u) ==
  \/ CallClone(u) \/ CallFetch(u) \/ CallPush(u) \/ CallPull(u)
  \/ CallRemoteAdd(u) \/ CallRemoteSetUrl(u) \/ CallRemoteRemove(u)
  \/ CallCheckout(u) \/ CallCreate(u) \/ CallCommit(u)

Next ==
  \/ \E u \in Users : Call(u) \/ Continue(u) \/ Crash(u)
  \/ ServerChange

Spec == Init /\ [][Next]_vars

-----------------------------------------------------------------------------

\* Every history names commits that exist, and the variables hold what the
\* calls can put there.
TypeOK ==
  /\ made \in Seq(Nat) /\ Len(made) <= MaxCommits
  /\ server \in [Servers -> [Branches -> SUBSET Commits]]
  /\ repo \in [Users -> Clone]
  /\ \A u \in Users, b \in Branches :
       /\ repo[u].local[b] \subseteq Commits
       /\ \A r \in Remotes : repo[u].track[r][b] \subseteq Commits
  /\ pc \in [Users -> {"idle", "send", "upstream", "integrate"}]
  /\ fr \in [Users -> Frame]

\* git_push without force never takes a commit off a server, although the
\* server moves between the check and the update, and although remotes are
\* re-pointed and tracking branches are out of date.
ServerKeepsWork ==
  [][\A s \in Servers, b \in Branches :
       /\ server'[s][b] # server[s][b]
       /\ \E u \in Users : pc[u] = "send" /\ pc'[u] # "send" /\ ~fr[u].force
       => server[s][b] \subseteq server'[s][b]]_vars

\* A tracking branch, and a branch of a mirror, only ever changes to what the
\* server of its remote has at that moment: a refused or lost push, a prune and
\* a re-pointed remote never make one up.
TrackFollowsServer ==
  [][\A u \in Users, b \in Branches :
       LET At(r) == server'[repo'[u].url[r]][b]
           mine == repo'[u].local[b] IN
       /\ \A r \in Remotes :
            LET after == repo'[u].track[r][b] IN
            after # repo[u].track[r][b] /\ after # {} => after = At(r)
       /\ repo'[u].kind = "mirror" /\ mine # repo[u].local[b] /\ mine # {}
            => \E r \in repo'[u].mirrors : mine = At(r)]_vars

\* git_pull without a conflict ends with everything in the branch that the
\* upstream held when it was fetched, so the next push is no conflict with it.
PullBringsIn ==
  [][\A u \in Users :
       /\ pc[u] = "integrate" /\ pc'[u] = "idle"
       /\ repo'[u] # repo[u]
       => fr[u].adv[fr[u].from[2]] \subseteq HeadTip(u)']_vars

\* No fetch, pull, push or checkout loses a change that was committed on a
\* local branch; a rebase copies it.
LocalKeepsWork ==
  [][\A u \in Users, b \in Branches :
       repo[u].kind = "work"
       => Changes(repo[u].local[b]) \subseteq
            {made'[c] : c \in repo'[u].local[b]}]_vars

\* Whatever refspec was pushed, whichever branch is checked out and whichever
\* remotes were removed: the upstream that a call gives a branch is the branch
\* of its own name, or the one the call made the branch from; and no upstream
\* is left on a remote that is gone.
UpstreamFits ==
  [][\A u \in Users, b \in Branches :
       LET up == repo'[u].upstream[b] IN
       up # None =>
         /\ up[1] \in Known(u)'
         /\ \/ up = repo[u].upstream[b]
            \/ up[2] = b
            \/ /\ repo[u].local[b] = {}
               /\ repo'[u].local[b] = repo'[u].track[up[1]][up[2]]]_vars

\* The documentation of set_upstream: "If NULL, this will set the branch
\* upstream only if the push was successful".  Of a push without refspec.
UpstreamOnlyAfterPush ==
  [][\A u \in Users :
       /\ pc[u] = "upstream" /\ repo'[u].upstream # repo[u].upstream
       /\ fr[u].push = {fr[u].onto}
       => fr[u].accepted = fr[u].push]_vars

=============================================================================
