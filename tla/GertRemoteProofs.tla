-------------------------- MODULE GertRemoteProofs --------------------------
(***************************************************************************)
(* What clone, fetch, push and pull promise, for any number of users,      *)
(* servers, remotes and branches, and for every change others make on the  *)
(* servers between two steps of a call.                                    *)
(*                                                                         *)
(* The argument: only its own calls change a clone, so what a call has     *)
(* found in it holds until its next step (InCall); what a push knows of    *)
(* the server is the advertisement, and the server compares with it.       *)
(***************************************************************************)
EXTENDS GertRemote, FiniteSetTheorems, TLAPS

USE RemoteAssumption

Labels == {"idle", "send", "upstream", "integrate"}

\* A clone whose refs name the first n commits.  Only a remote with a URL has
\* tracking branches or is an upstream, and no remote of a work tree maps every
\* ref to itself.
CloneOK(c, n) ==
  /\ c \in Clone
  /\ \A b \in Branches : c.local[b] \subseteq 1 .. n
  /\ \A r \in Remotes, b \in Branches :
       /\ c.track[r][b] \subseteq 1 .. n
       /\ c.track[r][b] # {} => c.url[r] # None
  /\ \A b \in Branches : c.upstream[b] # None => c.url[c.upstream[b][1]] # None
  /\ c.kind = "work" => c.mirrors = {}

\* What a call at l with the variables f knows of its clone: the remote is
\* still there, a push that is not forced loses nothing of the advertisement,
\* a pull has fetched what it is about to integrate.
InCall(c, l, f) ==
  /\ l # "idle" => c.kind # "none"
  /\ l \in {"send", "upstream"} =>
       f.remote \in Remotes /\ c.url[f.remote] # None /\ f.onto = c.head
  /\ l = "send" /\ ~f.force => \A b \in f.push : f.adv[b] \subseteq c.local[b]
  /\ l = "integrate" =>
       /\ c.kind = "work"
       /\ f.from \in Remotes \X Branches
       /\ f.adv[f.from[2]] \subseteq c.track[f.from[1]][f.from[2]]

UserOK(c, l, f, n) ==
  CloneOK(c, n) /\ l \in Labels /\ f \in Frame /\ InCall(c, l, f)

MadeOK == made \in Seq(Nat) /\ Len(InitMade) <= Len(made) /\ Len(made) <= MaxCommits
ServerOK == server \in [Servers -> [Branches -> SUBSET Commits]]
Functions3 ==
  repo \in [Users -> Clone] /\ pc \in [Users -> Labels] /\ fr \in [Users -> Frame]

RemoteInv ==
  /\ MadeOK /\ ServerOK /\ Functions3
  /\ \A u \in Users : UserOK(repo[u], pc[u], fr[u], Len(made))

\* The promises, of one user's clone a that a step makes c, with the label l
\* after it.
Kept(a, c) ==
  a.kind = "work" => \A b \in Branches :
    Changes(a.local[b]) \subseteq {made'[k] : k \in c.local[b]}
TrackFollowed(a, c) ==
  \A r \in Remotes, b \in Branches :
    c.track[r][b] # a.track[r][b] /\ c.track[r][b] # {} =>
      c.track[r][b] = server'[c.url[r]][b]
MirrorFollowed(a, c) ==
  c.kind = "mirror" => \A b \in Branches :
    c.local[b] # a.local[b] /\ c.local[b] # {} =>
      \E r \in c.mirrors : c.local[b] = server'[c.url[r]][b]
Followed(a, c) == TrackFollowed(a, c) /\ MirrorFollowed(a, c)
OwnUpstream(a, c) ==
  \A b \in Branches :
    c.upstream[b] # None =>
      \/ c.upstream[b] = a.upstream[b]
      \/ c.upstream[b][2] = b
      \/ /\ a.local[b] = {}
         /\ c.local[b] = c.track[c.upstream[b][1]][c.upstream[b][2]]
Brought(u, c, l) ==
  pc[u] = "integrate" /\ l = "idle" /\ c # repo[u] =>
    fr[u].adv[fr[u].from[2]] \subseteq c.local[c.head]

Promise(u, c, l) ==
  /\ Kept(repo[u], c) /\ Followed(repo[u], c) /\ OwnUpstream(repo[u], c)
  /\ Brought(u, c, l)

-----------------------------------------------------------------------------

\* The order in which a rebase copies commits: each of them once.
LEMMA InOrder ==
  ASSUME NEW S, IsFiniteSet(S)
  PROVE  /\ Cardinality(S) \in Nat
         /\ SetToSeq(S) \in [1 .. Cardinality(S) -> S]
         /\ \A x \in S : \E i \in 1 .. Cardinality(S) : SetToSeq(S)[i] = x
<1>1. Cardinality(S) \in Nat /\ ExistsBijection(1 .. Cardinality(S), S)
  BY FS_CardinalityType
<1>. DEFINE N == 1 .. Cardinality(S)
            f == SetToSeq(S)
<1>2. \E g \in [N -> S] : IsInjective(g)
  BY <1>1 DEF ExistsBijection, Bijection, Injection
<1>3. f \in [N -> S] /\ IsInjective(f)
  BY <1>2 DEF SetToSeq
<1>4. IsFiniteSet(N) /\ Cardinality(N) = Cardinality(S)
  BY <1>1, FS_Interval
<1>5. f \in Injection(N, S)
  BY <1>3 DEF Injection
<1>. HIDE DEF N, f
<1>6. f \in Surjection(N, S)
  BY <1>4, <1>5, FS_Injection
<1>. QED BY <1>1, <1>3, <1>6 DEF Surjection, N, f

\* Commits are added, never changed.
Grows ==
  /\ Len(made) <= Len(made')
  /\ \A k \in 1 .. Len(made) : made'[k] = made[k]

LEMMA CloneGrows ==
  ASSUME NEW c, NEW n \in Nat, NEW m \in Nat, n <= m, CloneOK(c, n)
  PROVE  CloneOK(c, m)
<1>1. 1 .. n \subseteq 1 .. m
  OBVIOUS
<1>. QED BY <1>1 DEF CloneOK

\* What a user has stays: the changes of the commits too.
LEMMA SamePromise ==
  ASSUME MadeOK, MadeOK', Grows, NEW u \in Users, CloneOK(repo[u], Len(made)),
         NEW l
  PROVE  Promise(u, repo[u], l)
<1>1. ASSUME NEW b \in Branches
      PROVE  Changes(repo[u].local[b]) \subseteq {made'[k] : k \in repo[u].local[b]}
  <2>1. \A k \in repo[u].local[b] : made'[k] = made[k]
    BY DEF CloneOK, Grows
  <2>. QED BY <2>1 DEF Changes
<1>. QED BY <1>1 DEF Promise, Kept, Followed, TrackFollowed, MirrorFollowed, OwnUpstream, Brought

\* A step of one user, who ends with the clone c, at l, with the variables f.
LEMMA OneUser ==
  ASSUME RemoteInv, NEW u \in Users, NEW c, NEW l, NEW f,
         repo' = [repo EXCEPT ![u] = c], pc' = [pc EXCEPT ![u] = l],
         fr' = [fr EXCEPT ![u] = f],
         MadeOK', ServerOK', Grows,
         UserOK(c, l, f, Len(made')), Promise(u, c, l)
  PROVE  RemoteInv' /\ \A v \in Users : Promise(v, repo'[v], pc'[v])
<1>1. repo'[u] = c /\ pc'[u] = l /\ fr'[u] = f
  BY DEF RemoteInv, Functions3
<1>2. Functions3'
  BY DEF RemoteInv, Functions3, UserOK, CloneOK
<1>3. Len(made) \in Nat /\ Len(made') \in Nat /\ Len(made) <= Len(made')
  BY DEF RemoteInv, MadeOK, Grows
<1>4. ASSUME NEW v \in Users
      PROVE  UserOK(repo'[v], pc'[v], fr'[v], Len(made')) /\ Promise(v, repo'[v], pc'[v])
  <2>1. CASE v = u
    BY <2>1, <1>1
  <2>2. CASE v # u
    <3>1. repo'[v] = repo[v] /\ pc'[v] = pc[v] /\ fr'[v] = fr[v]
      BY <2>2 DEF RemoteInv, Functions3
    <3>2. UserOK(repo[v], pc[v], fr[v], Len(made))
      BY DEF RemoteInv
    <3>3. CloneOK(repo[v], Len(made'))
      BY <3>2, <1>3, CloneGrows DEF UserOK
    <3>4. Promise(v, repo[v], pc'[v])
      BY <3>2, SamePromise DEF UserOK, RemoteInv
    <3>. QED BY <3>1, <3>2, <3>3, <3>4 DEF UserOK
  <2>. QED BY <2>1, <2>2
<1>. QED BY <1>2, <1>4 DEF RemoteInv

\* What holds of every user at every step.
LEMMA UserFacts ==
  ASSUME RemoteInv, NEW u \in Users
  PROVE  /\ UserOK(repo[u], pc[u], fr[u], Len(made)) /\ CloneOK(repo[u], Len(made))
         /\ repo = [repo EXCEPT ![u] = repo[u]] /\ pc = [pc EXCEPT ![u] = pc[u]]
         /\ fr = [fr EXCEPT ![u] = fr[u]]
         /\ MadeOK /\ ServerOK /\ Len(made) \in Nat
  BY DEF RemoteInv, Functions3, UserOK, MadeOK

\* A step that leaves the commits alone.
LEMMA SameMade ==
  ASSUME MadeOK, UNCHANGED made
  PROVE  MadeOK' /\ Grows
  BY DEF MadeOK, Grows

\* A step that leaves the clone alone: the session dies, the servers change,
\* a push connects.
LEMMA SameClone ==
  ASSUME RemoteInv, NEW u \in Users, NEW l \in Labels, NEW f \in Frame,
         UNCHANGED <<made, repo>>, ServerOK', pc' = [pc EXCEPT ![u] = l],
         fr' = [fr EXCEPT ![u] = f], InCall(repo[u], l, f)
  PROVE  RemoteInv' /\ \A v \in Users : Promise(v, repo'[v], pc'[v])
<1>1. MadeOK' /\ Grows
  BY UserFacts, SameMade
<1>2. repo' = [repo EXCEPT ![u] = repo[u]] /\ CloneOK(repo[u], Len(made))
  BY UserFacts
<1>3. Promise(u, repo[u], l)
  BY <1>1, <1>2, UserFacts, SamePromise
<1>4. UserOK(repo[u], l, f, Len(made'))
  BY <1>2 DEF UserOK
<1>. QED BY <1>1, <1>2, <1>3, <1>4, OneUser

-----------------------------------------------------------------------------
(* git_clone and git_fetch.                                                *)

\* The parts of a clone.
LEMMA CloneParts ==
  ASSUME NEW c
  PROVE  c \in Clone <=>
           /\ c = [kind |-> c.kind, url |-> c.url, local |-> c.local,
                   track |-> c.track, upstream |-> c.upstream,
                   mirrors |-> c.mirrors, head |-> c.head]
           /\ c.kind \in {"none", "work", "mirror"}
           /\ c.url \in [Remotes -> Servers \cup {None}]
           /\ c.local \in [Branches -> History]
           /\ c.track \in [Remotes -> [Branches -> History]]
           /\ c.upstream \in [Branches -> Upstreams]
           /\ c.mirrors \in SUBSET Remotes
           /\ c.head \in Branches
  BY DEF Clone

LEMMA NoCloneParts ==
  /\ NoClone.kind = "none" /\ NoClone.url = [r \in Remotes |-> None]
  /\ NoClone.local = NoRefs /\ NoClone.track = [r \in Remotes |-> NoRefs]
  /\ NoClone.upstream = [b \in Branches |-> None] /\ NoClone.head = DefaultBranch
  /\ NoClone.mirrors = {} /\ NoTracks \in [Remotes -> [Branches -> History]]
  /\ \A r \in Remotes, b \in Branches : NoTracks[r][b] = {}
  /\ NoClone \in Clone /\ NoRefs \in [Branches -> History]
<1>1. NoRefs \in [Branches -> History]
  BY DEF NoRefs, History
<1>. QED BY <1>1 DEF NoClone, Clone, Upstreams, NoTracks, NoRefs

LEMMA HistoryFact ==
  ASSUME MadeOK
  PROVE  SUBSET Commits \subseteq History
  BY DEF MadeOK, Commits, History

LEMMA NewClones ==
  ASSUME ServerOK, MadeOK, NEW s \in Servers, NEW b \in Branches
  PROVE  /\ CloneOK(WorkClone(s, b), Len(made))
         /\ WorkClone(s, b).kind = "work"
         /\ \A r \in Remotes, d \in Branches :
              WorkClone(s, b).track[r][d] # {} =>
                WorkClone(s, b).track[r][d] = server[WorkClone(s, b).url[r]][d]
         /\ \A d \in Branches :
              WorkClone(s, b).upstream[d] # None => WorkClone(s, b).upstream[d][2] = d
         /\ CloneOK(MirrorClone(s), Len(made))
         /\ MirrorClone(s).kind = "mirror" /\ MirrorClone(s).mirrors = {Origin}
         /\ MirrorClone(s).local = server[s] /\ MirrorClone(s).url[Origin] = s
         /\ \A r \in Remotes, d \in Branches : MirrorClone(s).track[r][d] = {}
         /\ \A d \in Branches : MirrorClone(s).upstream[d] = None
<1>. DEFINE w == WorkClone(s, b)
            m == MirrorClone(s)
<1>1. /\ w.kind = "work" /\ w.url = [NoClone.url EXCEPT ![Origin] = s]
      /\ w.track = [NoClone.track EXCEPT ![Origin] = server[s]] /\ w.head = b
      /\ w.local = [NoClone.local EXCEPT ![b] = server[s][b]]
      /\ w.upstream = [NoClone.upstream EXCEPT ![b] = <<Origin, b>>]
      /\ w.mirrors = {}
  BY NoCloneParts DEF WorkClone, Clone
<1>2. /\ m.kind = "mirror" /\ m.url = [NoClone.url EXCEPT ![Origin] = s]
      /\ m.track = NoClone.track /\ m.head = DefaultBranch
      /\ m.local = server[s] /\ m.upstream = NoClone.upstream
      /\ m.mirrors = {Origin}
  BY NoCloneParts DEF MirrorClone, Clone
<1>. HIDE DEF w, m
<1>3. server[s] \in [Branches -> SUBSET Commits] /\ SUBSET Commits \subseteq History
  BY HistoryFact DEF ServerOK
<1>4. w \in Clone /\ m \in Clone
  <2>. DEFINE url == [NoClone.url EXCEPT ![Origin] = s]
              track == [NoClone.track EXCEPT ![Origin] = server[s]]
              local == [NoClone.local EXCEPT ![b] = server[s][b]]
              upstream == [NoClone.upstream EXCEPT ![b] = <<Origin, b>>]
  <2>1. /\ url \in [Remotes -> Servers \cup {None}]
        /\ track \in [Remotes -> [Branches -> History]]
        /\ local \in [Branches -> History] /\ server[s] \in [Branches -> History]
        /\ upstream \in [Branches -> Upstreams]
    BY <1>3, NoCloneParts DEF Upstreams
  <2>2. w = [NoClone EXCEPT !.kind = "work", !.url = url, !.track = track,
               !.head = b, !.local = local, !.upstream = upstream]
    BY NoCloneParts DEF w, WorkClone, Clone
  <2>3. m = [NoClone EXCEPT !.kind = "mirror", !.url = url, !.local = server[s],
               !.mirrors = {Origin}]
    BY NoCloneParts DEF m, MirrorClone, Clone
  <2>. HIDE DEF url, track, local, upstream
  <2>. QED BY <2>1, <2>2, <2>3, NoCloneParts DEF Clone
<1>5. \A d \in Branches : w.local[d] \subseteq Commits /\ m.local[d] \subseteq Commits
  BY <1>1, <1>2, <1>3, NoCloneParts DEF NoRefs
<1>6. /\ \A r \in Remotes : w.track[r] = IF r = Origin THEN server[s] ELSE NoRefs
      /\ \A r \in Remotes : m.track[r] = NoRefs
      /\ w.url[Origin] = s /\ m.url[Origin] = s /\ s # None
  BY <1>1, <1>2, NoCloneParts
<1>7. /\ \A d \in Branches : w.upstream[d] = IF d = b THEN <<Origin, b>> ELSE None
      /\ \A d \in Branches : m.upstream[d] = None
  BY <1>1, <1>2, NoCloneParts
<1>8. \A r \in Remotes, d \in Branches :
         /\ w.track[r][d] \subseteq Commits /\ m.track[r][d] = {}
         /\ w.track[r][d] # {} => r = Origin /\ w.track[r][d] = server[s][d]
  BY <1>3, <1>6 DEF NoRefs
<1>10. w.mirrors = {} /\ m.kind # "work"
  BY <1>1, <1>2
<1>9. CloneOK(w, Len(made)) /\ CloneOK(m, Len(made))
  BY <1>4, <1>5, <1>6, <1>7, <1>8, <1>10 DEF CloneOK, Commits
<1>. QED BY <1>1, <1>2, <1>6, <1>7, <1>8, <1>9 DEF w, m

LEMMA CloneStep ==
  ASSUME RemoteInv, NEW u \in Users, CallClone(u)
  PROVE  RemoteInv' /\ \A v \in Users : Promise(v, repo'[v], pc'[v])
<1>1. PICK s \in Servers, b \in Branches :
        /\ repo[u].kind = "none" /\ UNCHANGED <<made, server, pc, fr>>
        /\ \/ Become(u, WorkClone(s, b)) \/ Become(u, MirrorClone(s))
  BY DEF CallClone
<1>2. PICK c \in {WorkClone(s, b), MirrorClone(s)} : Become(u, c)
  BY <1>1
<1>3. MadeOK' /\ Grows /\ ServerOK' /\ MadeOK /\ ServerOK
  BY <1>1, UserFacts, SameMade DEF ServerOK, Commits
<1>4. pc[u] = "idle"
  BY <1>1, UserFacts DEF UserOK, InCall, Labels
<1>5. UserOK(c, pc[u], fr[u], Len(made'))
  BY <1>1, <1>2, <1>3, <1>4, UserFacts, NewClones DEF UserOK, InCall
<1>6. Promise(u, c, pc[u])
  <2>1. Kept(repo[u], c) /\ Brought(u, c, pc[u])
    BY <1>1, <1>4 DEF Kept, Brought
  <2>2. Followed(repo[u], c)
    BY <1>1, <1>2, <1>3, NewClones DEF Followed, TrackFollowed, MirrorFollowed
  <2>3. OwnUpstream(repo[u], c)
    BY <1>1, <1>2, <1>3, NewClones DEF OwnUpstream
  <2>. QED BY <2>1, <2>2, <2>3 DEF Promise
<1>7. pc' = [pc EXCEPT ![u] = pc[u]] /\ fr' = [fr EXCEPT ![u] = fr[u]]
  BY <1>1, UserFacts
<1>. QED BY <1>2, <1>3, <1>5, <1>6, <1>7, OneUser DEF Become

\* c is a, with the tracking branches of r, or those of a mirror, moved to what
\* its server has or gone.
OnlyFetched(a, c, r, heads) ==
  /\ c.kind = a.kind /\ c.url = a.url /\ c.head = a.head
  /\ c.upstream = a.upstream /\ c.mirrors = a.mirrors
  /\ r \notin a.mirrors => c.local = a.local
  /\ \A b \in Branches : c.local[b] # a.local[b] => c.local[b] = heads[b]
  /\ \A q \in Remotes, b \in Branches :
       c.track[q][b] # a.track[q][b] /\ c.track[q][b] # {}
         => q = r /\ c.track[q][b] = heads[b]
  /\ r \notin a.mirrors => \A b \in Branches :
       heads[b] # {} => c.track[r][b] = heads[b]

\* A fetch does that and nothing else.
LEMMA Fetching ==
  ASSUME RemoteInv, NEW u \in Users, NEW r \in Known(u), NEW prune \in BOOLEAN,
         NEW a, a = repo[u], NEW c, c = AfterFetch(a, r, prune),
         NEW heads, heads = server[a.url[r]]
  PROVE  CloneOK(c, Len(made)) /\ OnlyFetched(a, c, r, heads)
<1>. DEFINE N == Len(made)
<1>1. /\ a \in Clone /\ CloneOK(a, N) /\ r \in Remotes /\ a.url[r] # None
      /\ MadeOK /\ ServerOK
  BY UserFacts DEF CloneOK, Known
<1>2. a.url[r] \in Servers
  BY <1>1 DEF Clone
<1>3. heads \in [Branches -> SUBSET Commits] /\ SUBSET Commits \subseteq History
  BY <1>1, <1>2, HistoryFact DEF ServerOK
<1>4. ASSUME NEW old \in [Branches -> SUBSET Commits]
      PROVE  LET new == RefsAfterFetch(old, heads, prune) IN
             /\ new \in [Branches -> SUBSET Commits]
             /\ \A b \in Branches : new[b] # old[b] => new[b] = heads[b]
             /\ \A b \in Branches : heads[b] # {} => new[b] = heads[b]
  BY <1>3 DEF RefsAfterFetch
<1>5. a.local \in [Branches -> SUBSET Commits] /\ a.track[r] \in [Branches -> SUBSET Commits]
  BY <1>1 DEF CloneOK, Clone, Commits
<1>6. CASE r \in a.mirrors
  <2>. DEFINE new == RefsAfterFetch(a.local, heads, prune)
              tracks == IF prune THEN NoTracks ELSE a.track
  <2>1. c = [a EXCEPT !.local = new, !.track = tracks]
    BY <1>6 DEF AfterFetch
  <2>2. /\ new \in [Branches -> SUBSET Commits]
        /\ \A b \in Branches : new[b] # a.local[b] => new[b] = heads[b]
    BY <1>4, <1>5
  <2>6. /\ tracks \in [Remotes -> [Branches -> History]]
        /\ \A q \in Remotes, b \in Branches : tracks[q][b] \in {{}, a.track[q][b]}
    BY <1>1, NoCloneParts DEF Clone
  <2>. HIDE DEF new, tracks
  <2>3. /\ c.kind = a.kind /\ c.url = a.url /\ c.head = a.head
        /\ c.upstream = a.upstream /\ c.track = tracks /\ c.local = new
        /\ c.mirrors = a.mirrors
    BY <1>1, <2>1 DEF Clone
  <2>4. c \in Clone
    <3>1. new \in [Branches -> History]
      BY <1>3, <2>2
    <3>. QED BY <1>1, <2>1, <2>6, <3>1 DEF Clone
  <2>5. CloneOK(c, N)
    <3>1. \A q \in Remotes, b \in Branches :
            /\ c.track[q][b] \subseteq 1 .. N
            /\ c.track[q][b] # {} => c.url[q] # None
      BY <1>1, <2>3, <2>6 DEF CloneOK
    <3>2. \A b \in Branches : c.local[b] \subseteq 1 .. N
      BY <2>2, <2>3 DEF Commits
    <3>. QED BY <1>1, <2>3, <2>4, <3>1, <3>2 DEF CloneOK
  <2>. QED BY <1>6, <2>2, <2>3, <2>5, <2>6 DEF OnlyFetched
<1>7. CASE r \notin a.mirrors
  <2>. DEFINE new == RefsAfterFetch(a.track[r], heads, prune)
  <2>1. c = [a EXCEPT !.track[r] = new]
    BY <1>7 DEF AfterFetch
  <2>2. /\ new \in [Branches -> SUBSET Commits]
        /\ \A b \in Branches : new[b] # a.track[r][b] => new[b] = heads[b]
        /\ \A b \in Branches : heads[b] # {} => new[b] = heads[b]
    BY <1>4, <1>5
  <2>. HIDE DEF new
  <2>3. /\ c.kind = a.kind /\ c.url = a.url /\ c.head = a.head
        /\ c.upstream = a.upstream /\ c.local = a.local /\ c.mirrors = a.mirrors
        /\ c.track = [a.track EXCEPT ![r] = new]
    BY <1>1, <2>1 DEF Clone
  <2>4. \A q \in Remotes : c.track[q] = IF q = r THEN new ELSE a.track[q]
    BY <1>1, <2>3 DEF Clone
  <2>5. c \in Clone
    <3>1. new \in [Branches -> History]
      BY <1>3, <2>2
    <3>2. [a.track EXCEPT ![r] = new] \in [Remotes -> [Branches -> History]]
      BY <1>1, <3>1 DEF Clone
    <3>. QED BY <1>1, <2>1, <2>3, <3>2 DEF Clone
  <2>6. CloneOK(c, N)
    BY <1>1, <2>2, <2>3, <2>4, <2>5 DEF CloneOK, Commits
  <2>7. \A q \in Remotes, b \in Branches :
          c.track[q][b] # a.track[q][b] => q = r /\ c.track[q][b] = heads[b]
    BY <2>2, <2>4
  <2>8. \A b \in Branches : heads[b] # {} => c.track[r][b] = heads[b]
    BY <1>1, <2>2, <2>4
  <2>. QED BY <1>7, <2>3, <2>6, <2>7, <2>8 DEF OnlyFetched
<1>. QED BY <1>6, <1>7

\* Whatever the call goes on to do, a fetch keeps the promises.
LEMMA FetchPromise ==
  ASSUME RemoteInv, NEW u \in Users, NEW r \in Known(u), NEW prune \in BOOLEAN,
         NEW l, pc[u] = "idle", UNCHANGED <<made, server>>
  PROVE  Promise(u, AfterFetch(repo[u], r, prune), l)
<1>. DEFINE a == repo[u]
            c == AfterFetch(a, r, prune)
<1>1. CloneOK(c, Len(made)) /\ OnlyFetched(a, c, r, server[a.url[r]])
  BY Fetching
<1>2. Promise(u, a, l) /\ CloneOK(a, Len(made)) /\ r \in Remotes
  BY UserFacts, SameMade, SamePromise DEF Known
<1>. HIDE DEF c
<1>3. Kept(a, c)
  BY <1>1, <1>2 DEF Promise, Kept, OnlyFetched, CloneOK
<1>4. TrackFollowed(a, c)
  BY <1>1 DEF TrackFollowed, OnlyFetched
<1>5. OwnUpstream(a, c) /\ Brought(u, c, l)
  BY <1>1 DEF OwnUpstream, Brought, OnlyFetched
<1>6. MirrorFollowed(a, c)
  <2>. SUFFICES ASSUME NEW b \in Branches, c.local[b] # a.local[b]
                PROVE  \E q \in c.mirrors : c.local[b] = server'[c.url[q]][b]
    BY DEF MirrorFollowed
  <2>1. r \in a.mirrors /\ c.local[b] = server[a.url[r]][b]
    BY <1>1 DEF OnlyFetched
  <2>. QED BY <1>1, <2>1 DEF OnlyFetched
<1>. QED BY <1>3, <1>4, <1>5, <1>6 DEF Promise, Followed, c

LEMMA ReachedKnown ==
  ASSUME NEW u \in Users, NEW r \in Reached(u)
  PROVE  r \in Known(u) /\ r \in Remotes
  BY DEF Reached, Known

LEMMA FetchStep ==
  ASSUME RemoteInv, NEW u \in Users, CallFetch(u)
  PROVE  RemoteInv' /\ \A v \in Users : Promise(v, repo'[v], pc'[v])
<1>1. PICK r \in Reached(u), prune \in BOOLEAN :
        /\ Start(u, "fetch") /\ Become(u, AfterFetch(repo[u], r, prune))
        /\ UNCHANGED <<made, server, pc, fr>>
  BY DEF CallFetch
<1>2. r \in Known(u)
  BY ReachedKnown
<1>. DEFINE c == AfterFetch(repo[u], r, prune)
<1>3. pc[u] = "idle" /\ repo' = [repo EXCEPT ![u] = c]
  BY <1>1 DEF Start, Become
<1>4. /\ CloneOK(c, Len(made)) /\ c.kind = repo[u].kind
  BY <1>2, Fetching DEF OnlyFetched
<1>8. Promise(u, c, pc[u])
  BY <1>1, <1>2, <1>3, FetchPromise
<1>5. MadeOK' /\ Grows /\ ServerOK'
  BY <1>1, UserFacts, SameMade DEF ServerOK, Commits
<1>6. UserOK(c, pc[u], fr[u], Len(made'))
  BY <1>1, <1>3, <1>4, UserFacts DEF UserOK, InCall
<1>7. pc' = [pc EXCEPT ![u] = pc[u]] /\ fr' = [fr EXCEPT ![u] = fr[u]]
  BY <1>1, UserFacts
<1>. HIDE DEF c
<1>. QED BY <1>3, <1>5, <1>6, <1>7, <1>8, OneUser

-----------------------------------------------------------------------------
(* git_push.                                                               *)

LEMMA NoFrameOK == NoFrame \in Frame
  BY NoCloneParts DEF NoFrame, Frame, Upstreams

\* A server that gets branches of a clone holds commits that exist.
LEMMA Sending ==
  ASSUME RemoteInv, NEW u \in Users, NEW s \in Servers,
         NEW accepted \in SUBSET Branches,
         server' = Sent(u, s, accepted), UNCHANGED made
  PROVE  /\ ServerOK'
         /\ \A b \in Branches : server'[s][b] =
              IF b \in accepted THEN repo[u].local[b] ELSE server[s][b]
         /\ \A q \in Servers \ {s} : server'[q] = server[q]
<1>1. repo[u].local \in [Branches -> SUBSET Commits] /\ ServerOK
  BY UserFacts DEF CloneOK, Clone, Commits
<1>2. /\ \A b \in Branches : server'[s][b] =
           IF b \in accepted THEN repo[u].local[b] ELSE server[s][b]
      /\ \A q \in Servers \ {s} : server'[q] = server[q]
  BY <1>1 DEF Sent, ServerOK
<1>3. [b \in Branches |-> IF b \in accepted THEN repo[u].local[b]
                                           ELSE server[s][b]]
        \in [Branches -> SUBSET Commits]
  BY <1>1 DEF ServerOK
<1>4. ServerOK'
  BY <1>1, <1>3 DEF Sent, ServerOK, Commits
<1>. QED BY <1>2, <1>4

LEMMA PushFacts ==
  ASSUME RemoteInv, NEW u \in Users, pc[u] \in {"send", "upstream"}
  PROVE  /\ fr[u].remote \in Remotes /\ repo[u].url[fr[u].remote] \in Servers
         /\ fr[u].onto = repo[u].head /\ repo[u].kind # "none"
         /\ fr[u] \in Frame /\ fr[u].push \subseteq Branches
         /\ CloneOK(repo[u], Len(made)) /\ repo[u] \in Clone
<1>1. UserOK(repo[u], pc[u], fr[u], Len(made))
  BY UserFacts
<1>. QED BY <1>1 DEF UserOK, InCall, CloneOK, Clone, Frame

LEMMA PushStep ==
  ASSUME RemoteInv, NEW u \in Users, CallPush(u)
  PROVE  RemoteInv' /\ \A v \in Users : Promise(v, repo'[v], pc'[v])
<1>1. PICK r \in Reached(u), push \in Pushes(u), force, set \in BOOLEAN :
        /\ Start(u, "push")
        /\ ~force => ~NotFastForward(u, repo[u].url[r], push)
        /\ Keep(u, [NoFrame EXCEPT !.remote = r, !.onto = repo[u].head,
                  !.force = force, !.push = push,
                  !.adv = Advertised(server[repo[u].url[r]], push),
                  !.setUpstream = set \/ (/\ InfoUpstream(u) = None
                                          /\ repo[u].kind = "work")])
        /\ Goto(u, "send")
        /\ UNCHANGED <<made, server, repo>>
  BY DEF CallPush
<1>2. /\ r \in Known(u) /\ r \in Remotes /\ repo[u].url[r] \in Servers
      /\ repo[u].url[r] # None
      /\ repo[u].head \in Branches /\ MadeOK /\ ServerOK
  BY ReachedKnown, UserFacts DEF Known, CloneOK, Clone
<1>3. push \subseteq Branches
  BY DEF Pushes
<1>. DEFINE adv == Advertised(server[repo[u].url[r]], push)
            set2 == set \/ (InfoUpstream(u) = None /\ repo[u].kind = "work")
            f == [NoFrame EXCEPT !.remote = r, !.onto = repo[u].head,
                    !.force = force, !.push = push, !.adv = adv,
                    !.setUpstream = set2]
<1>4. adv \in [Branches -> History] /\ set2 \in BOOLEAN
  <2>1. server[repo[u].url[r]] \in [Branches -> SUBSET Commits] /\ SUBSET Commits \subseteq History
    BY <1>2, HistoryFact DEF ServerOK
  <2>. QED BY <2>1 DEF Advertised, History
<1>5. ~force => \A b \in push : adv[b] \subseteq repo[u].local[b]
  BY <1>1, <1>3 DEF Advertised, NotFastForward
<1>. HIDE DEF adv, set2
<1>6. /\ f \in Frame /\ f.remote = r /\ f.onto = repo[u].head /\ f.force = force
      /\ f.push = push /\ f.adv = adv
  BY <1>2, <1>3, <1>4, NoFrameOK DEF Frame
<1>7. fr' = [fr EXCEPT ![u] = f] /\ pc' = [pc EXCEPT ![u] = "send"]
  BY <1>1 DEF Keep, Goto, adv, set2
<1>. HIDE DEF f
<1>8. InCall(repo[u], "send", f)
  BY <1>1, <1>2, <1>5, <1>6 DEF InCall, Start
<1>9. ServerOK'
  BY <1>1, <1>2 DEF ServerOK, Commits
<1>. QED BY <1>1, <1>6, <1>7, <1>8, <1>9, SameClone DEF Labels

\* A clone after the server has accepted some of the branches.
AfterPush(a, r, accepted, push) ==
  [a EXCEPT !.track[r] = TrackPushed(a, r, accepted, push)]

\* c is a, with the tracking branches of the accepted branches moved.
OnlyTracks(a, c, r, accepted) ==
  /\ c.kind = a.kind /\ c.url = a.url /\ c.head = a.head
  /\ c.upstream = a.upstream /\ c.local = a.local /\ c.mirrors = a.mirrors
  /\ \A q \in Remotes, b \in Branches :
       c.track[q][b] # a.track[q][b] =>
         q = r /\ b \in accepted /\ c.track[q][b] = a.local[b]

\* A push moves the tracking branches that were accepted and nothing else.
LEMMA Tracking ==
  ASSUME NEW n \in Nat, NEW a, CloneOK(a, n), NEW r \in Remotes, a.url[r] # None,
         NEW accepted \in SUBSET Branches, NEW push,
         NEW c, c = AfterPush(a, r, accepted, push)
  PROVE  CloneOK(c, n) /\ OnlyTracks(a, c, r, accepted)
<1>. DEFINE new == TrackPushed(a, r, accepted, push)
<1>1. a \in Clone
  BY DEF CloneOK
<1>2. /\ new \in [Branches -> History]
      /\ \A b \in Branches : new[b] = IF b \in accepted THEN a.local[b]
                                                     ELSE a.track[r][b]
  BY <1>1 DEF TrackPushed, Clone
<1>. HIDE DEF new
<1>3. /\ c.kind = a.kind /\ c.url = a.url /\ c.head = a.head
      /\ c.upstream = a.upstream /\ c.local = a.local /\ c.mirrors = a.mirrors
      /\ c.track = [a.track EXCEPT ![r] = new]
  BY <1>1 DEF Clone, AfterPush, new
<1>4. \A q \in Remotes, b \in Branches :
        c.track[q][b] = IF q = r /\ b \in accepted THEN a.local[b] ELSE a.track[q][b]
  BY <1>1, <1>2, <1>3 DEF Clone
<1>5. \A q \in Remotes, b \in Branches :
        c.track[q][b] # a.track[q][b] =>
          q = r /\ b \in accepted /\ c.track[q][b] = a.local[b]
  BY <1>4
<1>6. [a.track EXCEPT ![r] = new] \in [Remotes -> [Branches -> History]]
  BY <1>1, <1>2 DEF Clone
<1>7. c \in Clone
  BY <1>1, <1>3, <1>6 DEF Clone, AfterPush, new
<1>8. CloneOK(c, n)
  BY <1>3, <1>4, <1>7 DEF CloneOK
<1>. QED BY <1>3, <1>8, <1>5 DEF OnlyTracks

LEMMA SendStep ==
  ASSUME RemoteInv, NEW u \in Users, PushSend(u)
  PROVE  RemoteInv' /\ \A v \in Users : Promise(v, repo'[v], pc'[v])
<1>. DEFINE r == fr[u].remote
            s == repo[u].url[r]
            a == repo[u]
<1>1. pc[u] = "send" /\ UNCHANGED made
  BY DEF PushSend
<1>2. PICK accepted \in Acceptable(u, s) :
       /\ server' = Sent(u, s, accepted)
       /\ IF r \in repo[u].mirrors THEN UNCHANGED repo
            ELSE Become(u, [repo[u] EXCEPT !.track[r] =
                   TrackPushed(repo[u], r, accepted, fr[u].push)])
       /\ IF fr[u].setUpstream
            THEN /\ Keep(u, [fr[u] EXCEPT !.accepted = accepted])
                 /\ Goto(u, "upstream")
            ELSE Return(u)
  BY DEF PushSend
<1>3. /\ r \in Remotes /\ s \in Servers /\ fr[u].onto = a.head /\ a.kind # "none"
      /\ fr[u] \in Frame /\ fr[u].push \subseteq Branches /\ s # None
      /\ CloneOK(a, Len(made)) /\ a \in Clone
  BY <1>1, PushFacts
<1>4. accepted \in SUBSET Branches
  BY <1>3 DEF Acceptable
<1>5. /\ MadeOK' /\ Grows /\ Len(made) \in Nat /\ Promise(u, a, "idle")
      /\ repo = [repo EXCEPT ![u] = a]
  BY <1>1, UserFacts, SameMade, SamePromise
<1>6. /\ ServerOK'
      /\ \A b \in Branches : b \in accepted => server'[s][b] = a.local[b]
  <2>1. s \in Servers /\ accepted \in SUBSET Branches /\ UNCHANGED made
        /\ server' = Sent(u, s, accepted)
    BY <1>1, <1>2, <1>3, <1>4
  <2>. HIDE DEF r, s
  <2>. QED BY <2>1, Sending
<1>7. PICK c : /\ repo' = [repo EXCEPT ![u] = c] /\ CloneOK(c, Len(made))
               /\ OnlyTracks(a, c, r, accepted)
  <2>1. CASE r \in a.mirrors
    <3>1. repo' = [repo EXCEPT ![u] = a]
      BY <2>1, <1>2, <1>5
    <3>2. OnlyTracks(a, a, r, accepted)
      BY DEF OnlyTracks
    <3>. QED BY <3>1, <3>2, <1>3
  <2>2. CASE r \notin a.mirrors
    <3>. DEFINE c == AfterPush(a, r, accepted, fr[u].push)
    <3>1. repo' = [repo EXCEPT ![u] = c]
      BY <2>2, <1>2 DEF Become, AfterPush
    <3>2. r \in Remotes /\ a.url[r] # None /\ accepted \in SUBSET Branches
      BY <1>3, <1>4
    <3>3. CloneOK(c, Len(made)) /\ OnlyTracks(a, c, r, accepted)
      BY <3>2, <1>3, <1>5, Tracking
    <3>. HIDE DEF c
    <3>. QED BY <3>1, <3>3
  <2>. QED BY <2>1, <2>2
<1>. DEFINE l == IF fr[u].setUpstream THEN "upstream" ELSE "idle"
            f == IF fr[u].setUpstream THEN [fr[u] EXCEPT !.accepted = accepted]
                                      ELSE NoFrame
<1>8. /\ pc' = [pc EXCEPT ![u] = l] /\ fr' = [fr EXCEPT ![u] = f]
      /\ l \in {"idle", "upstream"} /\ f \in Frame
      /\ l = "upstream" => f.remote = r /\ f.onto = a.head
  <2>1. CASE fr[u].setUpstream
    <3>1. [fr[u] EXCEPT !.accepted = accepted] \in Frame
      BY <1>3, <1>4 DEF Frame
    <3>2. /\ [fr[u] EXCEPT !.accepted = accepted].remote = r
          /\ [fr[u] EXCEPT !.accepted = accepted].onto = fr[u].onto
      BY <1>3 DEF Frame
    <3>. QED BY <2>1, <3>1, <3>2, <1>2, <1>3 DEF Keep, Goto
  <2>2. CASE ~fr[u].setUpstream
    BY <2>2, <1>2, NoFrameOK DEF Return, Keep, Goto
  <2>. QED BY <2>1, <2>2
<1>. HIDE DEF l, f
<1>9. UserOK(c, l, f, Len(made'))
  BY <1>1, <1>3, <1>7, <1>8 DEF UserOK, InCall, Labels, OnlyTracks
<1>10. Promise(u, c, l)
  <2>1. Kept(a, c)
    BY <1>5, <1>7 DEF Promise, Kept, OnlyTracks
  <2>2. Followed(a, c)
    BY <1>6, <1>7 DEF Followed, TrackFollowed, MirrorFollowed, OnlyTracks
  <2>3. OwnUpstream(a, c) /\ Brought(u, c, l)
    BY <1>1, <1>7 DEF OwnUpstream, Brought, OnlyTracks
  <2>. QED BY <2>1, <2>2, <2>3 DEF Promise
<1>. QED BY <1>5, <1>6, <1>7, <1>8, <1>9, <1>10, OneUser

\* A call that ends without touching the clone.
LEMMA EndStep ==
  ASSUME RemoteInv, NEW u \in Users, UNCHANGED <<made, repo>>, ServerOK', Return(u)
  PROVE  RemoteInv' /\ \A v \in Users : Promise(v, repo'[v], pc'[v])
  BY NoFrameOK, SameClone DEF Return, Keep, Goto, InCall, Labels

LEMMA LostStep ==
  ASSUME RemoteInv, NEW u \in Users, PushLost(u)
  PROVE  RemoteInv' /\ \A v \in Users : Promise(v, repo'[v], pc'[v])
<1>. DEFINE s == repo[u].url[fr[u].remote]
<1>1. PICK accepted \in Acceptable(u, s) : server' = Sent(u, s, accepted)
  BY DEF PushLost
<1>2. s \in Servers /\ accepted \subseteq Branches
  BY PushFacts DEF PushLost, Acceptable
<1>3. ServerOK'
  BY <1>1, <1>2, Sending DEF PushLost
<1>. QED BY <1>3, EndStep DEF PushLost

LEMMA UpstreamStep ==
  ASSUME RemoteInv, NEW u \in Users, PushUpstream(u)
  PROVE  RemoteInv' /\ \A v \in Users : Promise(v, repo'[v], pc'[v])
<1>. DEFINE r == fr[u].remote
            b == fr[u].onto
            a == repo[u]
            c == [a EXCEPT !.upstream[a.head] = <<r, b>>]
<1>1. pc[u] = "upstream" /\ Return(u) /\ UNCHANGED <<made, server>>
  BY DEF PushUpstream
<1>2. /\ r \in Remotes /\ a.url[r] \in Servers /\ b = a.head
      /\ CloneOK(a, Len(made)) /\ a \in Clone
  BY <1>1, PushFacts
<1>3. /\ MadeOK' /\ Grows /\ ServerOK' /\ Promise(u, a, "idle")
  BY <1>1, UserFacts, SameMade, SamePromise DEF ServerOK, Commits
<1>4. CASE UNCHANGED repo
  BY <1>1, <1>3, <1>4, EndStep
<1>5. CASE Become(u, c)
  <2>1. /\ c.kind = a.kind /\ c.url = a.url /\ c.head = a.head
        /\ c.local = a.local /\ c.track = a.track /\ c.mirrors = a.mirrors
        /\ \A d \in Branches : c.upstream[d] = IF d = a.head THEN <<r, b>>
                                                           ELSE a.upstream[d]
    BY <1>2 DEF Clone
  <2>2. c \in Clone
    <3>1. a.head \in Branches /\ <<r, b>> \in Upstreams
      BY <1>2 DEF Clone, Upstreams
    <3>2. [a.upstream EXCEPT ![a.head] = <<r, b>>] \in [Branches -> Upstreams]
      BY <1>2, <3>1 DEF Clone
    <3>. QED BY <1>2, <3>2 DEF Clone
  <2>. HIDE DEF c
  <2>3. CloneOK(c, Len(made))
    <3>1. a.url[r] # None /\ <<r, b>>[1] = r
      BY <1>2
    <3>2. \A d \in Branches : c.upstream[d] # None => c.url[c.upstream[d][1]] # None
      BY <1>2, <2>1, <3>1 DEF CloneOK
    <3>. QED BY <1>2, <2>1, <2>2, <3>2 DEF CloneOK
  <2>4. UserOK(c, "idle", NoFrame, Len(made'))
    BY <1>1, <2>3, NoFrameOK DEF UserOK, InCall, Labels
  <2>5. Kept(a, c) /\ Followed(a, c)
    BY <1>3, <2>1 DEF Promise, Kept, Followed, TrackFollowed, MirrorFollowed
  <2>6. OwnUpstream(a, c) /\ Brought(u, c, "idle")
    BY <1>1, <1>2, <2>1 DEF OwnUpstream, Brought
  <2>7. Promise(u, c, "idle")
    BY <2>5, <2>6 DEF Promise
  <2>8. /\ repo' = [repo EXCEPT ![u] = c] /\ pc' = [pc EXCEPT ![u] = "idle"]
        /\ fr' = [fr EXCEPT ![u] = NoFrame]
    BY <1>1, <1>5 DEF Return, Keep, Goto, Become, c
  <2>. QED BY <1>3, <2>4, <2>7, <2>8, OneUser
<1>. QED BY <1>4, <1>5 DEF PushUpstream

-----------------------------------------------------------------------------
(* git_pull.                                                               *)

LEMMA PullStep ==
  ASSUME RemoteInv, NEW u \in Users, CallPull(u)
  PROVE  RemoteInv' /\ \A v \in Users : Promise(v, repo'[v], pc'[v])
<1>. DEFINE a == repo[u]
            From(arg) == IF arg # None THEN <<arg, repo[u].head>> ELSE InfoUpstream(u)
            R(arg) == RemoteOf(u, arg)
            C(arg) == AfterFetch(repo[u], RemoteOf(u, arg), FALSE)
            F(arg, rebase) ==
              [NoFrame EXCEPT !.from = From(arg), !.remote = R(arg), !.rebase = rebase,
                 !.adv = Advertised(server[a.url[R(arg)]], {From(arg)[2]})]
<1>1. PICK arg \in Remotes \cup {None}, rebase \in BOOLEAN :
        /\ Start(u, "pull") /\ repo[u].kind = "work"
        /\ HeadTip(u) # {}
        /\ From(arg) # None
        /\ R(arg) \in Known(u)
        /\ Become(u, C(arg))
        /\ IF C(arg).track[From(arg)[1]][From(arg)[2]] # {}
             THEN /\ Keep(u, F(arg, rebase))
                  /\ Goto(u, "integrate")
             ELSE UNCHANGED <<pc, fr>>
        /\ UNCHANGED <<made, server>>
  BY DEF CallPull
<1>. DEFINE from == From(arg)
            r == R(arg)
            c == C(arg)
            heads == server[a.url[r]]
            f == F(arg, rebase)
<1>2. /\ pc[u] = "idle" /\ a \in Clone /\ MadeOK /\ ServerOK /\ Len(made) \in Nat
      /\ a.url[r] \in Servers /\ r \in Remotes /\ MadeOK' /\ Grows /\ ServerOK'
  BY <1>1, UserFacts, SameMade DEF Start, CloneOK, Known, Clone, ServerOK, Commits
<1>3. from \in Remotes \X Branches /\ from[1] = r
  <2>1. CASE arg # None
    BY <2>1, <1>2 DEF RemoteOf, Clone
  <2>2. CASE arg = None
    <3>1. from = InfoUpstream(u) /\ InfoUpstream(u) # None
      BY <2>2, <1>1
    <3>5. InfoUpstream(u) = repo[u].upstream[repo[u].head]
      BY <3>1 DEF InfoUpstream
    <3>2. InfoUpstream(u) \in Upstreams
      BY <3>5, <1>2 DEF Clone
    <3>3. from \in Remotes \X Branches /\ from[1] # None
      BY <3>1, <3>2 DEF Upstreams
    <3>4. InfoRemote(u) = from[1]
      BY <3>1 DEF InfoRemote
    <3>. QED BY <2>2, <3>3, <3>4 DEF RemoteOf
  <2>. QED BY <2>1, <2>2
<1>4. /\ CloneOK(c, Len(made)) /\ c.kind = "work"
      /\ \A b \in Branches : heads[b] # {} => c.track[r][b] = heads[b]
  <2>. DEFINE h == server[a.url[r]]
  <2>1. /\ r \in Known(u) /\ a.kind = "work" /\ a = repo[u]
        /\ c = AfterFetch(a, r, FALSE) /\ h = server[a.url[r]]
    BY <1>1
  <2>. HIDE DEF r, c, a, h
  <2>2. CloneOK(c, Len(made)) /\ OnlyFetched(a, c, r, h)
    BY <2>1, Fetching
  <2>3. a.mirrors = {}
    BY <2>1, UserFacts DEF CloneOK
  <2>. QED BY <2>1, <2>2, <2>3 DEF OnlyFetched, h
<1>5. heads \in [Branches -> SUBSET Commits] /\ SUBSET Commits \subseteq History
  BY <1>2, HistoryFact DEF ServerOK
<1>. DEFINE adv == Advertised(heads, {from[2]})
<1>6. adv \in [Branches -> History] /\ adv[from[2]] = heads[from[2]]
  BY <1>3, <1>5 DEF Advertised, History
<1>7. repo' = [repo EXCEPT ![u] = c]
  BY <1>1 DEF Become
<1>8. ASSUME NEW l
      PROVE  Promise(u, c, l)
  <2>1. r \in Known(u) /\ c = AfterFetch(a, r, FALSE) /\ UNCHANGED <<made, server>>
    BY <1>1
  <2>. HIDE DEF r, c
  <2>. QED BY <1>2, <2>1, FetchPromise
<1>9. CASE c.track[from[1]][from[2]] # {}
  <2>1. fr' = [fr EXCEPT ![u] = f] /\ pc' = [pc EXCEPT ![u] = "integrate"]
    BY <1>1, <1>9 DEF Keep, Goto
  <2>2. f = [NoFrame EXCEPT !.from = from, !.remote = r, !.rebase = rebase, !.adv = adv]
    OBVIOUS
  <2>. HIDE DEF f, adv, heads, c, r, from
  <2>3. f \in Frame /\ f.from = from /\ f.adv = adv
    BY <1>2, <1>3, <1>6, <2>2, NoFrameOK DEF Frame, Upstreams
  <2>4. adv[from[2]] \subseteq c.track[from[1]][from[2]]
    BY <1>3, <1>4, <1>6
  <2>5. UserOK(c, "integrate", f, Len(made'))
    BY <1>1, <1>3, <1>4, <2>3, <2>4 DEF UserOK, InCall, Labels
  <2>. QED BY <1>2, <1>7, <1>8, <2>1, <2>5, OneUser
<1>10. CASE c.track[from[1]][from[2]] = {}
  <2>1. UNCHANGED <<pc, fr>>
    BY <1>1, <1>10
  <2>2. UserOK(c, pc[u], fr[u], Len(made'))
    BY <1>1, <1>2, <1>4, UserFacts DEF UserOK, InCall
  <2>3. pc' = [pc EXCEPT ![u] = pc[u]] /\ fr' = [fr EXCEPT ![u] = fr[u]]
    BY <2>1, UserFacts
  <2>. HIDE DEF c
  <2>. QED BY <1>2, <1>7, <1>8, <2>2, <2>3, OneUser
<1>. QED BY <1>9, <1>10

\* A branch that has everything of both sides: the commits of the upstream, the
\* changes of the branch.
Joined(mine, theirs, tip) ==
  /\ tip \subseteq 1 .. Len(made')
  /\ theirs \subseteq tip
  /\ Changes(mine) \subseteq {made'[k] : k \in tip}

\* A merge or a rebase ends with one.
LEMMA Integrating ==
  ASSUME MadeOK, NEW mine \in SUBSET Commits, NEW theirs \in SUBSET Commits,
         NEW rebase \in BOOLEAN, NEW res, res = Integrated(mine, theirs, rebase),
         made' = made \o res.new, Len(made \o res.new) <= MaxCommits
  PROVE  MadeOK' /\ Grows /\ Joined(mine, theirs, res.tip)
<1>. USE DEF Joined
<1>. DEFINE N == Len(made)
            todo == Todo(mine, theirs)
            order == SetToSeq(todo)
            K == Cardinality(todo)
<1>1. /\ N \in Nat /\ made \in Seq(Nat) /\ DOMAIN made = 1 .. N
      /\ \A k \in 1 .. N : made[k] \in Nat
      /\ mine \subseteq 1 .. N /\ theirs \subseteq 1 .. N
  BY DEF MadeOK, Commits
<1>2. /\ K \in Nat /\ order \in [1 .. K -> todo]
      /\ \A x \in todo : \E i \in 1 .. K : order[i] = x
      /\ todo \subseteq mine
  <2>1. IsFiniteSet(todo) /\ todo \subseteq mine
    <3>1. todo \subseteq 1 .. N /\ todo \subseteq mine
      BY <1>1 DEF Todo
    <3>2. IsFiniteSet(1 .. N)
      BY <1>1, FS_Interval
    <3>. QED BY <3>1, <3>2, FS_Subset
  <2>. HIDE DEF todo
  <2>. QED BY <2>1, InOrder
<1>3. ASSUME NEW new \in Seq(Nat), res.new = new
      PROVE  /\ MadeOK' /\ Grows /\ Len(made') = N + Len(new) /\ Len(new) \in Nat
             /\ \A k \in 1 .. N : made'[k] = made[k]
             /\ \A i \in 1 .. Len(new) : made'[N + i] = new[i]
  BY <1>1, <1>3 DEF MadeOK, Grows
<1>4. ASSUME \A k \in mine : made[k] # 0 => \E j \in res.tip : made'[j] = made[k]
      PROVE  Changes(mine) \subseteq {made'[k] : k \in res.tip}
  <2>. SUFFICES ASSUME NEW x \in Changes(mine)
                PROVE  x \in {made'[k] : k \in res.tip}
    OBVIOUS
  <2>1. PICK k \in mine : x = made[k] /\ made[k] # 0
    BY DEF Changes
  <2>. QED BY <1>4, <2>1
<1>9. ASSUME res.new = <<>>
      PROVE  MadeOK' /\ Grows /\ Len(made') = N /\ \A k \in 1 .. N : made'[k] = made[k]
  <2>1. res.new \in Seq(Nat) /\ Len(res.new) = 0
    BY <1>9
  <2>. HIDE DEF N
  <2>. QED BY <1>1, <1>3, <2>1
<1>5. CASE UpToDate(mine, theirs, rebase)
  <2>1. res.tip = mine /\ res.new = <<>> /\ theirs \subseteq mine
    BY <1>5 DEF Integrated, UpToDate
  <2>2. MadeOK' /\ Grows /\ Len(made') = N /\ \A k \in 1 .. N : made'[k] = made[k]
    BY <1>9, <2>1
  <2>3. Changes(mine) \subseteq {made'[k] : k \in res.tip}
    BY <1>1, <1>4, <2>1, <2>2
  <2>. QED BY <1>1, <2>1, <2>2, <2>3
<1>6. CASE ~UpToDate(mine, theirs, rebase) /\ mine \subseteq theirs
  <2>1. res.tip = theirs /\ res.new = <<>>
    BY <1>6 DEF Integrated
  <2>2. MadeOK' /\ Grows /\ Len(made') = N /\ \A k \in 1 .. N : made'[k] = made[k]
    BY <1>9, <2>1
  <2>3. Changes(mine) \subseteq {made'[k] : k \in res.tip}
    BY <1>1, <1>4, <1>6, <2>1, <2>2
  <2>. QED BY <1>1, <2>1, <2>2, <2>3
<1>7. CASE ~UpToDate(mine, theirs, rebase) /\ ~(mine \subseteq theirs) /\ rebase
  <2>1. /\ res.tip = theirs \cup {N + i : i \in DOMAIN order}
        /\ res.new = [i \in DOMAIN order |-> made[order[i]]]
    BY <1>7 DEF Integrated
  <2>. HIDE DEF order, todo, K, N
  <2>2. /\ DOMAIN order = 1 .. K /\ res.new \in Seq(Nat) /\ Len(res.new) = K
        /\ \A i \in 1 .. K : res.new[i] = made[order[i]]
    <3>1. DOMAIN order = 1 .. K
      BY <1>2
    <3>2. \A i \in 1 .. K : order[i] \in 1 .. N
      BY <1>1, <1>2
    <3>3. res.new \in [1 .. K -> Nat]
      BY <1>1, <2>1, <3>1, <3>2
    <3>. QED BY <1>2, <2>1, <3>1, <3>3
  <2>3. /\ MadeOK' /\ Grows /\ Len(made') = N + K
        /\ \A k \in 1 .. N : made'[k] = made[k]
        /\ \A i \in 1 .. K : made'[N + i] = made[order[i]]
    BY <1>3, <2>2
  <2>4. res.tip \subseteq 1 .. Len(made') /\ theirs \subseteq res.tip
    <3>1. \A i \in 1 .. K : N + i \in 1 .. N + K
      BY <1>1, <1>2
    <3>2. \A k \in 1 .. N : k \in 1 .. N + K
      BY <1>1, <1>2
    <3>3. {N + i : i \in DOMAIN order} \subseteq 1 .. N + K
      BY <2>2, <3>1
    <3>4. theirs \subseteq 1 .. N + K
      BY <1>1, <3>2
    <3>. QED BY <2>1, <2>3, <3>3, <3>4
  <2>5. ASSUME NEW k \in mine, made[k] # 0
        PROVE  \E j \in res.tip : made'[j] = made[k]
    <3>1. CASE k \in theirs
      BY <3>1, <1>1, <2>1, <2>3
    <3>2. CASE k \notin theirs
      <4>1. k \in todo
        BY <2>5, <3>2 DEF todo, Todo
      <4>2. PICK i \in 1 .. K : order[i] = k
        BY <4>1, <1>2
      <4>3. N + i \in res.tip /\ made'[N + i] = made[k]
        BY <4>2, <2>1, <2>2, <2>3
      <4>. QED BY <4>3
    <3>. QED BY <3>1, <3>2
  <2>. QED BY <1>4, <2>3, <2>4, <2>5
<1>8. CASE ~UpToDate(mine, theirs, rebase) /\ ~(mine \subseteq theirs) /\ ~rebase
  <2>1. res.tip = mine \cup theirs \cup {N + 1} /\ res.new = <<0>>
    BY <1>8 DEF Integrated, New
  <2>2. /\ MadeOK' /\ Grows /\ Len(made') = N + 1
        /\ \A k \in 1 .. N : made'[k] = made[k]
    <3>1. <<0>> \in Seq(Nat) /\ Len(<<0>>) = 1
      OBVIOUS
    <3>. QED BY <1>3, <2>1, <3>1
  <2>. HIDE DEF N
  <2>3. Changes(mine) \subseteq {made'[k] : k \in res.tip}
    BY <1>1, <1>4, <2>1, <2>2
  <2>4. (1 .. N) \cup {N + 1} \subseteq 1 .. N + 1
    BY <1>1
  <2>5. res.tip \subseteq 1 .. Len(made') /\ theirs \subseteq res.tip
    BY <1>1, <2>1, <2>2, <2>4
  <2>. QED BY <2>2, <2>3, <2>5
<1>. HIDE DEF N, K, order, todo
<1>. QED BY <1>5, <1>6, <1>7, <1>8

LEMMA IntegrateStep ==
  ASSUME RemoteInv, NEW u \in Users, PullIntegrate(u)
  PROVE  RemoteInv' /\ \A v \in Users : Promise(v, repo'[v], pc'[v])
<1>. DEFINE a == repo[u]
            mine == HeadTip(u)
            theirs == Pulled(u)
            res == Integrated(mine, theirs, fr[u].rebase)
            c == [a EXCEPT !.local[a.head] = res.tip]
<1>1. /\ pc[u] = "integrate" /\ Len(made \o res.new) <= MaxCommits
      /\ made' = made \o res.new /\ Become(u, c) /\ Return(u) /\ UNCHANGED server
  BY DEF PullIntegrate
<1>2. /\ UserOK(a, pc[u], fr[u], Len(made)) /\ a \in Clone /\ CloneOK(a, Len(made))
      /\ MadeOK /\ ServerOK /\ Len(made) \in Nat /\ fr[u].rebase \in BOOLEAN
  BY UserFacts DEF UserOK, CloneOK, Frame
<1>3. /\ fr[u].from \in Remotes \X Branches
      /\ fr[u].adv[fr[u].from[2]] \subseteq theirs
      /\ theirs \in SUBSET Commits /\ mine \in SUBSET Commits /\ a.kind = "work"
  BY <1>1, <1>2 DEF UserOK, InCall, CloneOK, Clone, Pulled, HeadTip, Commits
<1>4. /\ MadeOK' /\ Grows
      /\ res.tip \subseteq 1 .. Len(made')
      /\ theirs \subseteq res.tip
      /\ Changes(mine) \subseteq {made'[k] : k \in res.tip}
  <2>. DEFINE rebase == fr[u].rebase
  <2>1. /\ res = Integrated(mine, theirs, rebase) /\ rebase \in BOOLEAN
        /\ made' = made \o res.new /\ Len(made \o res.new) <= MaxCommits
        /\ mine \in SUBSET Commits /\ theirs \in SUBSET Commits /\ MadeOK
    BY <1>1, <1>2, <1>3
  <2>. HIDE DEF mine, theirs, res, rebase
  <2>2. MadeOK' /\ Grows /\ Joined(mine, theirs, res.tip)
    BY <2>1, Integrating
  <2>. QED BY <2>2 DEF Joined
<1>. HIDE DEF theirs, res
<1>5. /\ c.kind = a.kind /\ c.url = a.url /\ c.head = a.head
      /\ c.upstream = a.upstream /\ c.track = a.track /\ c.mirrors = a.mirrors
      /\ \A b \in Branches : c.local[b] = IF b = a.head THEN res.tip ELSE a.local[b]
  BY <1>2 DEF Clone
<1>6. Len(made') \in Nat /\ Len(made) <= Len(made') /\ Len(made') <= MaxCommits
  BY <1>4 DEF MadeOK, Grows
<1>7. c \in Clone
  <2>1. res.tip \in History
    BY <1>4, <1>6 DEF History
  <2>2. [a.local EXCEPT ![a.head] = res.tip] \in [Branches -> History]
    BY <1>2, <2>1 DEF Clone
  <2>. QED BY <1>2, <2>2 DEF Clone
<1>. HIDE DEF c
<1>8. CloneOK(c, Len(made'))
  <2>1. CloneOK(a, Len(made'))
    BY <1>2, <1>6, CloneGrows
  <2>. QED BY <1>4, <1>5, <1>7, <2>1 DEF CloneOK
<1>9. UserOK(c, "idle", NoFrame, Len(made'))
  BY <1>8, NoFrameOK DEF UserOK, InCall, Labels
<1>10. Promise(u, c, "idle")
  <2>1. Promise(u, a, "idle")
    BY <1>2, <1>4, SamePromise
  <2>2. Kept(a, c)
    BY <1>4, <1>5, <2>1 DEF Promise, Kept, HeadTip
  <2>3. Followed(a, c) /\ OwnUpstream(a, c)
    BY <1>3, <1>5 DEF Followed, TrackFollowed, MirrorFollowed, OwnUpstream
  <2>4. Brought(u, c, "idle")
    <3>1. c.local[c.head] = res.tip
      BY <1>2, <1>5 DEF Clone
    <3>. QED BY <1>3, <1>4, <3>1 DEF Brought
  <2>. QED BY <2>2, <2>3, <2>4 DEF Promise
<1>11. ServerOK'
  <2>1. Commits \subseteq Commits'
    BY <1>2, <1>6 DEF Commits
  <2>. QED BY <1>1, <1>2, <2>1 DEF ServerOK
<1>12. /\ repo' = [repo EXCEPT ![u] = c] /\ pc' = [pc EXCEPT ![u] = "idle"]
       /\ fr' = [fr EXCEPT ![u] = NoFrame]
  BY <1>1 DEF Return, Keep, Goto, Become, c
<1>. QED BY <1>4, <1>9, <1>10, <1>11, <1>12, OneUser

-----------------------------------------------------------------------------
(* Remotes and branches of a clone, the user's commits.                    *)

\* A call that is one step on the user's own clone.
LEMMA OwnStep ==
  ASSUME RemoteInv, NEW u \in Users, pc[u] = "idle", NEW c,
         repo' = [repo EXCEPT ![u] = c], UNCHANGED <<server, pc, fr>>,
         MadeOK', Grows, CloneOK(c, Len(made')),
         Kept(repo[u], c), Followed(repo[u], c), OwnUpstream(repo[u], c)
  PROVE  RemoteInv' /\ \A v \in Users : Promise(v, repo'[v], pc'[v])
<1>1. UserOK(c, pc[u], fr[u], Len(made'))
  BY UserFacts DEF UserOK, InCall
<1>2. Promise(u, c, pc[u])
  BY DEF Promise, Brought
<1>3. ServerOK'
  <2>1. Commits \subseteq Commits' /\ ServerOK
    BY UserFacts DEF Commits, Grows, MadeOK
  <2>. QED BY <2>1 DEF ServerOK
<1>4. pc' = [pc EXCEPT ![u] = pc[u]] /\ fr' = [fr EXCEPT ![u] = fr[u]]
  BY UserFacts
<1>. QED BY <1>1, <1>2, <1>3, <1>4, OneUser

\* The same for a call that makes no commit.
LEMMA QuietStep ==
  ASSUME RemoteInv, NEW u \in Users, pc[u] = "idle", NEW c,
         Become(u, c), UNCHANGED <<made, server, pc, fr>>,
         CloneOK(c, Len(made)),
         repo[u].kind = "work" =>
           \A b \in Branches : repo[u].local[b] \in {{}, c.local[b]},
         Followed(repo[u], c), OwnUpstream(repo[u], c)
  PROVE  RemoteInv' /\ \A v \in Users : Promise(v, repo'[v], pc'[v])
<1>1. MadeOK' /\ Grows /\ Promise(u, repo[u], "idle")
  BY UserFacts, SameMade, SamePromise
<1>2. ASSUME NEW b \in Branches, repo[u].kind = "work"
      PROVE  Changes(repo[u].local[b]) \subseteq {made'[k] : k \in c.local[b]}
  <2>1. CASE repo[u].local[b] = {}
    BY <2>1 DEF Changes
  <2>2. CASE repo[u].local[b] = c.local[b]
    BY <2>2, <1>1, <1>2 DEF Promise, Kept
  <2>. QED BY <1>2, <2>1, <2>2
<1>3. Kept(repo[u], c)
  BY <1>2 DEF Kept
<1>. QED BY <1>1, <1>3, OwnStep DEF Become

\* A remote gets a URL, which it may have had.
LEMMA UrlStep ==
  ASSUME RemoteInv, NEW u \in Users, CallRemoteAdd(u) \/ CallRemoteSetUrl(u)
  PROVE  RemoteInv' /\ \A v \in Users : Promise(v, repo'[v], pc'[v])
<1>. DEFINE a == repo[u]
<1>1. PICK r \in Remotes, s \in Servers :
        /\ pc[u] = "idle" /\ Become(u, [a EXCEPT !.url[r] = s])
        /\ UNCHANGED <<made, server, pc, fr>>
  BY DEF CallRemoteAdd, CallRemoteSetUrl, Start
<1>. DEFINE c == [a EXCEPT !.url[r] = s]
<1>2. a \in Clone /\ CloneOK(a, Len(made))
  BY UserFacts DEF CloneOK
<1>3. /\ c.kind = a.kind /\ c.head = a.head /\ c.local = a.local
      /\ c.track = a.track /\ c.upstream = a.upstream /\ c.mirrors = a.mirrors
      /\ \A q \in Remotes : c.url[q] = IF q = r THEN s ELSE a.url[q]
      /\ c.url \in [Remotes -> Servers \cup {None}]
  BY <1>2 DEF Clone
<1>4. c \in Clone
  BY <1>2, <1>3 DEF Clone
<1>. HIDE DEF c
<1>5. \A q \in Remotes : a.url[q] # None => c.url[q] # None
  BY <1>3
<1>6. \A b \in Branches : a.upstream[b] # None => a.upstream[b][1] \in Remotes
  BY <1>2 DEF Clone, Upstreams
<1>7. CloneOK(c, Len(made))
  BY <1>2, <1>3, <1>4, <1>5, <1>6 DEF CloneOK
<1>8. /\ \A b \in Branches : a.local[b] \in {{}, c.local[b]}
      /\ Followed(a, c) /\ OwnUpstream(a, c)
  BY <1>3 DEF Followed, TrackFollowed, MirrorFollowed, OwnUpstream
<1>. QED BY <1>1, <1>7, <1>8, QuietStep DEF c

\* d is a without some of its refs and upstreams; a work tree keeps its branches.
OnlyRemoved(a, d) ==
  /\ d.kind = a.kind
  /\ d.local \in {a.local, NoRefs} /\ (a.kind = "work" => d.local = a.local)
  /\ \A q \in Remotes, b \in Branches : d.track[q][b] \in {{}, a.track[q][b]}
  /\ \A b \in Branches : d.upstream[b] \in {None, a.upstream[b]}

\* A removed remote takes no more along.
LEMMA Removing ==
  ASSUME NEW n \in Nat, NEW a, CloneOK(a, n), NEW r \in Remotes
  PROVE  CloneOK(WithoutRemote(a, r), n) /\ OnlyRemoved(a, WithoutRemote(a, r))
<1>. DEFINE d == WithoutRemote(a, r)
            all == r \in a.mirrors
            url == [a.url EXCEPT ![r] = None]
            local == IF all THEN NoRefs ELSE a.local
            track == IF all THEN NoTracks ELSE [a.track EXCEPT ![r] = NoRefs]
            upstream == [b \in Branches |->
              IF a.upstream[b] # None /\ a.upstream[b][1] = r THEN None ELSE a.upstream[b]]
            mirrors == a.mirrors \ {r}
<1>1. a \in Clone
  BY DEF CloneOK
<1>2. d = [a EXCEPT !.url = url, !.mirrors = mirrors, !.local = local,
                    !.track = track, !.upstream = upstream]
  BY <1>1 DEF WithoutRemote, Clone
<1>3. /\ NoRefs \in [Branches -> History] /\ NoTracks \in [Remotes -> [Branches -> History]]
      /\ \A b \in Branches : NoRefs[b] = {}
      /\ \A q \in Remotes, b \in Branches : NoTracks[q][b] = {}
  BY NoCloneParts DEF NoRefs
<1>4. /\ url \in [Remotes -> Servers \cup {None}]
      /\ \A q \in Remotes : url[q] = IF q = r THEN None ELSE a.url[q]
  BY <1>1 DEF Clone
<1>5. local \in [Branches -> History]
  BY <1>1, <1>3 DEF Clone
<1>6. /\ track \in [Remotes -> [Branches -> History]]
      /\ \A q \in Remotes, b \in Branches : track[q][b] \in {{}, a.track[q][b]}
      /\ \A b \in Branches : track[r][b] = {}
  BY <1>1, <1>3 DEF Clone
<1>7. /\ upstream \in [Branches -> Upstreams]
      /\ \A b \in Branches : upstream[b] # None =>
           upstream[b] = a.upstream[b] /\ a.upstream[b][1] # r
  BY <1>1 DEF Clone, Upstreams
<1>8. \A b \in Branches : upstream[b] # None =>
        upstream[b][1] \in Remotes /\ a.url[upstream[b][1]] # None
  BY <1>1, <1>7 DEF CloneOK, Clone, Upstreams
<1>9. local \in {a.local, NoRefs} /\ (a.kind = "work" => local = a.local)
  BY DEF CloneOK
<1>15. mirrors \in SUBSET Remotes /\ (a.mirrors = {} => mirrors = {})
  BY <1>1 DEF Clone
<1>. HIDE DEF all, url, local, track, upstream, mirrors, d
<1>10. /\ d.kind = a.kind /\ d.url = url /\ d.local = local /\ d.track = track
       /\ d.upstream = upstream /\ d.mirrors = mirrors /\ d \in Clone
  BY <1>1, <1>2, <1>4, <1>5, <1>6, <1>7, <1>15 DEF Clone
<1>11. \A b \in Branches : d.local[b] \subseteq 1 .. n
  BY <1>3, <1>9, <1>10 DEF CloneOK
<1>12. \A q \in Remotes, b \in Branches :
         /\ d.track[q][b] \subseteq 1 .. n
         /\ d.track[q][b] # {} => d.url[q] # None
  BY <1>4, <1>6, <1>10 DEF CloneOK
<1>13. \A b \in Branches : d.upstream[b] # None => d.url[d.upstream[b][1]] # None
  BY <1>4, <1>7, <1>8, <1>10
<1>14. CloneOK(d, n)
  BY <1>10, <1>11, <1>12, <1>13, <1>15 DEF CloneOK
<1>16. OnlyRemoved(a, d)
  BY <1>6, <1>7, <1>9, <1>10 DEF OnlyRemoved
<1>. QED BY <1>14, <1>16 DEF d

LEMMA RemoveStep ==
  ASSUME RemoteInv, NEW u \in Users, CallRemoteRemove(u)
  PROVE  RemoteInv' /\ \A v \in Users : Promise(v, repo'[v], pc'[v])
<1>1. PICK r \in Remotes : /\ pc[u] = "idle" /\ Become(u, WithoutRemote(repo[u], r))
                           /\ UNCHANGED <<made, server, pc, fr>>
  BY DEF CallRemoteRemove, Start
<1>. DEFINE a == repo[u]
            n == Len(made)
            d == WithoutRemote(a, r)
<1>2. CloneOK(a, n) /\ n \in Nat
  BY UserFacts
<1>. HIDE DEF a, n
<1>4. CloneOK(d, n) /\ OnlyRemoved(a, d)
  BY <1>2, Removing
<1>. HIDE DEF d
<1>5. Followed(a, d)
  BY <1>4 DEF Followed, TrackFollowed, MirrorFollowed, NoRefs, OnlyRemoved
<1>6. OwnUpstream(a, d)
  BY <1>4 DEF OwnUpstream, OnlyRemoved
<1>7. Become(u, d)
  BY <1>1 DEF d, a
<1>8. a = repo[u] /\ n = Len(made)
  BY DEF a, n
<1>9. a.kind = "work" => \A b \in Branches : a.local[b] \in {{}, d.local[b]}
  BY <1>4 DEF OnlyRemoved
<1>. QED BY <1>1, <1>4, <1>5, <1>6, <1>7, <1>8, <1>9, QuietStep

\* c is a with branch b at the history h with upstream up, whatever is checked
\* out.
OnlyBranch(a, c, b, h, up) ==
  /\ c.kind = a.kind /\ c.url = a.url /\ c.track = a.track /\ c.mirrors = a.mirrors
  /\ \A d \in Branches : c.local[d] = IF d = b THEN h ELSE a.local[d]
  /\ \A d \in Branches : c.upstream[d] = IF d = b THEN up ELSE a.upstream[d]

\* A branch is checked out or made; a new one gets a history the clone has, and
\* the upstream of its name, that of the history or none.
LEMMA Branching ==
  ASSUME RemoteInv, NEW u \in Users, pc[u] = "idle", UNCHANGED <<made, server, pc, fr>>,
         NEW b \in Branches, NEW h \in SUBSET Commits, NEW up \in Upstreams,
         repo[u].kind = "work", repo[u].local[b] \in {{}, h},
         up # None => \/ up = repo[u].upstream[b]
                      \/ /\ repo[u].url[up[1]] # None
                         /\ repo[u].local[b] = {} /\ h = repo[u].track[up[1]][up[2]],
         NEW c \in Clone, OnlyBranch(repo[u], c, b, h, up), Become(u, c)
  PROVE  RemoteInv' /\ \A v \in Users : Promise(v, repo'[v], pc'[v])
<1>. DEFINE a == repo[u]
<1>1. CloneOK(a, Len(made))
  BY UserFacts
<1>2. \A d \in Branches : c.upstream[d] # None =>
        \/ c.upstream[d] = a.upstream[d]
        \/ /\ c.url[c.upstream[d][1]] # None /\ a.local[d] = {}
           /\ c.local[d] = c.track[c.upstream[d][1]][c.upstream[d][2]]
  BY DEF OnlyBranch
<1>3. CloneOK(c, Len(made))
  <2>1. ASSUME NEW d \in Branches PROVE c.local[d] \subseteq 1 .. Len(made)
    <3>1. c.local[d] = IF d = b THEN h ELSE a.local[d]
      BY DEF OnlyBranch
    <3>2. h \subseteq 1 .. Len(made) /\ a.local[d] \subseteq 1 .. Len(made)
      BY <1>1 DEF CloneOK, Commits
    <3>. QED BY <3>1, <3>2
  <2>2. \A d \in Branches : c.upstream[d] # None => c.url[c.upstream[d][1]] # None
    BY <1>1, <1>2 DEF CloneOK, OnlyBranch
  <2>. QED BY <1>1, <2>1, <2>2 DEF CloneOK, OnlyBranch
<1>4. \A d \in Branches : a.local[d] \in {{}, c.local[d]}
  BY DEF OnlyBranch
<1>5. Followed(a, c) /\ OwnUpstream(a, c)
  BY <1>2 DEF Followed, TrackFollowed, MirrorFollowed, OwnUpstream, OnlyBranch
<1>. QED BY <1>3, <1>4, <1>5, QuietStep

LEMMA CheckoutStep ==
  ASSUME RemoteInv, NEW u \in Users, CallCheckout(u)
  PROVE  RemoteInv' /\ \A v \in Users : Promise(v, repo'[v], pc'[v])
<1>. DEFINE a == repo[u]
            has(b) == {r \in Remotes : repo[u].track[r][b] # {}}
<1>1. PICK b \in Branches :
       /\ pc[u] = "idle" /\ UNCHANGED <<made, server, pc, fr>>
       /\ repo[u].kind = "work"
       /\ IF repo[u].local[b] # {}
         THEN Become(u, [repo[u] EXCEPT !.head = b])
         ELSE \E r \in has(b), head \in {b, repo[u].head} :
                Become(u, [repo[u] EXCEPT !.head = head,
                     !.local[b] = repo[u].track[r][b],
                     !.upstream[b] = <<r, b>>])
  BY DEF CallCheckout, Start
<1>2. a \in Clone /\ CloneOK(a, Len(made))
  BY UserFacts DEF CloneOK
<1>3. CASE a.local[b] # {}
  <2>. DEFINE c == [a EXCEPT !.head = b]
              h == a.local[b]
              up == a.upstream[b]
  <2>1. h \in SUBSET Commits /\ up \in Upstreams
    BY <1>2 DEF CloneOK, Clone, Commits
  <2>2. OnlyBranch(a, c, b, h, up) /\ c \in Clone
    BY <1>2 DEF Clone, OnlyBranch
  <2>3. Become(u, c) /\ a.local[b] \in {{}, h}
    BY <1>1, <1>3
  <2>. HIDE DEF c
  <2>. QED BY <1>1, <2>1, <2>2, <2>3, Branching
<1>4. CASE a.local[b] = {}
  <2>1. PICK r \in has(b), head \in {b, a.head} :
          Become(u, [a EXCEPT !.head = head, !.local[b] = a.track[r][b], !.upstream[b] = <<r, b>>])
    BY <1>1, <1>4
  <2>. DEFINE h == a.track[r][b]
              up == <<r, b>>
              c == [a EXCEPT !.head = head, !.local[b] = h, !.upstream[b] = up]
  <2>2. /\ h \in SUBSET Commits /\ h \in History /\ up \in Upstreams
        /\ a.url[r] # None /\ up[1] = r /\ h = a.track[up[1]][up[2]]
    BY <1>2, <2>1 DEF CloneOK, Clone, Commits, Upstreams
  <2>3. Become(u, c)
    BY <2>1
  <2>. HIDE DEF h, up
  <2>4. OnlyBranch(a, c, b, h, up)
    BY <1>2 DEF Clone, OnlyBranch
  <2>5. c \in Clone
    <3>1. /\ [a.local EXCEPT ![b] = h] \in [Branches -> History]
          /\ [a.upstream EXCEPT ![b] = up] \in [Branches -> Upstreams]
      BY <1>2, <2>2 DEF Clone
    <3>. QED BY <1>2, <3>1 DEF Clone
  <2>. HIDE DEF c
  <2>. QED BY <1>1, <1>4, <2>2, <2>3, <2>4, <2>5, Branching
<1>. QED BY <1>3, <1>4

LEMMA CreateStep ==
  ASSUME RemoteInv, NEW u \in Users, CallCreate(u)
  PROVE  RemoteInv' /\ \A v \in Users : Promise(v, repo'[v], pc'[v])
<1>. DEFINE a == repo[u]
            tip(ref) == IF ref = None THEN HeadTip(u) ELSE a.track[ref[1]][ref[2]]
            given(b, ref) == IF ref = None THEN a.upstream[b] ELSE ref
<1>1. PICK b \in Branches, ref \in Upstreams : \E head \in {b, a.head} :
        /\ pc[u] = "idle" /\ UNCHANGED <<made, server, pc, fr>> /\ a.kind = "work"
        /\ a.local[b] = {} /\ tip(ref) # {}
        /\ Become(u, [a EXCEPT !.head = head, !.local[b] = tip(ref),
                               !.upstream[b] = given(b, ref)])
  BY DEF CallCreate, Start
<1>. DEFINE h == tip(ref)
            up == given(b, ref)
<1>2. a \in Clone /\ CloneOK(a, Len(made))
  BY UserFacts DEF CloneOK
<1>3. /\ h \in SUBSET Commits /\ h \in History /\ up \in Upstreams
      /\ up # None => \/ up = a.upstream[b]
                      \/ a.url[up[1]] # None /\ h = a.track[up[1]][up[2]]
  <2>1. CASE ref = None
    BY <1>2, <2>1 DEF CloneOK, Clone, Commits, HeadTip
  <2>2. CASE ref # None
    <3>1. ref[1] \in Remotes /\ ref[2] \in Branches
      BY <2>2 DEF Upstreams
    <3>. QED BY <1>1, <1>2, <2>2, <3>1 DEF CloneOK, Clone, Commits
  <2>. QED BY <2>1, <2>2
<1>. HIDE DEF tip, given, h, up
<1>4. PICK head \in {b, a.head} :
        Become(u, [a EXCEPT !.head = head, !.local[b] = h, !.upstream[b] = up])
  BY <1>1 DEF h, up
<1>. DEFINE d == [a EXCEPT !.head = head, !.local[b] = h, !.upstream[b] = up]
<1>5. OnlyBranch(a, d, b, h, up)
  BY <1>2 DEF Clone, OnlyBranch
<1>6. d \in Clone
  <2>1. /\ [a.local EXCEPT ![b] = h] \in [Branches -> History]
        /\ [a.upstream EXCEPT ![b] = up] \in [Branches -> Upstreams]
    BY <1>2, <1>3 DEF Clone
  <2>. QED BY <1>2, <2>1 DEF Clone
<1>7. Become(u, d)
  BY <1>4
<1>. HIDE DEF d
<1>. QED BY <1>1, <1>3, <1>5, <1>6, <1>7, Branching

LEMMA CommitStep ==
  ASSUME RemoteInv, NEW u \in Users, CallCommit(u)
  PROVE  RemoteInv' /\ \A v \in Users : Promise(v, repo'[v], pc'[v])
<1>. DEFINE a == repo[u]
            N == Len(made)
            c == [a EXCEPT !.local[a.head] = @ \cup {New}]
<1>1. /\ pc[u] = "idle" /\ New < MaxCommits /\ made' = Append(made, New)
      /\ a.kind = "work"
      /\ Become(u, c) /\ UNCHANGED <<server, pc, fr>>
  BY DEF CallCommit, Start
<1>2. a \in Clone /\ CloneOK(a, N) /\ MadeOK /\ N \in Nat
  BY UserFacts DEF CloneOK
<1>3. /\ MadeOK' /\ Grows /\ Len(made') = N + 1 /\ New = N + 1
      /\ \A k \in 1 .. N : made'[k] = made[k]
  BY <1>1, <1>2 DEF MadeOK, Grows, New
<1>4. CloneOK(a, N + 1)
  BY <1>2, CloneGrows
<1>5. /\ c.kind = a.kind /\ c.url = a.url /\ c.head = a.head
      /\ c.upstream = a.upstream /\ c.track = a.track /\ c.mirrors = a.mirrors
      /\ \A b \in Branches : c.local[b] = IF b = a.head THEN a.local[b] \cup {New}
                                                      ELSE a.local[b]
  BY <1>2 DEF Clone
<1>6. c \in Clone
  <2>1. a.local[a.head] \cup {New} \in History
    BY <1>1, <1>2, <1>3 DEF Clone, History
  <2>2. [a.local EXCEPT ![a.head] = @ \cup {New}] \in [Branches -> History]
    BY <1>2, <2>1 DEF Clone
  <2>. QED BY <1>2, <2>2 DEF Clone
<1>. HIDE DEF c
<1>7. CloneOK(c, Len(made'))
  <2>1. \A b \in Branches : c.local[b] \subseteq 1 .. N + 1
    <3>1. New \in 1 .. N + 1
      BY <1>2, <1>3
    <3>2. \A b \in Branches : a.local[b] \subseteq 1 .. N + 1
      BY <1>4 DEF CloneOK
    <3>. DEFINE K == N + 1
    <3>. HIDE DEF N, K
    <3>3. ASSUME NEW b \in Branches PROVE c.local[b] \subseteq 1 .. K
      <4>1. c.local[b] = a.local[b] \cup {New} \/ c.local[b] = a.local[b]
        BY <1>5
      <4>. QED BY <3>1, <3>2, <4>1 DEF K
    <3>. QED BY <3>3 DEF K
  <2>. QED BY <1>3, <1>4, <1>5, <1>6, <2>1 DEF CloneOK
<1>8. Kept(a, c)
  <2>1. Kept(a, a)
    BY <1>2, <1>3, UserFacts, SamePromise DEF Promise
  <2>2. \A b \in Branches : a.local[b] \subseteq c.local[b]
    BY <1>5
  <2>. QED BY <2>1, <2>2 DEF Kept
<1>9. Followed(a, c) /\ OwnUpstream(a, c)
  BY <1>1, <1>5 DEF Followed, TrackFollowed, MirrorFollowed, OwnUpstream
<1>. QED BY <1>1, <1>3, <1>7, <1>8, <1>9, OwnStep DEF Become

-----------------------------------------------------------------------------
(* The servers, and every step.                                            *)

\* What others push to a server are commits there were at first.
LEMMA ServerStep ==
  ASSUME RemoteInv, ServerChange
  PROVE  RemoteInv' /\ \A v \in Users : Promise(v, repo'[v], pc'[v])
<1>1. PICK change \in OtherPushes :
        /\ server' = [server EXCEPT ![change[1]][change[2]] = change[3]]
        /\ UNCHANGED <<made, repo, pc, fr>>
  BY DEF ServerChange
<1>2. /\ change[1] \in Servers /\ change[2] \in Branches
      /\ change[3] \in SUBSET DOMAIN InitMade
  OBVIOUS
<1>3. MadeOK /\ ServerOK /\ MadeOK' /\ Grows
  BY <1>1, SameMade DEF RemoteInv
<1>4. change[3] \in SUBSET Commits
  <2>1. Len(InitMade) \in Nat /\ Len(made) \in Nat /\ DOMAIN InitMade = 1 .. Len(InitMade)
    BY <1>3 DEF MadeOK
  <2>. QED BY <1>2, <1>3, <2>1 DEF MadeOK, Commits
<1>5. ServerOK'
  <2>. DEFINE s == change[1]
              b == change[2]
              h == change[3]
  <2>1. server \in [Servers -> [Branches -> SUBSET Commits]] /\ Commits' = Commits
    BY <1>1, <1>3 DEF ServerOK, Commits
  <2>2. server' = [server EXCEPT ![s] = [server[s] EXCEPT ![b] = h]]
    BY <1>1
  <2>3. s \in Servers /\ b \in Branches /\ h \in SUBSET Commits
    BY <1>2, <1>4
  <2>. HIDE DEF s, b, h
  <2>4. [server[s] EXCEPT ![b] = h] \in [Branches -> SUBSET Commits]
    BY <2>1, <2>3
  <2>. QED BY <2>1, <2>2, <2>3, <2>4 DEF ServerOK
<1>6. RemoteInv'
  BY <1>1, <1>3, <1>5 DEF RemoteInv, Functions3
<1>7. \A v \in Users : Promise(v, repo[v], pc[v])
  BY <1>3, SamePromise DEF RemoteInv, UserOK
<1>. QED BY <1>1, <1>6, <1>7

LEMMA RemoteInit ==
  ASSUME Init
  PROVE  RemoteInv
<1>1. MadeOK /\ Commits = DOMAIN InitMade
  BY DEF Init, MadeOK, Commits
<1>2. ServerOK
  BY <1>1 DEF Init, ServerOK
<1>3. Functions3
  BY NoCloneParts, NoFrameOK DEF Init, Functions3, Labels
<1>4. CloneOK(NoClone, Len(made))
  BY NoCloneParts DEF CloneOK, NoRefs
<1>5. \A u \in Users : UserOK(repo[u], pc[u], fr[u], Len(made))
  BY <1>4, NoFrameOK DEF Init, UserOK, InCall, Labels
<1>. QED BY <1>1, <1>2, <1>3, <1>5 DEF RemoteInv

LEMMA RemoteStep ==
  ASSUME RemoteInv, [Next]_vars
  PROVE  RemoteInv' /\ \A v \in Users : Promise(v, repo'[v], pc'[v])
<1>1. ASSUME NEW u \in Users, Call(u)
      PROVE  RemoteInv' /\ \A v \in Users : Promise(v, repo'[v], pc'[v])
  BY <1>1, CloneStep, FetchStep, PushStep, PullStep, UrlStep, RemoveStep,
     CheckoutStep, CreateStep, CommitStep DEF Call
<1>2. ASSUME NEW u \in Users, Continue(u)
      PROVE  RemoteInv' /\ \A v \in Users : Promise(v, repo'[v], pc'[v])
  <2>1. CASE PullConflict(u)
    <3>1. Return(u) /\ UNCHANGED <<made, repo>> /\ ServerOK'
      BY <2>1 DEF PullConflict, RemoteInv, ServerOK, Commits
    <3>. QED BY <3>1, EndStep
  <2>. QED BY <1>2, <2>1, SendStep, LostStep, UpstreamStep, IntegrateStep DEF Continue
<1>3. ASSUME NEW u \in Users, Crash(u)
      PROVE  RemoteInv' /\ \A v \in Users : Promise(v, repo'[v], pc'[v])
  <2>1. Return(u) /\ UNCHANGED <<made, repo>> /\ ServerOK'
    BY <1>3 DEF Crash, RemoteInv, ServerOK, Commits
  <2>. QED BY <2>1, EndStep
<1>4. CASE UNCHANGED vars
  <2>1. UNCHANGED made /\ UNCHANGED server /\ UNCHANGED repo /\ UNCHANGED pc /\ UNCHANGED fr
    BY <1>4 DEF vars
  <2>2. RemoteInv'
    BY <2>1 DEF RemoteInv, MadeOK, ServerOK, Functions3, Commits
  <2>3. \A v \in Users : Promise(v, repo[v], pc[v])
    BY <2>1, SameMade, SamePromise DEF RemoteInv, UserOK
  <2>. QED BY <2>1, <2>2, <2>3
<1>. QED BY <1>1, <1>2, <1>3, <1>4, ServerStep DEF Next

-----------------------------------------------------------------------------

\* RemoteInv holds at every step of every behaviour.
THEOREM RemoteInvariant == Spec => []RemoteInv
<1>1. Init => RemoteInv
  BY RemoteInit
<1>2. RemoteInv /\ [Next]_vars => RemoteInv'
  BY RemoteStep
<1>. QED BY <1>1, <1>2, PTL DEF Spec

\* Every ref of every clone and of every server names commits that exist, and
\* the variables of a call are of their types.
THEOREM RemoteTypeCorrect == Spec => []TypeOK
<1>1. RemoteInv => TypeOK
  BY DEF RemoteInv, MadeOK, ServerOK, Functions3, UserOK, CloneOK, TypeOK, Labels, Commits
<1>. QED BY <1>1, RemoteInvariant, PTL

\* The tip of HEAD after a step.
LEMMA TipAfter ==
  ASSUME NEW u \in Users
  PROVE  HeadTip(u)' = repo'[u].local[repo'[u].head]
  BY DEF HeadTip

\* git_pull without a conflict ends with everything that the upstream held when
\* it was fetched, for every merge and every rebase.
THEOREM PullKeepsUpstream == Spec => PullBringsIn
<1>. DEFINE A ==
       \A u \in Users :
         /\ pc[u] = "integrate" /\ pc'[u] = "idle"
         /\ repo'[u] # repo[u]
         => fr[u].adv[fr[u].from[2]] \subseteq HeadTip(u)'
<1>1. RemoteInv /\ [Next]_vars => A
  BY RemoteStep, TipAfter DEF Promise, Brought
<1>2. RemoteInv /\ [Next]_vars => [A]_vars
  BY <1>1
<1>. QED BY <1>2, RemoteInvariant, PTL DEF Spec, PullBringsIn

\* No call loses a change that was committed on a local branch of a work tree.
THEOREM LocalWorkStays == Spec => LocalKeepsWork
<1>. DEFINE A ==
       \A u \in Users, b \in Branches :
         repo[u].kind = "work"
         => Changes(repo[u].local[b]) \subseteq {made'[c] : c \in repo'[u].local[b]}
<1>1. RemoteInv /\ [Next]_vars => A
  BY RemoteStep DEF Promise, Kept
<1>2. RemoteInv /\ [Next]_vars => [A]_vars
  BY <1>1
<1>. QED BY <1>2, RemoteInvariant, PTL DEF Spec, LocalKeepsWork

\* A tracking branch, and a branch of a mirror, only changes to what the server
\* of its remote has.
THEOREM TrackingIsTruthful == Spec => TrackFollowsServer
<1>. DEFINE A ==
       \A u \in Users, b \in Branches :
         LET At(r) == server'[repo'[u].url[r]][b]
             mine == repo'[u].local[b] IN
         /\ \A r \in Remotes :
              LET after == repo'[u].track[r][b] IN
              after # repo[u].track[r][b] /\ after # {} => after = At(r)
         /\ repo'[u].kind = "mirror" /\ mine # repo[u].local[b] /\ mine # {}
              => \E r \in repo'[u].mirrors : mine = At(r)
<1>1. RemoteInv /\ [Next]_vars => A
  BY RemoteStep DEF Promise, Followed, TrackFollowed, MirrorFollowed
<1>2. RemoteInv /\ [Next]_vars => [A]_vars
  BY <1>1
<1>. QED BY <1>2, RemoteInvariant, PTL DEF Spec, TrackFollowsServer

\* An upstream that a call sets is the branch of the same name, or the one the
\* branch was made from, on a remote that is there.
THEOREM UpstreamsMatch == Spec => UpstreamFits
<1>. DEFINE A ==
       \A u \in Users, b \in Branches :
         LET up == repo'[u].upstream[b] IN
         up # None =>
           /\ up[1] \in Known(u)'
           /\ \/ up = repo[u].upstream[b]
              \/ up[2] = b
              \/ /\ repo[u].local[b] = {}
                 /\ repo'[u].local[b] = repo'[u].track[up[1]][up[2]]
<1>1. RemoteInv /\ [Next]_vars => A
  <2>. SUFFICES ASSUME RemoteInv, [Next]_vars, NEW u \in Users, NEW b \in Branches
                PROVE  LET up == repo'[u].upstream[b] IN
                       up # None =>
                         /\ up[1] \in Known(u)'
                         /\ \/ up = repo[u].upstream[b]
                            \/ up[2] = b
                            \/ /\ repo[u].local[b] = {}
                               /\ repo'[u].local[b] = repo'[u].track[up[1]][up[2]]
    OBVIOUS
  <2>1. RemoteInv' /\ OwnUpstream(repo[u], repo'[u])
    BY RemoteStep DEF Promise
  <2>2. CloneOK(repo'[u], Len(made'))
    BY <2>1 DEF RemoteInv, UserOK
  <2>3. repo'[u].upstream[b] # None => repo'[u].upstream[b][1] \in Remotes
    BY <2>2 DEF CloneOK, Clone, Upstreams
  <2>4. repo'[u].upstream[b] # None => repo'[u].upstream[b][1] \in Known(u)'
    BY <2>2, <2>3 DEF CloneOK, Known
  <2>. QED BY <2>1, <2>4 DEF OwnUpstream
<1>2. RemoteInv /\ [Next]_vars => [A]_vars
  BY <1>1
<1>. QED BY <1>2, RemoteInvariant, PTL DEF Spec, UpstreamFits

-----------------------------------------------------------------------------

\* A push that is not forced.
LEMMA SafeSend ==
  ASSUME RemoteInv, NEW u \in Users, pc[u] = "send", ~fr[u].force, UNCHANGED made,
         NEW accepted \in Acceptable(u, repo[u].url[fr[u].remote]),
         server' = Sent(u, repo[u].url[fr[u].remote], accepted),
         NEW s \in Servers, NEW b \in Branches
  PROVE  server[s][b] \subseteq server'[s][b]
<1>. DEFINE t == repo[u].url[fr[u].remote]
<1>1. t \in Servers /\ fr[u].push \subseteq Branches
  BY PushFacts
<1>2. \A d \in fr[u].push : fr[u].adv[d] \subseteq repo[u].local[d]
  BY UserFacts DEF UserOK, InCall
<1>3. /\ accepted \in SUBSET Branches
      /\ \A d \in accepted : d \in fr[u].push /\ server[t][d] = fr[u].adv[d]
  BY <1>1 DEF Acceptable
<1>4. /\ \A d \in Branches : server'[t][d] =
           IF d \in accepted THEN repo[u].local[d] ELSE server[t][d]
      /\ \A q \in Servers \ {t} : server'[q] = server[q]
  <2>1. t \in Servers /\ server' = Sent(u, t, accepted)
    BY <1>1
  <2>. HIDE DEF t
  <2>. QED BY <1>3, <2>1, Sending
<1>. QED BY <1>2, <1>3, <1>4

\* git_push without force never takes a commit off a server, whatever others
\* push to it between the check of the call and the update of the server.
THEOREM ServerWorkStays == Spec => ServerKeepsWork
<1>. DEFINE A ==
       \A s \in Servers, b \in Branches :
         /\ server'[s][b] # server[s][b]
         /\ \E u \in Users : pc[u] = "send" /\ pc'[u] # "send" /\ ~fr[u].force
         => server[s][b] \subseteq server'[s][b]
<1>1. RemoteInv /\ [Next]_vars => A
  <2>. SUFFICES ASSUME RemoteInv, [Next]_vars, NEW s \in Servers, NEW b \in Branches,
                       server'[s][b] # server[s][b],
                       NEW u \in Users, pc[u] = "send", pc'[u] # "send", ~fr[u].force
                PROVE  server[s][b] \subseteq server'[s][b]
    OBVIOUS
  <2>1. PICK v \in Users : Call(v) \/ Continue(v) \/ Crash(v)
    BY DEF Next, ServerChange, vars
  <2>2. pc \in [Users -> Labels]
    BY DEF RemoteInv, Functions3
  <2>3. PushSend(v) \/ PushLost(v)
    BY <2>1 DEF Call, Continue, Crash, CallClone, CallFetch, CallPush, CallPull,
         CallRemoteAdd, CallRemoteSetUrl, CallRemoteRemove, CallCheckout, CallCreate,
         CallCommit, PushUpstream, PullIntegrate, PullConflict
  <2>4. v = u
    BY <2>2, <2>3 DEF PushSend, PushLost, Return, Goto
  <2>5. PICK accepted \in Acceptable(u, repo[u].url[fr[u].remote]) :
          server' = Sent(u, repo[u].url[fr[u].remote], accepted) /\ UNCHANGED made
    BY <2>3, <2>4 DEF PushSend, PushLost
  <2>. QED BY <2>5, SafeSend
<1>2. RemoteInv /\ [Next]_vars => [A]_vars
  BY <1>1
<1>. QED BY <1>2, RemoteInvariant, PTL DEF Spec, ServerKeepsWork
=============================================================================
