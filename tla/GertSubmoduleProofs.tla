------------------------ MODULE GertSubmoduleProofs ------------------------
(***************************************************************************)
(* A submodule is what its calls say it is, for every server and every     *)
(* interleaving with what happens on it.                                   *)
(*                                                                         *)
(* The argument: only one session works on the submodule, so what a call   *)
(* has read of it stays true until its next step (AddInv, FetchInv), and   *)
(* what it has read of the server is kept in its frame.                    *)
(***************************************************************************)
EXTENDS GertSubmodule, TLAPS

USE SubmoduleAssumption

\* A call in progress is about a submodule that is registered, except for the
\* first step of an add.
Registered == pc \notin {"idle", "setup"} => registered

\* The reset of an add has put the commit under HEAD.
AddInv == pc = "save" => HeadCommit = fr.oid

\* The tracking branches are where the branches of the server were, except for
\* those that were gone.
Fresh(track, seen) == \A b \in Refs : track[b] = seen[b] \/ seen[b] = 0

\* A fetch in progress has what the server's branches were on, and origin/HEAD is
\* what the server said it is, if this call asked.
FetchInv ==
  pc = "head" => /\ Fresh(sub.track, fr.seen)
                 /\ fr.named \in {None, sub.remoteHead}

SubInv == TypeOK /\ Registered /\ AddInv /\ FetchInv

\* What TypeOK says of the repository of the submodule.
RepoOK(r) ==
  /\ r \in Repository
  /\ \A b \in Locals : r.local[b] \in r.objects \cup {0}
  /\ \A b \in Refs : r.track[b] \in r.objects \cup {0}

\* What TypeOK says of the rest.
SuperOK ==
  /\ server \in [Refs -> Histories] /\ default \in Refs
  /\ registered \in BOOLEAN
  /\ branch \in Refs \cup {None} /\ gitlink \in Ids

-----------------------------------------------------------------------------

\* A branch that is there has a newest commit, one that is not has 0.
LEMMA TipFact ==
  ASSUME NEW h \in Histories
  PROVE  /\ h = {} => Tip(h) = 0
         /\ h # {} => Tip(h) \in h
         /\ Tip(h) \in Ids
<1>1. CASE h = {}
  BY <1>1 DEF Tip, Ids
<1>2. CASE h # {}
  <2>1. \E newest \in h : \A c \in h : c <= newest
    BY <1>2
  <2>2. Tip(h) \in h
    BY <1>2, <2>1 DEF Tip
  <2>. QED BY <1>2, <2>2 DEF Ids
<1>. QED BY <1>1, <1>2

\* What a fetch finds on the server is the newest commit of each branch.
LEMMA TipsFact ==
  ASSUME server \in [Refs -> Histories]
  PROVE  /\ Tips \in [Refs -> Ids]
         /\ \A b \in Refs : IF server[b] = {} THEN Tips[b] = 0
                                              ELSE Tips[b] \in server[b]
<1>1. ASSUME NEW b \in Refs
      PROVE  /\ Tip(server[b]) \in Ids
             /\ IF server[b] = {} THEN Tip(server[b]) = 0
                                  ELSE Tip(server[b]) \in server[b]
  <2>1. server[b] \in Histories
    OBVIOUS
  <2>. QED BY <2>1, TipFact
<1>. QED BY <1>1 DEF Tips

\* A new repository, and a folder that is not there.
LEMMA NewRepoOK == RepoOK(NewRepo) /\ RepoOK(NoRepo)
<1>1. /\ NewRepo.there = TRUE /\ NewRepo.objects = {}
      /\ NewRepo.local = [b \in Locals |-> 0] /\ NewRepo.on = Initial
      /\ NewRepo.track = [b \in Refs |-> 0] /\ NewRepo.remoteHead = None
  BY DEF NewRepo
<1>2. NewRepo \in Repository
  BY DEF NewRepo, Repository, Locals, Ids
<1>3. NoRepo \in Repository
  BY <1>2 DEF NoRepo, Repository
<1>4. /\ NoRepo.objects = {} /\ NoRepo.local = [b \in Locals |-> 0]
      /\ NoRepo.track = [b \in Refs |-> 0] /\ NoRepo.remoteHead = None
  BY DEF NoRepo, NewRepo
<1>. QED BY <1>1, <1>2, <1>3, <1>4 DEF RepoOK

\* A fetch adds the commits its remote-tracking branches name.
LEMMA FetchedOK ==
  ASSUME NEW r, RepoOK(r), server \in [Refs -> Histories]
  PROVE  /\ RepoOK(Fetched(r))
         /\ Fetched(r).there = r.there /\ Fetched(r).remoteHead = r.remoteHead
         /\ Fresh(Fetched(r).track, Tips)
<1>. DEFINE f == Fetched(r)
            new == UNION {server[b] : b \in Refs}
<1>1. r \in Repository
  BY DEF RepoOK
<1>2. /\ f.there = r.there /\ f.objects = r.objects \cup new
      /\ f.local = r.local /\ f.on = r.on /\ f.remoteHead = r.remoteHead
      /\ f.track = [b \in Refs |-> IF server[b] = {} THEN r.track[b] ELSE Tips[b]]
  BY <1>1 DEF Fetched, Repository
<1>3. new \subseteq Commits
  <2>1. \A b \in Refs : server[b] \in Histories
    OBVIOUS
  <2>2. \A b \in Refs : server[b] \subseteq Commits
    BY <2>1
  <2>. QED BY <2>2
<1>4. \A b \in Refs : f.track[b] \in f.objects \cup {0}
  <2>1. SUFFICES ASSUME NEW b \in Refs PROVE f.track[b] \in f.objects \cup {0}
    OBVIOUS
  <2>2. CASE server[b] = {}
    BY <2>2, <1>2 DEF RepoOK
  <2>3. CASE server[b] # {}
    <3>1. Tips[b] \in server[b]
      BY <2>3, TipsFact
    <3>2. Tips[b] \in new
      BY <3>1
    <3>. QED BY <2>3, <3>2, <1>2
  <2>. QED BY <2>2, <2>3
<1>5. f.track \in [Refs -> Ids]
  <2>1. r.track \in [Refs -> Ids]
    BY <1>1 DEF Repository
  <2>2. Tips \in [Refs -> Ids]
    BY TipsFact
  <2>. QED BY <2>1, <2>2, <1>2
<1>6. f = [r EXCEPT !.objects = f.objects, !.track = f.track]
  BY <1>1 DEF Fetched, Repository
<1>7. f \in Repository
  <2>1. f.objects \subseteq Commits
    BY <1>1, <1>2, <1>3 DEF Repository
  <2>. HIDE DEF f
  <2>. QED BY <1>1, <1>5, <1>6, <2>1 DEF Repository
<1>8. \A b \in Locals : f.local[b] \in f.objects \cup {0}
  BY <1>2 DEF RepoOK
<1>9. Fresh(f.track, Tips)
  BY <1>2, TipsFact DEF Fresh
<1>. QED BY <1>2, <1>4, <1>7, <1>8, <1>9 DEF RepoOK

\* So does a clone, which also checks the default branch out, if there is one.
LEMMA ClonedOK ==
  ASSUME server \in [Refs -> Histories], default \in Refs
  PROVE  /\ RepoOK(Cloned) /\ Cloned.there /\ Fresh(Cloned.track, Tips)
         /\ Advertised \in {None, Cloned.remoteHead}
<1>. DEFINE f == Fetched(NewRepo)
<1>1. RepoOK(f) /\ f.there = NewRepo.there /\ Fresh(f.track, Tips)
  BY FetchedOK, NewRepoOK
<1>2. f.there
  BY <1>1 DEF NewRepo
<1>3. f \in Repository
  BY <1>1 DEF RepoOK
<1>4. CASE Advertised = None
  <2>1. Cloned = f
    BY <1>4 DEF Cloned
  <2>. QED BY <1>1, <1>2, <1>4, <2>1
<1>5. CASE Advertised # None
  <2>1. Advertised = default /\ server[default] # {}
    BY <1>5 DEF Advertised
  <2>2. Tips[default] \in f.objects
    <3>1. Tips[default] \in server[default]
      BY <2>1, TipsFact
    <3>2. f.objects = NewRepo.objects \cup UNION {server[b] : b \in Refs}
      BY DEF Fetched, NewRepo
    <3>. QED BY <3>1, <3>2
  <2>. HIDE DEF f
  <2>3. Cloned = [f EXCEPT !.on = default, !.remoteHead = default,
                           !.local[default] = Tips[default]]
    BY <1>5 DEF Cloned, f
  <2>4. /\ Cloned.there = f.there /\ Cloned.objects = f.objects
        /\ Cloned.local = [f.local EXCEPT ![default] = Tips[default]]
        /\ Cloned.track = f.track /\ Cloned.remoteHead = default
    BY <1>3, <2>3 DEF Repository
  <2>5. default \in Locals /\ Tips[default] \in Ids
    BY TipsFact DEF Locals
  <2>6. Cloned \in Repository
    BY <1>3, <2>3, <2>5 DEF Repository
  <2>7. \A b \in Locals : Cloned.local[b] \in Cloned.objects \cup {0}
    BY <1>1, <1>3, <2>2, <2>4 DEF RepoOK, Repository
  <2>. QED BY <1>1, <1>2, <2>1, <2>4, <2>6, <2>7 DEF RepoOK
<1>. QED BY <1>4, <1>5

\* A reset puts a commit of the submodule, or nothing, under HEAD.
LEMMA ResetOK ==
  ASSUME RepoOK(sub), NEW c \in sub.objects \cup {0}, ResetTo(c)
  PROVE  /\ RepoOK(sub') /\ HeadCommit' = c
         /\ sub'.there = sub.there /\ sub'.track = sub.track
         /\ sub'.remoteHead = sub.remoteHead
<1>1. sub \in Repository /\ sub' = [sub EXCEPT !.local[sub.on] = c]
  BY DEF RepoOK, ResetTo
<1>2. /\ sub'.there = sub.there /\ sub'.objects = sub.objects
      /\ sub'.local = [sub.local EXCEPT ![sub.on] = c]
      /\ sub'.on = sub.on /\ sub'.track = sub.track
      /\ sub'.remoteHead = sub.remoteHead
  BY <1>1 DEF Repository
<1>3. sub.on \in Locals /\ sub.local \in [Locals -> Ids] /\ c \in Ids
  BY <1>1 DEF Repository, Ids
<1>4. sub' \in Repository
  BY <1>1, <1>3 DEF Repository
<1>5. HeadCommit' = c
  BY <1>2, <1>3 DEF HeadCommit
<1>6. \A b \in Locals : sub'.local[b] \in sub'.objects \cup {0}
  BY <1>2, <1>3 DEF RepoOK
<1>. QED BY <1>2, <1>4, <1>5, <1>6 DEF RepoOK

-----------------------------------------------------------------------------

Phases == {"idle", "setup", "fetch", "reset", "save", "clone", "head", "id",
           "record"}

\* The invariant, taken apart by the state it is about.
LEMMA Parts ==
  SubInv <=> /\ SuperOK /\ RepoOK(sub)
             /\ sub.there \/ gitlink # 0 => registered
             /\ result \in Ids /\ pc \in Phases /\ fr \in Frame
             /\ Registered /\ AddInv
             /\ pc = "head" => /\ Fresh(sub.track, fr.seen)
                               /\ fr.named \in {None, sub.remoteHead}
  BY DEF SubInv, TypeOK, FetchInv, Fresh, SuperOK, RepoOK, Phases

LEMMA PartsNext ==
  SubInv' <=> /\ SuperOK' /\ RepoOK(sub')
              /\ sub'.there \/ gitlink' # 0 => registered'
              /\ result' \in Ids /\ pc' \in Phases /\ fr' \in Frame
              /\ Registered' /\ AddInv'
              /\ pc' = "head" => /\ Fresh(sub'.track, fr'.seen)
                                 /\ fr'.named \in {None, sub'.remoteHead}
  BY DEF SubInv, TypeOK, FetchInv, Fresh, SuperOK, RepoOK, Phases

\* Frames of the calls.
LEMMA FrameFacts ==
  /\ NoFrame \in Frame
  /\ \A c \in Ids : [NoFrame EXCEPT !.oid = c] \in Frame
                    /\ [NoFrame EXCEPT !.oid = c].oid = c
  /\ server \in [Refs -> Histories] =>
       /\ [NoFrame EXCEPT !.seen = Tips] \in Frame
       /\ [NoFrame EXCEPT !.seen = Tips].seen = Tips
       /\ [NoFrame EXCEPT !.seen = Tips].named = None
       /\ \A b \in Refs \cup {None} :
            LET f == [NoFrame EXCEPT !.seen = Tips, !.named = b] IN
              f \in Frame /\ f.seen = Tips /\ f.named = b
<1>1. 0 \in Ids
  BY DEF Ids
<1>2. server \in [Refs -> Histories] => Tips \in [Refs -> Ids]
  BY TipsFact
<1>. QED BY <1>1, <1>2 DEF NoFrame, Frame

\* A call that fails leaves what it has done and is over.
LEMMA FailInv ==
  ASSUME SubInv, Fail
  PROVE  SubInv'
<1>1. /\ pc' = "idle" /\ fr' = NoFrame /\ result' = 0
      /\ UNCHANGED <<server, default, registered, branch, gitlink, sub>>
  BY DEF Fail, Return, super
<1>2. SuperOK' /\ Registered' /\ AddInv'
  BY <1>1, Parts DEF SuperOK, Registered, AddInv
<1>. QED BY <1>1, <1>2, Parts, PartsNext, FrameFacts DEF Ids, Phases

\* Each step of git_submodule_add keeps it.
LEMMA AddSteps ==
  ASSUME SubInv, CallAdd \/ Setup \/ AddFetch \/ AddReset \/ AddSave
  PROVE  SubInv'
<1>1. CASE CallAdd
  <2>1. /\ pc' = "setup" /\ result' = result
        /\ UNCHANGED <<server, default, registered, branch, gitlink, sub>>
    BY <1>1 DEF CallAdd, Goto, super
  <2>2. \A b \in Refs : Tips[b] \in Ids
    BY Parts, TipsFact DEF SuperOK
  <2>3. PICK c \in Ids : fr' = [NoFrame EXCEPT !.oid = c]
    BY <1>1, <2>2 DEF CallAdd, Ids
  <2>4. fr' \in Frame
    BY <2>3, FrameFacts
  <2>5. SuperOK' /\ Registered' /\ AddInv'
    BY <2>1, Parts DEF SuperOK, Registered, AddInv
  <2>. QED BY <2>1, <2>4, <2>5, Parts, PartsNext DEF Phases
<1>2. CASE Setup /\ registered
  BY <1>2, FailInv DEF Setup
<1>3. CASE Setup /\ ~registered
  <2>1. /\ registered' = TRUE /\ sub' = NewRepo /\ pc' = "fetch"
        /\ result' = result /\ UNCHANGED <<server, default, branch, gitlink, fr>>
    BY <1>3 DEF Setup, Goto
  <2>2. SuperOK' /\ Registered' /\ AddInv'
    BY <2>1, Parts DEF SuperOK, Registered, AddInv
  <2>. QED BY <2>1, <2>2, Parts, PartsNext, NewRepoOK DEF Phases
<1>4. CASE AddFetch /\ ~Fail
  <2>1. /\ sub' = Fetched(sub) /\ pc = "fetch" /\ pc' = "reset" /\ result' = result
        /\ UNCHANGED <<server, default, registered, branch, gitlink, fr>>
    BY <1>4 DEF AddFetch, Goto, super
  <2>2. RepoOK(sub') /\ sub'.there = sub.there
    BY <2>1, Parts, FetchedOK DEF SuperOK
  <2>3. SuperOK' /\ Registered' /\ AddInv'
    BY <2>1, Parts DEF SuperOK, Registered, AddInv
  <2>. QED BY <2>1, <2>2, <2>3, Parts, PartsNext DEF Phases
<1>5. CASE AddReset /\ ~Fail
  <2>1. /\ fr.oid \in sub.objects /\ ResetTo(fr.oid) /\ pc = "reset"
        /\ pc' = "save" /\ result' = result
        /\ UNCHANGED <<server, default, registered, branch, gitlink, fr>>
    BY <1>5 DEF AddReset, Goto, super
  <2>2. /\ RepoOK(sub') /\ HeadCommit' = fr.oid /\ sub'.there = sub.there
    BY <2>1, Parts, ResetOK
  <2>3. SuperOK' /\ Registered' /\ AddInv'
    BY <2>1, <2>2, Parts DEF SuperOK, Registered, AddInv
  <2>. QED BY <2>1, <2>2, <2>3, Parts, PartsNext DEF Phases
<1>6. CASE AddSave
  <2>1. /\ pc = "save" /\ pc' = "idle" /\ fr' = NoFrame
        /\ gitlink' = HeadCommit /\ result' = HeadCommit
        /\ UNCHANGED <<server, default, registered, branch, sub>>
    BY <1>6 DEF AddSave, Return
  <2>2. HeadCommit \in Ids
    BY Parts DEF HeadCommit, RepoOK, Repository
  <2>3. registered /\ registered'
    BY <2>1, Parts DEF Registered
  <2>4. SuperOK' /\ Registered' /\ AddInv'
    BY <2>1, <2>2, Parts DEF SuperOK, Registered, AddInv
  <2>. QED BY <2>1, <2>2, <2>3, <2>4, Parts, PartsNext, FrameFacts DEF Phases
<1>. QED BY <1>1, <1>2, <1>3, <1>4, <1>5, <1>6, FailInv

\* Each step of git_submodule_fetch keeps it.
LEMMA FetchSteps ==
  ASSUME SubInv, CallFetch \/ Clone \/ FetchReset \/ FetchLs
  PROVE  SubInv'
<1>. USE Parts
<1>1. CASE CallFetch
  <2>1. /\ registered /\ pc = "idle" /\ result' = result
        /\ UNCHANGED <<server, default, registered, branch, gitlink>>
    BY <1>1 DEF CallFetch, Goto, super
  <2>2. SuperOK'
    BY <2>1 DEF SuperOK
  <2>3. CASE sub.there
    <3>1. /\ sub' = Fetched(sub) /\ fr' = [NoFrame EXCEPT !.seen = Tips]
          /\ pc' = "head"
      BY <1>1, <2>3 DEF CallFetch, Goto
    <3>2. /\ RepoOK(sub') /\ Fresh(sub'.track, Tips)
          /\ fr' \in Frame /\ fr'.seen = Tips /\ fr'.named = None
      BY <3>1, FetchedOK, FrameFacts DEF SuperOK
    <3>3. Registered' /\ AddInv'
      BY <2>1, <3>1 DEF Registered, AddInv
    <3>. QED BY <2>1, <2>2, <3>1, <3>2, <3>3, PartsNext DEF Phases
  <2>4. CASE ~sub.there
    <3>1. pc' = "clone" /\ UNCHANGED <<sub, fr>>
      BY <1>1, <2>4 DEF CallFetch, Goto
    <3>2. Registered' /\ AddInv'
      BY <2>1, <3>1 DEF Registered, AddInv
    <3>. QED BY <2>1, <2>2, <3>1, <3>2, PartsNext DEF Phases
  <2>. QED BY <2>3, <2>4
<1>2. CASE Clone /\ ~Fail
  <2>1. /\ pc = "clone" /\ sub' = Cloned
        /\ fr' = [NoFrame EXCEPT !.seen = Tips, !.named = Advertised]
        /\ pc' = "head" /\ result' = result
        /\ UNCHANGED <<server, default, registered, branch, gitlink>>
    BY <1>2 DEF Clone, Goto, super
  <2>2. /\ RepoOK(sub') /\ sub'.there /\ Fresh(sub'.track, Tips)
        /\ Advertised \in {None, sub'.remoteHead}
    BY <2>1, ClonedOK DEF SuperOK
  <2>3. Advertised \in Refs \cup {None}
    BY DEF Advertised, SuperOK
  <2>4. fr' \in Frame /\ fr'.seen = Tips /\ fr'.named = Advertised
    BY <2>1, <2>3, FrameFacts DEF SuperOK
  <2>5. SuperOK' /\ Registered' /\ AddInv' /\ registered
    BY <2>1 DEF SuperOK, Registered, AddInv
  <2>. QED BY <2>1, <2>2, <2>5, <2>4, PartsNext DEF Phases
<1>3. CASE FetchReset /\ ~Fail
  <2>. DEFINE c == IF branch # None THEN sub.local[branch]
                                    ELSE sub.track[sub.remoteHead]
  <2>1. /\ pc = "head"
        /\ branch # None \/ sub.remoteHead # None
        /\ c # 0 /\ ResetTo(c) /\ pc' = "idle" /\ fr' = NoFrame /\ result' = c
        /\ UNCHANGED <<server, default, registered, branch, gitlink>>
    BY <1>3 DEF FetchReset, Return, super
  <2>2. c \in sub.objects \cup {0}
    <3>1. CASE branch # None
      BY <3>1 DEF RepoOK, SuperOK, Locals
    <3>2. CASE branch = None
      <4>1. sub.remoteHead \in Refs
        BY <2>1, <3>2 DEF RepoOK, Repository
      <4>. QED BY <3>2, <4>1 DEF RepoOK
    <3>. QED BY <3>1, <3>2
  <2>3. sub.objects \cup {0} \subseteq Ids
    BY DEF RepoOK, Repository, Ids
  <2>. HIDE DEF c
  <2>4. RepoOK(sub') /\ sub'.there = sub.there
    BY <2>1, <2>2, ResetOK
  <2>5. SuperOK' /\ Registered' /\ AddInv'
    BY <2>1 DEF SuperOK, Registered, AddInv
  <2>. QED BY <2>1, <2>2, <2>3, <2>4, <2>5, PartsNext, FrameFacts DEF Phases
<1>4. CASE FetchLs /\ ~Fail
  <2>1. /\ pc = "head" /\ sub' = [sub EXCEPT !.remoteHead = default]
        /\ fr' = [fr EXCEPT !.named = default]
        /\ pc' = "head" /\ result' = result
        /\ UNCHANGED <<server, default, registered, branch, gitlink>>
    BY <1>4 DEF FetchLs, Goto, super
  <2>2. default \in Refs
    BY DEF SuperOK
  <2>3. /\ sub'.there = sub.there /\ sub'.objects = sub.objects
        /\ sub'.local = sub.local /\ sub'.track = sub.track
        /\ sub'.remoteHead = default /\ sub' \in Repository
    BY <2>1, <2>2 DEF RepoOK, Repository
  <2>4. fr' \in Frame /\ fr'.seen = fr.seen /\ fr'.named = default
    BY <2>1, <2>2 DEF Frame
  <2>5. RepoOK(sub')
    BY <2>3 DEF RepoOK
  <2>6. SuperOK' /\ Registered' /\ AddInv'
    BY <2>1 DEF SuperOK, Registered, AddInv
  <2>. QED BY <2>1, <2>3, <2>5, <2>6, <2>4, PartsNext DEF Phases
<1>. QED BY <1>1, <1>2, <1>3, <1>4, FailInv

\* Each step of git_submodule_set_to keeps it.
LEMMA SetToSteps ==
  ASSUME SubInv, CallSetTo \/ SetToId \/ Record
  PROVE  SubInv'
<1>. USE Parts
<1>1. CASE CallSetTo
  <2>1. /\ pc = "idle" /\ registered /\ result' = result
        /\ UNCHANGED <<server, default, registered, branch, gitlink>>
    BY <1>1 DEF CallSetTo, Goto, super
  <2>2. SuperOK'
    BY <2>1 DEF SuperOK
  <2>3. CASE pc' = "id"
    <3>1. PICK c \in sub.objects : ResetTo(c) /\ UNCHANGED fr
      BY <1>1, <2>3 DEF CallSetTo, Goto
    <3>2. RepoOK(sub')
      BY <3>1, ResetOK
    <3>3. Registered' /\ AddInv'
      BY <2>1, <2>3 DEF Registered, AddInv
    <3>. QED BY <2>1, <2>2, <2>3, <3>1, <3>2, <3>3, PartsNext DEF Phases
  <2>4. CASE pc' = "record"
    <3>1. PICK c \in Commits : fr' = [NoFrame EXCEPT !.oid = c] /\ UNCHANGED sub
      BY <1>1, <2>4 DEF CallSetTo, Goto
    <3>2. fr' \in Frame
      BY <3>1, FrameFacts DEF Ids
    <3>3. Registered' /\ AddInv'
      BY <2>1, <2>4 DEF Registered, AddInv
    <3>. QED BY <2>1, <2>2, <2>4, <3>1, <3>2, <3>3, PartsNext DEF Phases
  <2>. QED BY <1>1, <2>3, <2>4 DEF CallSetTo, Goto
<1>2. CASE SetToId
  <2>1. /\ pc = "id" /\ fr' = [NoFrame EXCEPT !.oid = HeadCommit]
        /\ pc' = "record" /\ result' = result
        /\ UNCHANGED <<server, default, registered, branch, gitlink, sub>>
    BY <1>2 DEF SetToId, Goto, super
  <2>2. HeadCommit \in Ids
    BY DEF HeadCommit, RepoOK, Repository
  <2>3. SuperOK' /\ Registered' /\ AddInv'
    BY <2>1 DEF SuperOK, Registered, AddInv
  <2>. QED BY <2>1, <2>2, <2>3, PartsNext, FrameFacts DEF Phases
<1>3. CASE Record
  <2>1. /\ pc = "record" /\ gitlink' = fr.oid /\ pc' = "idle" /\ fr' = NoFrame
        /\ result' = fr.oid /\ UNCHANGED <<server, default, registered, branch, sub>>
    BY <1>3 DEF Record, Return
  <2>2. fr.oid \in Ids
    BY DEF Frame
  <2>3. SuperOK' /\ Registered' /\ AddInv' /\ registered
    BY <2>1, <2>2 DEF SuperOK, Registered, AddInv
  <2>. QED BY <2>1, <2>2, <2>3, PartsNext, FrameFacts DEF Phases
<1>. QED BY <1>1, <1>2, <1>3

\* So does what the others and the user do.
LEMMA OtherSteps ==
  ASSUME SubInv, ServerChange \/ UserAct \/ UNCHANGED vars
  PROVE  SubInv'
<1>. USE Parts
<1>1. CASE ServerChange
  <2>1. /\ server' \in [Refs -> Histories] /\ default' \in Refs
        /\ UNCHANGED <<registered, branch, gitlink, sub, result, pc, fr>>
    BY <1>1 DEF ServerChange, SuperOK
  <2>2. SuperOK' /\ Registered' /\ AddInv'
    BY <2>1 DEF SuperOK, Registered, AddInv, HeadCommit
  <2>. QED BY <2>1, <2>2, PartsNext
<1>2. CASE UserAct
  <2>1. /\ pc = "idle" /\ registered
        /\ sub' = NoRepo \/ sub' = sub
        /\ branch' \in Refs \cup {None}
        /\ UNCHANGED <<server, default, registered, gitlink, result, pc, fr>>
    BY <1>2 DEF UserAct, SuperOK
  <2>2. SuperOK' /\ Registered' /\ AddInv' /\ RepoOK(sub')
    BY <2>1, NewRepoOK DEF SuperOK, Registered, AddInv
  <2>. QED BY <2>1, <2>2, PartsNext
<1>3. CASE UNCHANGED vars
  <2>1. UNCHANGED <<server, default, registered, branch, gitlink, sub, result, pc, fr>>
    BY <1>3 DEF vars
  <2>2. SuperOK' /\ Registered' /\ AddInv'
    BY <2>1 DEF SuperOK, Registered, AddInv, HeadCommit
  <2>. QED BY <2>1, <2>2, PartsNext
<1>. QED BY <1>1, <1>2, <1>3

LEMMA InitInv ==
  ASSUME Init
  PROVE  SubInv
<1>1. SuperOK /\ Registered /\ AddInv
  BY DEF Init, SuperOK, Registered, AddInv, Ids
<1>2. /\ sub = NoRepo /\ gitlink = 0 /\ result = 0 /\ pc = "idle"
      /\ fr = NoFrame /\ ~NoRepo.there
  BY DEF Init, NoRepo, NewRepo
<1>. QED BY <1>1, <1>2, Parts, NewRepoOK, FrameFacts DEF Phases, Ids

LEMMA NextInv ==
  ASSUME SubInv, [Next]_vars
  PROVE  SubInv'
<1>1. CASE Crash
  BY <1>1, FailInv DEF Crash
<1>. QED
  BY <1>1, AddSteps, FetchSteps, SetToSteps, OtherSteps DEF Next, Continue

LEMMA SubInvariant == Spec => []SubInv
<1>. QED BY InitInv, NextInv, PTL DEF Spec

\* The refs of a submodule name commits its repository has, and only what is
\* registered in .gitmodules is recorded in the index or has a folder: for
\* every server, and after any call that failed half way.
THEOREM SubmoduleTypeCorrect == Spec => []TypeOK
<1>1. SubInv => TypeOK
  BY DEF SubInv
<1>. QED BY <1>1, SubInvariant, PTL

\* git_submodule_add records the commit it looked up, whatever happens on the
\* server between that look and the fetch.
THEOREM AddRecordsIt == Spec => AddRecordsWhatItFound
<1>. DEFINE Step == pc = "save" /\ pc' = "idle" /\ result' # 0 =>
                      fr.oid = gitlink' /\ fr.oid = HeadCommit /\ registered
<1>1. SubInv /\ [Next]_vars => [Step]_vars
  <2>1. SUFFICES ASSUME SubInv, Next, pc = "save", pc' = "idle", result' # 0
                 PROVE  fr.oid = gitlink' /\ fr.oid = HeadCommit /\ registered
    OBVIOUS
  <2>2. AddSave
    BY <2>1 DEF Next, Continue, CallAdd, CallFetch, CallSetTo, Setup, AddFetch,
                AddReset, Clone, FetchReset, FetchLs, SetToId, Record,
                ServerChange, UserAct, Crash, Fail, Return
  <2>. QED BY <2>1, <2>2 DEF AddSave, SubInv, AddInv, Registered
<1>. QED BY <1>1, SubInvariant, PTL DEF Spec, AddRecordsWhatItFound

\* git_submodule_fetch checks out what the branch of origin/HEAD was on when it was
\* fetched, and a call that cloned or asked has origin/HEAD as the server named it
\* then: also after an add that failed half way, and while the server is rewritten
\* and gets another default branch.
THEOREM FetchGetsCurrent == Spec => FetchIsCurrent
<1>. DEFINE Step == pc = "head" /\ pc' = "idle" /\ result' # 0 /\ branch = None =>
                      LET b == sub'.remoteHead IN
                        /\ fr.named \in {None, b}
                        /\ HeadCommit' = fr.seen[b] \/ fr.seen[b] = 0
<1>1. SubInv /\ [Next]_vars => [Step]_vars
  <2>1. SUFFICES ASSUME SubInv, Next, pc = "head", pc' = "idle", result' # 0,
                        branch = None
                 PROVE  LET b == sub'.remoteHead IN
                          /\ fr.named \in {None, b}
                          /\ HeadCommit' = fr.seen[b] \/ fr.seen[b] = 0
    OBVIOUS
  <2>2. FetchReset
    BY <2>1 DEF Next, Continue, CallAdd, CallFetch, CallSetTo, Setup, AddFetch,
                AddReset, AddSave, Clone, FetchLs, SetToId, Record, Goto,
                ServerChange, UserAct, Crash, Fail, Return
  <2>3. PICK b \in Refs : b = sub.remoteHead
    <3>1. sub.remoteHead \in Refs \cup {None}
      BY <2>1, Parts DEF RepoOK, Repository
    <3>. QED BY <2>1, <2>2, <3>1 DEF FetchReset
  <2>4. ResetTo(sub.track[b])
    BY <2>1, <2>2, <2>3 DEF FetchReset, Fail, Return
  <2>5. sub.track[b] \in sub.objects \cup {0}
    BY <2>1, Parts DEF RepoOK
  <2>6. HeadCommit' = sub.track[b] /\ sub'.remoteHead = b
    BY <2>1, <2>3, <2>4, <2>5, Parts, ResetOK
  <2>7. /\ sub.track[b] = fr.seen[b] \/ fr.seen[b] = 0
        /\ fr.named \in {None, b}
    BY <2>1, <2>3 DEF SubInv, FetchInv, Fresh
  <2>. QED BY <2>6, <2>7
<1>. QED BY <1>1, SubInvariant, PTL DEF Spec, FetchIsCurrent
=============================================================================
