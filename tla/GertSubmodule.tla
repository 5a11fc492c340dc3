--------------------------- MODULE GertSubmodule ---------------------------
(***************************************************************************)
(* One submodule of a repository: git_submodule_add, git_submodule_fetch   *)
(* and git_submodule_set_to are sequences of calls on the repository, on   *)
(* the submodule's own repository and on the server it comes from.  One R  *)
(* session works on it; the server changes between any two steps.          *)
(*                                                                         *)
(* R works in the top directory of the repository: git_submodule_fetch and *)
(* git_submodule_set_to open the submodule by its relative path.  A branch *)
(* on the server is the set of its commits, {} if it is not there.         *)
(***************************************************************************)
EXTENDS Integers

CONSTANTS
  Refs,        \* the branches of the server
  Initial,     \* the branch a new repository starts on: init.defaultBranch
  Commits,
  Histories,   \* what the branches of the server may hold
  None,
  Calls

ASSUME SubmoduleAssumption ==
  /\ None \notin Refs
  /\ Commits \subseteq Nat \ {0}
  /\ \A h \in Histories :
       /\ h \subseteq Commits
       /\ h # {} => \E newest \in h : \A c \in h : c <= newest

VARIABLES
  server,      \* the branches of the remote repository
  default,     \* the branch that HEAD names there, which need not exist
  registered,  \* .gitmodules has an entry
  branch,      \* its branch, or None
  gitlink,     \* the commit in the index of the repository, 0 for none
  sub,         \* the repository of the submodule
  result,      \* the commit the last call returned, 0 for an error
  pc, fr

vars == <<server, default, registered, branch, gitlink, sub, result, pc, fr>>
super == <<server, default, registered, branch, gitlink>>

Locals == Refs \cup {Initial}
Ids == Commits \cup {0}
Tip(h) == IF h = {} THEN 0
                     ELSE CHOOSE newest \in h : \A c \in h : c <= newest

Repository == [there : BOOLEAN,
               objects : SUBSET Commits,
               local : [Locals -> Ids],        \* refs/heads
               on : Locals,                    \* what HEAD names
               track : [Refs -> Ids],          \* refs/remotes/origin
               remoteHead : Refs \cup {None}]  \* refs/remotes/origin/HEAD

NewRepo == [there |-> TRUE, objects |-> {}, local |-> [b \in Locals |-> 0],
            on |-> Initial, track |-> [b \in Refs |-> 0], remoteHead |-> None]
NoRepo == [NewRepo EXCEPT !.there = FALSE]

Frame == [oid : Ids,                \* the commit an add or set_to is about
          seen : [Refs -> Ids],     \* the server's tips that were fetched
          named : Refs \cup {None}] \* its default branch, if the call asked
NoFrame == [oid |-> 0, seen |-> [b \in Refs |-> 0], named |-> None]

Tips == [b \in Refs |-> Tip(server[b])]
HeadCommit == sub.local[sub.on]

Init ==
  /\ server \in [Refs -> Histories] /\ default \in Refs
  /\ registered = FALSE /\ branch = None /\ gitlink = 0 /\ sub = NoRepo
  /\ result = 0 /\ pc = "idle" /\ fr = NoFrame

Goto(l) == pc' = l /\ UNCHANGED result
Return(c) == pc' = "idle" /\ fr' = NoFrame /\ result' = c
Fail == Return(0) /\ UNCHANGED <<super, sub>>

\* git_fetch("origin") in the submodule: it does not prune.
Fetched(r) ==
  [r EXCEPT !.objects = @ \cup UNION {server[b] : b \in Refs},
            !.track = [b \in Refs |-> IF server[b] = {} THEN @[b] ELSE Tips[b]]]

\* The default branch, as a server tells it: one that is not there is no HEAD.
Advertised == IF server[default] = {} THEN None ELSE default

\* git_clone into the folder of the submodule checks the default branch out;
\* without one it leaves the repository on its unborn branch.
Cloned ==
  IF Advertised = None THEN Fetched(NewRepo)
    ELSE [Fetched(NewRepo) EXCEPT !.on = default, !.remoteHead = default,
                                  !.local[default] = Tips[default]]

\* git_reset_hard moves the branch HEAD names.
ResetTo(c) == sub' = [sub EXCEPT !.local[sub.on] = c]

-----------------------------------------------------------------------------
(* git_submodule_add.                                                      *)

\* A branch is looked up on the server, a hash is taken as it is.
CallAdd ==
  /\ pc = "idle" /\ "add" \in Calls
  /\ \/ \E b \in Refs : server[b] # {} /\ fr' = [NoFrame EXCEPT !.oid = Tips[b]]
     \/ \E c \in Commits : "hash" \in Calls /\ fr' = [NoFrame EXCEPT !.oid = c]
  /\ Goto("setup")
  /\ UNCHANGED <<super, sub>>

\* What is registered already is not set up again.
Setup ==
  /\ pc = "setup"
  /\ IF registered THEN Fail
       ELSE /\ registered' = TRUE
            /\ sub' = NewRepo
            /\ Goto("fetch")
            /\ UNCHANGED <<server, default, branch, gitlink, fr>>

AddFetch ==
  /\ pc = "fetch"
  /\ \/ sub' = Fetched(sub) /\ Goto("reset") /\ UNCHANGED <<super, fr>>
     \/ Fail                             \* the connection fails

\* Mutant of AddReset: a branch is checked out, as it was fetched.
ResetByName ==
  /\ pc = "reset"
  /\ \E b \in Refs : sub.track[b] # 0 /\ ResetTo(sub.track[b])
  /\ Goto("save")
  /\ UNCHANGED <<super, fr>>

\* Mutant of AddReset: the commit is not looked for.
ResetUnchecked ==
  /\ pc = "reset"
  /\ ResetTo(fr.oid)
  /\ Goto("save")
  /\ UNCHANGED <<super, fr>>

\* The commit may be gone from the server since it was looked up.
AddReset ==
  /\ pc = "reset"
  /\ IF fr.oid \in sub.objects
       THEN ResetTo(fr.oid) /\ Goto("save") /\ UNCHANGED <<super, fr>>
       ELSE Fail

\* git_submodule_add_finalize records what is checked out.
AddSave ==
  /\ pc = "save"
  /\ gitlink' = HeadCommit
  /\ Return(HeadCommit)
  /\ UNCHANGED <<server, default, registered, branch, sub>>

-----------------------------------------------------------------------------
(* git_submodule_fetch.                                                    *)

CallFetch ==
  /\ pc = "idle" /\ "fetch" \in Calls
  /\ registered
  /\ IF sub.there
       THEN /\ sub' = Fetched(sub)
            /\ fr' = [NoFrame EXCEPT !.seen = Tips]
            /\ Goto("head")
       ELSE Goto("clone") /\ UNCHANGED <<sub, fr>>
  /\ UNCHANGED super

\* "Initial clone for submodule".
Clone ==
  /\ pc = "clone"
  /\ \/ /\ sub' = Cloned
        /\ fr' = [NoFrame EXCEPT !.seen = Tips, !.named = Advertised]
        /\ Goto("head")
        /\ UNCHANGED super
     \/ Fail

\* The branch of .gitmodules is the submodule's local one, if it has it;
\* otherwise the server's default branch, as origin/HEAD knows it.
FetchReset ==
  /\ pc = "head"
  /\ branch # None \/ sub.remoteHead # None
  /\ LET c == IF branch # None THEN sub.local[branch]
                               ELSE sub.track[sub.remoteHead] IN
     IF c # 0 THEN ResetTo(c) /\ Return(c) /\ UNCHANGED super
              ELSE Fail

\* Mutant of FetchLs: the server's default branch is checked out right away.
ResetToListed ==
  /\ pc = "head"
  /\ branch = None /\ sub.remoteHead = None
  /\ IF Advertised # None /\ Tips[default] \in sub.objects
       THEN /\ sub' = [sub EXCEPT !.remoteHead = default,
                                  !.local[sub.on] = Tips[default]]
            /\ Return(Tips[default]) /\ UNCHANGED super
       ELSE Fail

\* git_remote_ls points origin/HEAD at the default branch, if it was fetched;
\* git_reset_hard fails if there still is none.
FetchLs ==
  /\ pc = "head"
  /\ branch = None /\ sub.remoteHead = None
  /\ IF Advertised # None /\ sub.track[default] # 0
       THEN /\ sub' = [sub EXCEPT !.remoteHead = default]
            /\ fr' = [fr EXCEPT !.named = default]
            /\ Goto("head")
            /\ UNCHANGED super
       ELSE Fail

-----------------------------------------------------------------------------
(* git_submodule_set_to, and what others do.                               *)

\* With checkout, ref is resolved in the submodule and read back from it;
\* without, a hash is taken as it is.
CallSetTo ==
  /\ pc = "idle" /\ registered
  /\ \/ \E c \in sub.objects :
          /\ "set_to" \in Calls /\ sub.there
          /\ ResetTo(c)
          /\ Goto("id") /\ UNCHANGED fr
     \/ \E c \in Commits :
          /\ "set_hash" \in Calls
          /\ fr' = [NoFrame EXCEPT !.oid = c]
          /\ Goto("record") /\ UNCHANGED sub
  /\ UNCHANGED super

SetToId ==
  /\ pc = "id"
  /\ fr' = [NoFrame EXCEPT !.oid = HeadCommit]
  /\ Goto("record")
  /\ UNCHANGED <<super, sub>>

Record ==
  /\ pc = "record"
  /\ gitlink' = fr.oid
  /\ Return(fr.oid)
  /\ UNCHANGED <<server, default, registered, branch, sub>>

\* Somebody pushes to the server, rewrites or deletes a branch, or makes another
\* one the default.
ServerChange ==
  \E b \in Refs :
    /\ "others" \in Calls
    /\ \/ \E h \in Histories : server' = [server EXCEPT ![b] = h] /\ UNCHANGED default
       \/ default' = b /\ UNCHANGED server
    /\ UNCHANGED <<registered, branch, gitlink, sub, result, pc, fr>>

\* The user deletes the folder, or edits .gitmodules.
UserAct ==
  /\ pc = "idle" /\ registered
  /\ \/ "delete" \in Calls /\ sub' = NoRepo /\ UNCHANGED branch
     \/ "branch" \in Calls /\ branch' \in Refs \cup {None} /\ UNCHANGED sub
  /\ UNCHANGED <<server, default, registered, gitlink, result, pc, fr>>

Crash == "crash" \in Calls /\ pc # "idle" /\ Fail

Continue ==
  \/ Setup \/ AddFetch \/ AddReset \/ AddSave
  \/ Clone \/ FetchReset \/ FetchLs
  \/ SetToId \/ Record

Next ==
  \/ CallAdd \/ CallFetch \/ CallSetTo \/ Continue
  \/ ServerChange \/ UserAct \/ Crash

Spec == Init /\ [][Next]_vars

-----------------------------------------------------------------------------

\* The refs of the submodule name commits it has, and only what is registered
\* is recorded or has a folder.
TypeOK ==
  /\ server \in [Refs -> Histories] /\ default \in Refs /\ registered \in BOOLEAN
  /\ branch \in Refs \cup {None} /\ gitlink \in Ids /\ result \in Ids
  /\ sub \in Repository
  /\ \A b \in Locals : sub.local[b] \in sub.objects \cup {0}
  /\ \A b \in Refs : sub.track[b] \in sub.objects \cup {0}
  /\ sub.there \/ gitlink # 0 => registered
  /\ pc \in {"idle", "setup", "fetch", "reset", "save", "clone", "head",
             "id", "record"}
  /\ fr \in Frame

\* git_submodule_add, if it returns, has checked out and recorded the commit
\* that the branch was on when the call looked it up, whatever was pushed to or
\* taken from the server before the fetch.
AddRecordsWhatItFound ==
  [][pc = "save" /\ pc' = "idle" /\ result' # 0 =>
       fr.oid = gitlink' /\ fr.oid = HeadCommit /\ registered]_vars

\* git_submodule_fetch, if it returns, has checked out what the branch that
\* origin/HEAD names was on when the server was fetched: after a first clone, an
\* add that failed half way and a set_to as well.  A call that had to clone, or to
\* ask the server, goes by what the server's HEAD named then; any other by what it
\* named when the submodule was cloned or first fetched, because nothing refreshes
\* origin/HEAD: after the server has another default branch the submodule stays
\* on the old one.  (The property is silent about a branch that is gone from the
\* server, and about one named in .gitmodules: then the submodule stays on its
\* local branch of that name.)
FetchIsCurrent ==
  [][pc = "head" /\ pc' = "idle" /\ result' # 0 /\ branch = None =>
       LET b == sub'.remoteHead IN
         /\ fr.named \in {None, b}
         /\ HeadCommit' = fr.seen[b] \/ fr.seen[b] = 0]_vars
=============================================================================
