# gert: a verification development

gert is an R package whose C glue (`src/src/*.c`) calls libgit2 on behalf of R
wrappers (`src/R/*.R`). One R session runs one call at a time, but the
repository is a set of files that other R sessions, IDEs and git itself use at
the same time, and a remote belongs to everybody who pushes to it. Every gert
function is a *sequence* of libgit2 calls, and nothing holds a lock from one of
them to the next: what can go wrong is between the calls. A failing call raises
an R error through `bail_if` (`src/src/utils.c:14`) and leaves behind what the
earlier calls of the sequence did.

libgit2 itself is not part of gert. The models treat each libgit2 call as one
atomic step with the effect that gert relies on; those operators are marked
`external` in the map of `PROJECT.json`.

## Inventory

| part | state it keeps | operations | hard behaviour | what makes it correct |
|---|---|---|---|---|
| merge (`merge.c`, `merge.R`) | MERGE_HEAD, ORIG_HEAD, index, working directory | merge, stage_only, abort, analysis, merge base | many steps, merging state outlives the call, conflicts | the merge commit joins the two sides and contains both; edits survive; the merging state ends |
| commit (`commit.c`, `commit.R`) | objects, branch of HEAD, index | commit, commit_all, add, rm | tree and parents are read at different moments; optimistic branch update | the tip is never lost; only staged files change; no conflict markers |
| branch, checkout (`branch.c`, `branch.R`) | refs/heads, HEAD | checkout, orphan, create, delete, fast_forward, move | tree first, HEAD second; analysis before move | edits survive; branches only advance |
| reset, rebase, cherry-pick (`rebase.c`, `rebase.R`), revert (`commit.c`) | branch, index, working directory | reset, rebase list/commit, cherry_pick, revert | in-memory rebase, then a separate branch move | a failed rebase changes nothing; the rebased commits carry the local changes |
| status, files, restore (`files.c`, `restore.R`) | reads index and HEAD, overwrites files | status, ls, restore, info | refreshes the handle's index as a side effect | staged and unstaged rows describe one snapshot |
| history walks (`commit.c`) | none | log, stat_files | two passes over first parents with a bound | the log is the prefix of the matching first-parent history |
| remote traffic (`clone.c`, `fetch.R`) | tracking branches, upstreams, the servers | clone, fetch, push, pull, remote_ls | the server moves between two steps; it may refuse a ref or the connection may break | no work is lost on either side; tracking branches tell the truth; upstreams exist |
| credentials (`clone.c`, `credentials.R`) | the retries counter, the stored secret | the callback, ask, forget | called again and again, for kinds of credential the server picks | few attempts; the right secret gets in; only refused ones are forgotten |
| remotes (`branch.c`, `remotes.R`) | remote.*, branch.*.merge | add, set_url, remove | tracking branches outlive the URL they came from | no upstream without its remote |
| worktrees (`worktree.c`, `worktree.R`) | .git/worktrees, folders, locks | add, remove, prune, lock, unlock | check-then-act on names, paths and branches; folders that the user moves | one branch, one working tree; nothing valid or locked is pruned unasked |
| stash and archive (`stash.c`, `archive.R`) | refs/stash, index, working directory | save, pop, drop, archive_zip | stash position 0 may be another's stash | an edit is in a file or in the stash |
| submodules (`submodules.c`, `submodules.R`) | .gitmodules, index, the clone | add, fetch, set_to, init | four calls on three repositories | what is checked out and recorded is what was looked up |
| configuration (`config.c`), handles (`open.R`), tags, conflicts listing, errors, signatures | configuration files, handle cache | get/set, open | single calls | not modelled |
| set-up (`init.c`, `version.c`, `certs.R`, `roxygen2.R`, `ignore.c`) | none | | no protocol | not modelled |

## Modules

| module | what it is |
|---|---|
| `GertRepo` | the repository: commits, refs, HEAD, index, working directory, MERGE_HEAD; the libgit2 primitives as operators |
| `GertMerge` | extends `GertRepo`: sessions that call the merge, commit, reset and branch functions; one action per step |
| `GertPick` | extends `GertMerge`: cherry-pick, revert, rebase, on the same repository and next to the other calls |
| `GertStash` | extends `GertMerge`: stash, archive and restore, next to the other calls |
| `GertHistory` | abstract specification: how history may change; `GertMerge` instantiates it as `SharedHistory` and `SerialHistory` |
| `GertLog` | `git_log` and `git_stat_files` as loops over a first-parent history |
| `GertRemote` | clones, servers, fetch, pull, push, remotes, upstreams |
| `GertAuth` | the credential callback, round by round |
| `GertWorktree` | linked worktrees and the folders they stand for |
| `GertSubmodule` | one submodule: three repositories and `.gitmodules` |
| `MCPick`, `MCStash`, `MCLog`, `MCRemote`, `MCAuth`, `MCWorktree`, `MCSubmodule` | small instances for TLC |
| `GertMergeProofs` | theorems about `GertMerge`: types; commits keep the tip, `GertHistory` is implemented; edits survive |
| `GertPickProofs` | the same four results with the calls of `GertPick` added, and all that holds of one session working alone: what commits, merges, picks and rebases contain, that calls finish what they start, that `GertHistory` is implemented with `Disciplined` |
| `GertStashProofs` | an edit is in a file or in the stash; archives give the files back |
| `GertRemoteProofs` | no work is lost on a server or in a clone; pulls bring in what they fetched; tracking branches and upstreams |
| `GertWorktreeProofs` | one branch, one working tree; only what is asked for is pruned |
| `GertLogProofs` | the two walks of `git_log` agree; what both calls return |
| `GertAuthProofs` | how often secrets are sent, when they are forgotten, when the callback gives up |
| `GertSubmoduleProofs` | a submodule's refs exist; what an add records and a fetch checks out |

### The repository: GertRepo, GertMerge, GertPick, GertStash

`objs` is the object database. A commit is its position in the sequence and
carries parents, tree and the set of its ancestors; the set is what a walk of
the parents would find (`WellFormed` says so, and the proofs show it stays so),
which keeps the specification free of recursion. `refs` and `head` are
refs/heads and HEAD; detached HEADs are not modelled because no function of
the modelled set produces one. `index` and `workdir` map files to contents,
with `Conflict` for the stage 1-3 entries of a conflicted path and `Markers`
for what checkout writes for it. `mergeHead` is MERGE_HEAD.

A session has a label `pc` (its position in the R function or C routine) and a
frame `fr` (the locals of the call). The index a libgit2 handle holds in memory
is `fr[s].snap`: `git_status` reads it from disk, `git_index_write_tree` does
not. An action stands for the code from one libgit2 call that touches the
repository up to the next one. Code between two calls that only looks at locals
belongs to the earlier action. `Crash` ends a session anywhere. So an orphan
checkout is the look-up of the branch and then HEAD; `git_add` and `git_rm` read
the index, change it and write it back, and what another session staged in
between is gone; and `git_commit_all` reads the status again, in the handle that
then commits, after its add and its rm.

Calls that would find nothing to do (`Already up to date`, an error before the
first write) are left out: they change nothing.

Cherry-pick, revert and rebase (`GertPick`) reuse the frame: `new` is the commit
that is applied or, in a rebase, the last one written, `todo` the commits a
rebase has yet to replay. A replay takes author, dates and message over, so
writing the tree of the same commit on the same parent again yields the same
object; whether *another* commit with that tree and parent is the same object
depends on data the model leaves out, and `Recommitted` allows both. libgit2
orders the operations of a rebase topologically and by date; the model takes
any order with parents first. A cherry-pick that does not apply changes nothing
and is not a step. A rebase writes its commits to the object database only, and
the branch moves in the `move` step it shares with fast-forward.

Two contents of a file always conflict; changes that git would merge line by
line are changes to different files. The forced checkout of `git_merge` rewrites
every tracked file, so an unstaged edit to a file that the merge does not touch
goes back to what HEAD has. libgit2's documentation leaves this to the
`checkout_strategy` that `merge.c:87` passes; the property `EditsNotReplaced` is
stated to allow it and to forbid anything worse.

`GertStash` adds `stash`, newest entry first; an entry is the tree it was made
on, the tracked and the untracked files. A stash call is one libgit2 call and so
one step. `git_archive_zip` is two, the save and the `on.exit` pop of entry 0,
with everybody else in between, and `git_restore` is its checks in R, which turn
the ref into a commit, followed by the checkout of that commit in C. `gert` pops without reinstating the index, so staged changes
come back unstaged.

### The walks: GertLog

`GertLog` has no repository: commits never change, so a state is a history (the
line of first parents, ending in a root or at the edge of a shallow clone), the
arguments of the call, the loop variables of the C code and the rows so far. A
step is one iteration. A limit below zero, which R rejects when it allocates,
is left out.

### The remote side: GertRemote and GertAuth

In `GertRemote` a history is the set of commits reachable from a tip, so that
ancestry is inclusion and the empty set is a ref that does not exist. `made[c]`
is the change commit c carries: a rebase makes new commits with old changes, a
merge commit carries none. `repo[u]` is a clone: URLs, refs/heads,
refs/remotes, upstreams, HEAD; in a mirror a fetch writes refs/heads themselves,
for each remote in `mirrors`, the remotes whose refspec says so. One session
works on a clone, so calls on the clone alone (checkout and creation of a branch,
which take over an upstream when they start from a tracking branch; `remotes.R`)
are one step. A push has three steps: what happens up to the
server's advertisement (`CallPush`, with libgit2's fast-forward check against
*the advertisement*), the update (`PushSend`, in which the server compares and
may refuse any ref; or `PushLost`, in which the connection breaks before or
after the refs have moved), and `PushUpstream`. A pull is a fetch and an
integration, and a conflict ends it. Between any two steps others push to the
server, rewrite or delete branches (`ServerChange`), and a server in `ReadOnly`
refuses whatever is pushed. How a merge or a rebase
goes about its work is left to `GertMerge` and `GertPick`.

`GertAuth` is one operation after the other. Each secret a user may have (agent,
key file, `GITHUB_PAT`, the credential manager's, what is typed) is missing,
right or wrong; the server names any set of kinds in every round. One action is
one path through `auth_callback` (`src/src/clone.c:176-247`), with the counter
that the SSH part and the password part share. The stored secret outlives the
operation and may be revoked.

### Worktrees and submodules: GertWorktree and GertSubmodule

`GertWorktree` keeps the entries of `.git/worktrees` (`meta`) apart from what is
at their paths (`disk`), because the user deletes, refills and disconnects
folders without telling git. What is at a path is a working tree, nothing, or
something git did not make (`Foreign`: a file or a folder). An entry is `Half` when `git_worktree_add` made it
and then failed on the folder. Lock, unlock, prune and remove are a lookup
followed by the act; `Asked` is the sets of flags that prune is called with.

`GertSubmodule` has the server's branches and the one its HEAD names
(`default`, which others may change at any moment), the entry in `.gitmodules`
(`registered`, `branch`), the commit in the index (`gitlink`) and the clone
(`sub`) with its objects, branches, tracking branches and origin/HEAD. A commit
is numbered by age, and a branch of the server is the set of its commits.

## Runs

| run | what it shows |
|---|---|
| `Serial` | one session that merges, picks, reverts, edits and stages: only staged files are committed, merge commits join the right sides and have both parents, a pick commits one change, edits survive |
| `Concurrent` | two sessions, crashes, resets, deletions, orphan branches, open merges, rebases: commits keep the tip, `SharedHistorySpec` |
| `Unattended` | one session, no edits, every fork of three commits: calls leave nothing half done, merge trees are merges, no markers, a rebase keeps the work of a straight branch and what `git_rebase_list` predicts of it, `SerialHistorySpec` (branches never lose commits) |
| `Log` | every history of up to three commits with every call: rows, failures, sums, termination |
| `Remote` | one user and two servers that others push to: a push without force takes nothing from a server, no call loses a committed change, tracking branches and mirrors show what a server had, upstreams exist and are the branch's own or the one it was made from |
| `Auth` | every combination of secrets and every order of challenges: few attempts, the right secret gets in, only refused ones are forgotten, the operation ends |
| `Worktree` | two sessions, two names, three paths, one of them on a drive that comes and goes: one branch in one working tree, no prune that was not asked for |
| `Stash` | two sessions with edits, archives and a branch that moves: an edit is in a file or in the stash, an undisturbed archive gives the files back |
| `Submodule` | a server rewritten and given another default branch between any two steps, failing connections, deleted folders: an add records what it looked up, a fetch checks out what it fetched of the branch origin/HEAD names |
| `FindSquashConflict` | violated: a conflicting squash merge cannot be aborted |
| `FindLogLimit` | violated: `git_log` fails when a filter leaves one row less than `max` |
| `FindPushUpstream` | violated: a push that the server refuses sets the upstream |

**Bounds.** The repository runs use two files, because one can conflict while
the other merges; a third adds nothing that operators working file by file could
distinguish. The forks of `MCPick` cover a clean merge, a conflict, the same
change on both sides, modify against delete and, because a rebase differs from a
merge only when there is a second commit to replay, branches with two commits.
`MaxCommits` bounds the object database: two or three commits beyond the initial
ones are enough for a merge commit, a commit on top of it and one by the other
session, and for a complete rebase and another commit. `Concurrent` has four in
all, of which the two sessions add two. `MaxStash` is 2, one entry of each
session, and the stash run's file `g` is untracked at first. `Log` needs three
commits: the walks treat the first, an inner and the last one differently, and
the theorems below cover the rest. `Remote` has one user, because what other
users do reaches him through the servers only (`OtherPushes`: a colleague pushes
a commit and takes it back), two servers for a remote that is re-pointed (one
takes pushes, one is read-only; each has a default branch with the first commit
and may have a second branch with a later one: `TwoBranches`), and one remote
name: a second one multiplies the states and the calls treat each remote alone,
except for the choice of a default. `Auth` is unbounded but for its
finite data; the sequence of secrets sent is bounded by the counter, which
`FewAttempts` says. `Worktree` has two paths that are always there, so that two
linked worktrees can compete for the one branch that is not checked out in the
main tree, and one on the drive; prune is called with the default flags and with
the two that remove most.
`Submodule` has two branches, either of them the default, and three commits, of
which 3 rewrites 2: enough for a default branch to move ahead, to be rewritten, to
disappear, and to hand over to the other one.

Properties of one session alone (`CommitsOnlyStaged`, `MergeJoinsItsSides`,
`MergeTreeIsMerge`, `NothingHalfDone`, `RebaseKeepsWork`, `CleanListNoConflict`,
`PicksOneChange`, `SerialHistorySpec`) are checked for one session, and fail for two; see below.

`CHECK_DEADLOCK FALSE` is set in `Serial`, `Unattended`, `Concurrent` and the
`Find` runs, where the calls of a run can all become unavailable (the bound on
commits, or nothing left to merge): sessions that have nothing to call are idle,
not stuck. The other runs check deadlock: a call in progress always has a next
step, an error if nothing else. `Log` starts with a call and ends with a
stuttering step.

**Fairness.** `PickFairSpec` asks for weak fairness of the steps of a call that has started: a C routine that
has been entered keeps running. Nothing is assumed of starting calls, and the
liveness run has no crashes because a dead session returns from nothing.
`GertLog`'s `FairSpec` says the same of the loops, and `GertAuth`'s `Spec` of the
callback and of a server that answers. `GertRemote`, `GertStash`, `GertWorktree`
and `GertSubmodule` state no liveness: their calls are straight-line sequences.

## Disagreements seen while modelling

The three `Find` runs are the ones quoted in `PROJECT.json` with the line of
documentation they contradict. The models contain more of them; no run looks for
these, because a property that forbids them fails at once, or because nothing in
the repository promises the opposite.

* With two sessions a fast-forward, or the end of a rebase, moves the branch to
  the commit it decided on and drops one that was made meanwhile
  (`git_branch_fast_forward`, `git_rebase_commit`); `SharedHistorySpec` allows
  this move.
* With two sessions a commit writes the tree of the index its handle had read,
  on a parent read later, and so reverts the other session's commit.
* The state cleanup at the end of a cherry-pick removes a MERGE_HEAD that another
  session has just written, or that a merge left open; the merge is then
  committed with one parent.
* A merge without changes leaves MERGE_HEAD. A staged merge can be committed on
  another branch after a checkout.
* `git_rebase_list` marks the second of two commits to a file although it
  rebases without trouble. A rebase leaves out what only a merge commit contains,
  and fails on a change that upstream has although nothing was marked.
* A rebase replays parallel lines of commits that a merge had joined one after
  the other. When one line changes a file and changes it back, the other line's
  change of that file is a conflict `git_rebase_list` did not mark, or the
  branch ends with other files than the merge had. `RebaseKeepsWork` and
  `CleanListNoConflict` are therefore stated for branches that are `Straight`:
  own commits without a merge among them. The proof attempt showed the need, and
  TLC then found a counterexample with lines of one and of two commits and their
  merge; the forks of `MCPick` are too short to have one.
* `git_worktree_add` on a path that is a regular file, or that becomes a folder
  after the check, leaves an entry that can be neither looked up nor pruned nor
  added again (`Half`), which the comment in `worktree.R:141-143` wants to avoid.
  A path on a drive that is not connected hides a checked out branch.
* The user name typed at the prompt is thrown away (`credentials.R:75`) and NA is
  sent for it.
* `git_submodule_fetch` with a branch in `.gitmodules` resets to the *local*
  branch of that name, which the fetch has not moved. Without one it resets to the
  branch that origin/HEAD names in the submodule, which is written by the clone
  or by the first `git_remote_ls` and refreshed by nothing: after the server has
  renamed its default branch, every later fetch stays on the old one
  (`submodules.R:108-113`). `FetchIsCurrent` is stated for the branch of
  origin/HEAD, and says in addition that a call which cloned or asked goes by
  what the server named then. The path of a submodule is
  opened relative to R's working directory; the model takes that to be the top of
  the repository.
* `git_archive_zip` in the middle of a merge unstages the merge.
* Two sessions that call `git_add` or `git_rm` at once can lose each other's
  staging; a mixed reset in an open conflict takes the conflict out of the index,
  and `git_commit_all` then commits the markers. `NoMarkersCommitted` is about
  runs that call neither `git_add` nor a mixed reset.

## Proofs

Every safety property that a passing run checks is also a theorem, for any number
of sessions, users, files, branches, contents and commits and for every selection
of calls, from the named assumptions on the constants (`ContentAssumption`,
`InitReposAssumption`, `SessionAssumption`, `StashAssumption`,
`RemoteAssumption`, `WorktreeAssumption` and those of `GertLog`, `GertAuth` and
`GertSubmodule`). They say what TLC's model values satisfy by being different
(conflict markers are not the absence of a file, None is not a name) and that
initial repositories are well formed. Further hypotheses are part of a theorem's
statement and named below.

**Many sessions** (`GertMergeProofs`, `GertPickProofs`).

* `TypeCorrect`: `TypeOK` is inductive. Besides types it says that the commit
  graph is well formed (`History`) and that every commit id a ref, MERGE_HEAD or
  a running call holds exists. `AppendHistory` is the core: a commit on existing
  parents keeps the ancestor sets exact.
* `CommitsKeepTips`: from `TypeOK` and the check of `git_commit_create`
  (`TipIsFirstParent`): the tip is the first parent, hence in the new past.
* `ImplementsHistory`: `Spec => SharedHistorySpec`. The refinement hides index,
  working directory and frames. It needs one more invariant, `MovesExist`: a
  session that is about to move a branch holds an existing commit.
* `EditsKept`: `EditsNotReplaced` when no forced or hard call is made, with the
  invariant `NoForce` about branch creations in progress.
* `PickTypeCorrect`, `PicksKeepTips`, `PicksImplementHistory`, `PicksKeepEdits`:
  the same results for `PickSpec`. The invariant is `TypeOK`, `MovesExist` and
  that a cherry-pick about to commit has read an existing tip. A rebase maps to
  steps of `GertHistory` that add commits no branch has (`Replay`), followed by
  one move.

**One session** (`GertPickProofs`). The properties fail for two sessions, so the
theorems assume `Alone`: `Sessions` has one element. The user may still edit and
the session may still crash.

* `CommitsWhatIsStaged`, `PicksCommitOneChange`: the invariant `CopiesCurrent`
  says, label by label, which locals of a call are still what the repository has:
  the index and the staged rows from `git_status` to `git_commit_create`,
  MERGE_HEAD from `git_merge_parent_heads`, the tip from the lookup of the
  parents, and that the index of a cherry-pick is the picked change.
* `CallsFinish`, `MarkersStayOut`, `MergesAreWhole`, `MergesJoin` need more:
  `Unattended` excludes edits by hand, crashes, `stage_only`, `commit = FALSE`
  and the other calls that leave work behind by design, and `GoodStart` asks that
  the first commit is there and the initial history satisfies the last two. The
  invariant `OrderInv` has a part about the repository (`InOrder`: index and
  files differ only in conflicts; no markers in index or history) and one about
  each label (`Orderly`): where a call rests there is nothing to commit
  (`Settled`); where it is merging, MERGE_HEAD, ORIG_HEAD and index belong to
  one merge (`Joined`).
* `SerialImplementsHistory`: with `NothingDropped` as well (no hard reset, no
  branch overwritten by `force = TRUE`; both drop commits when told to), the
  session implements `GertHistory` with `Disciplined`. `GertHistory` lets a
  branch leave its tip only for a replay of as many commits, so the invariant
  `ForwardInv` counts: commits written so far plus commits to be replayed are as
  many as the branch's own (`MovesForward`).
* `RebasesKeepWork`, `CleanListsReplay`: a branch of any length, under `Alone`.
  Its own commits form a line (`Straight`), whence its history is totally
  ordered and leaves upstream at one commit (`Comparable`, `BranchPoint`, by the
  well-ordering lemma `Smallest`). `Replaying` says how far the rebase has come:
  a commit c of the line is `Reached`; the commit written last `StandsFor` c, so
  a file is as in c unless c has it as at the branch point; and when the list
  marks nothing, a file is as in c or as upstream has it (`FollowsList`). The
  next commit is then a child of c (`NextIsChild`), a replay preserves all this
  (`StandsStep`), and at the end c is HEAD (`RebaseEnds`).

**The other parts.**

* `StashTypeCorrect`, `StashIsSafe`, `ArchiveIsHarmless`: any number of sessions.
  The invariant is that stash entries are whole (`WholeEntry`: an untracked file
  of an entry is neither in its base nor among its tracked files), so that what
  save takes away is what pop can write, and a pop checks every file it would
  overwrite.
* `RemoteTypeCorrect`, `ServerWorkStays`, `LocalWorkStays`, `PullKeepsUpstream`,
  `TrackingIsTruthful`, `UpstreamsMatch`: `RemoteInv` is about each user's clone
  and frame alone (`UserOK`, `InCall`). What a call has found in the clone stays
  true, because only the user's own calls change it: an unforced push waiting to
  be sent holds an advertisement contained in the local branch, and a pull about
  to integrate holds what its tracking branch still has. What it has found on the
  server may be stale, and the server's comparison catches that. One theorem,
  `RemoteInvariant`, carries the step lemmas of all six.
* `WorktreeTypeCorrect`, `BranchesAreExclusive`, `PruningIsCautious`: any number
  of sessions, names, paths and branches. `Exclusive` is stronger than the
  property (it counts worktrees whose folder is out of reach), and a step either
  makes no new tree (`NoNewTree`) or is the one that checked.
* `LogTypeCorrect`, `LogCorrect`, `LogFailure`, `StatCorrect`: for every history,
  limit, filter and date that fits an int. The invariant says that after commit b
  the counter of either walk is the number of included commits among the first
  b. So the count is exact or, when it stopped at `max`, one too high at most,
  and only in the latter case can the second walk run out of parents.
* `AuthTypeCorrect`, `AttemptsAreFew`, `ForgetsRefused`, `RightSecretWorks`: for
  every set of secrets and every server. The counter is at least the number of
  secrets sent, and zero only before the first (`Counted`); while the server
  keeps asking for one kind, its value tells which secrets were sent and refused
  (`SshRounds`, `PasswordRounds`). The kinds share the counter, so the last two
  theorems, like the properties, need a server that keeps to one kind.
* `SubmoduleTypeCorrect`, `AddRecordsIt`, `FetchGetsCurrent`: for every server,
  every change on it and every set of histories. What a call has read of the
  submodule stays true until its next step (`AddInv`, `FetchInv`), since one
  session works on it; what it has read of the server is in its frame.
  `FetchInv` says that after the fetch every tracking branch is where the server's
  branch was, unless that was gone, whichever of them the server's HEAD names
  later: so the last theorem holds for a default branch that changes.

Nothing here is proved by induction over data: counts of commits grow one by one
with the steps of the machine (`FS_AddElement`), ancestor sets are carried by the
commits, and the one argument about a history as a whole (`Smallest`) takes the
least commit of a set.

Only model-checked: the liveness properties `MergeConcludes` and
`CallReturns`, which need fairness and ENABLED; and the three violations.

## Plan

What is left: the hazards without a property (an empty merge that leaves
MERGE_HEAD, state files removed by another call's cleanup, the half entry of
`git_worktree_add`), each of which needs a property that holds of what the code
does do; and, for several sessions, how far the single-session theorems survive
when the other sessions only read or commit.

## Not modelled

* Branch renames (`git_branch_move`), an explicit `git_branch_set_upstream`,
  tags, `git_submodule_init`, configuration and handle cache: single libgit2
  calls, with no step of another actor between them and what they decide on.
  `UpstreamFits` is about the upstreams that clone, checkout, branch creation and
  push set.
* Detached HEADs, ignored files, file modes, line endings, commit messages,
  authors and signatures: no modelled decision depends on them.
* Shallow clones, explicit refspecs other than one branch or all of them, push
  URLs, transfer progress and pull-request refs.
* Listings that only read (`git_ls`, `git_info`, `git_diff`, `git_conflicts`,
  `git_stash_list`): with two passes over a list that another process changes
  (`src/src/stash.c:51`) a listing may be torn, and no state keeps it.
* Library set-up, versions, certificates and the documentation tooling.
