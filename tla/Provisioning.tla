---------------------------- MODULE Provisioning -----------------------------
(***************************************************************************)
(* execution/session.go and worktree.go: how a session comes to have a     *)
(* working tree and its configuration on disk.  create registers the       *)
(* session and answers; a goroutine then clones the task's repository, or  *)
(* cuts a git worktree from the environment's checkout, applies the        *)
(* configuration packed into the request and marks the session             *)
(* provisioned.  Frames are dispatched one at a time, but this goroutine   *)
(* runs beside them: a session can be configured, deleted and created      *)
(* again while it works.                                                   *)
(*                                                                         *)
(* One task, whose tree all its sessions share while each has a runtime    *)
(* directory of its own, or one session of no task, which has the tree to  *)
(* itself.  "Incarnations" are the sessions created, in order; several may *)
(* have the same session id, one after the other.                          *)
(***************************************************************************)
EXTENDS Naturals, FiniteSets

CONSTANTS
    SessionIds,     \* ids the task's sessions are created under
    Modes,          \* the workspace modes, of {"own", "clone", "worktree"}
    Kinds,          \* kinds of configuration: MCP servers, skills, LLM...
    Early,          \* the server may configure a session being provisioned
    MaxCreates,     \* bound: sessions created
    MaxRev          \* bound: configuration revisions sent

ASSUME IdsAssumption == SessionIds # {}

VARIABLES
    mode,           \* the workspace mode: "own" for a clone of no task
    sessions,       \* the map: the incarnation under each id, 0 if none
    sessionID,      \* the id of each incarnation
    provPc,         \* where each incarnation's provisioning goroutine is
    cancelled,      \* incarnations whose context is cancelled
    ended,          \* incarnations deleted, or whose provisioning failed
    provDisp,       \* where the dispatch loop is in a delete
    victim,         \* the incarnation it deletes, 0 if none
    repo,           \* the environment's shared checkout
    tree,           \* the task's working tree
    reg,            \* git knows a worktree at the tree's path
    torn,           \* a removal or a worktree add was cut between its steps
    disk,           \* the runtime directory of each id: the revision of each kind there
    acked,          \* the revision of each kind acknowledged last, for each id
    applied         \* appliedRevision, for each id

sessVars == <<sessions, sessionID, provPc, cancelled, ended>>
delVars == <<provDisp, victim>>
treeVars == <<repo, tree, reg, torn>>
confVars == <<disk, acked, applied>>
provVars == <<mode, sessVars, delVars, treeVars, confVars>>

Ids == 1..MaxCreates
None == MaxRev + 1      \* no file of that kind
Initial == 0            \* the revision of what create carried
NoFiles == [k \in Kinds |-> None]

\* The state's shape.
ProvTypeOK ==
    /\ mode \in Modes
    /\ sessions \in [SessionIds -> 0..MaxCreates]
    /\ sessionID \in [Ids -> SessionIds]
    /\ provPc \in [Ids -> {"none", "checkout", "config", "flip", "done"}]
    /\ cancelled \subseteq Ids
    /\ ended \subseteq Ids
    /\ provDisp \in {"idle", "runtime", "tree", "prune"}
    /\ victim \in 0..MaxCreates
    /\ repo \in {"absent", "partial", "whole"}
    /\ tree \in {"absent", "partial", "whole", "dirty"}
    /\ reg \in BOOLEAN /\ torn \in BOOLEAN
    /\ disk \in [SessionIds -> [Kinds -> 0..None]]
    /\ acked \in [SessionIds -> [Kinds -> 0..None]]
    /\ applied \in [SessionIds -> 0..MaxRev]

ProvInit ==
    /\ mode \in Modes
    /\ sessions = [s \in SessionIds |-> 0]
    /\ sessionID = [i \in Ids |-> CHOOSE s \in SessionIds : TRUE]
    /\ provPc = [i \in Ids |-> "none"]
    /\ cancelled = {} /\ ended = {}
    /\ provDisp = "idle" /\ victim = 0
    /\ repo = "absent" /\ tree = "absent" /\ reg = FALSE /\ torn = FALSE
    /\ disk = [s \in SessionIds |-> NoFiles]
    /\ acked = [s \in SessionIds |-> NoFiles]
    /\ applied = [s \in SessionIds |-> 0]

Idle == provDisp = "idle"
Created(i) == provPc[i] # "none"

\* Incarnation i is the next one, under id s; a session of no task shares its
\* tree with none of another id.
NextUnder(i, s) ==
    /\ ~Created(i) /\ \A j \in 1..(i - 1) : Created(j)
    /\ mode = "own" => \A j \in Ids : Created(j) => sessionID[j] = s

\* The session is registered and its provisioning launched.
Register(i, s) ==
    /\ sessions' = [sessions EXCEPT ![s] = i]
    /\ sessionID' = [sessionID EXCEPT ![i] = s]
    /\ provPc' = [provPc EXCEPT ![i] = "checkout"]
    /\ acked' = [acked EXCEPT ![s] = NoFiles]
    /\ applied' = [applied EXCEPT ![s] = 0]
    /\ UNCHANGED <<mode, cancelled, ended, delVars, treeVars, disk>>

\* Mutant: frames are handled beside a delete.
create_besideDelete(i, s) == sessions[s] = 0 /\ NextUnder(i, s) /\ Register(i, s)

\* create: refused while the id is in the map.
create(i, s) == Idle /\ sessions[s] = 0 /\ NextUnder(i, s) /\ Register(i, s)

\* A directory with any entry, runtime directories aside, counts as a checkout.
HostWorkspaceInitialized(dir) == dir # "absent"

\* runNodeGit of a clone, with the fetch and the checkout of the commit and the
\* new branch after it: a clone that fails removes what it made, one that is
\* killed does not, and a later command that fails leaves the clone.
GitClone(i) ==
    \/ tree' = "whole" /\ provPc' = [provPc EXCEPT ![i] = "config"]
    \/ tree' = "absent" /\ provPc' = [provPc EXCEPT ![i] = "done"]
    \/ tree' = "partial" /\ provPc' = [provPc EXCEPT ![i] = "done"]

\* ResetStaleWorkspace: the directory goes, with every runtime directory in it;
\* a removal that fails half-way ends the provisioning.
ResetStaleWorkspace(i) ==
    \/ disk' = [s \in SessionIds |-> NoFiles] /\ GitClone(i)
    \/ /\ \E K \in SUBSET (SessionIds \X Kinds) :
             disk' = [s \in SessionIds |->
                        [k \in Kinds |-> IF <<s, k>> \in K THEN None ELSE disk[s][k]]]
       /\ tree' = tree /\ provPc' = [provPc EXCEPT ![i] = "done"]

\* provisionGit, under workspaceMu: an existing checkout is kept.
provisionGit(i) ==
    /\ IF HostWorkspaceInitialized(tree)
       THEN UNCHANGED <<tree, disk>> /\ provPc' = [provPc EXCEPT ![i] = "config"]
       ELSE ResetStaleWorkspace(i)
    /\ UNCHANGED <<repo, reg, torn>>

\* A killed git worktree add: git records the worktree first, so that it knows
\* a part of a tree, or one that is not there at all.
WorktreeCut ==
    /\ reg' = TRUE
    /\ \/ tree' = "partial" /\ UNCHANGED torn
       \/ torn' = TRUE /\ UNCHANGED tree

\* git worktree add, with a new branch or with the one that is there: refused
\* at a path git has registered, killed with the session's context.
WorktreeAdd(i) ==
    \/ /\ ~reg
       /\ tree' = "whole" /\ reg' = TRUE /\ UNCHANGED torn
       /\ provPc' = [provPc EXCEPT ![i] = "config"]
    \/ /\ ~reg /\ i \in cancelled
       /\ WorktreeCut
       /\ provPc' = [provPc EXCEPT ![i] = "done"]
    \/ /\ UNCHANGED <<tree, reg, torn>>
       /\ provPc' = [provPc EXCEPT ![i] = "done"]

\* Mutant: the worktree is cut anew for every session.
prepareWorktree_cutsAnew(i) ==
    /\ IF HostWorkspaceInitialized(repo)
       THEN /\ tree' = "whole" /\ reg' = TRUE
            /\ provPc' = [provPc EXCEPT ![i] = "config"]
       ELSE UNCHANGED <<tree, reg>> /\ provPc' = [provPc EXCEPT ![i] = "done"]
    /\ UNCHANGED <<repo, torn, disk>>

\* prepareWorktree, under workspaceMu: the shared checkout must be there, and
\* an existing worktree is reused.
prepareWorktree(i) ==
    /\ IF ~HostWorkspaceInitialized(repo)
       THEN UNCHANGED <<tree, reg, torn>> /\ provPc' = [provPc EXCEPT ![i] = "done"]
       ELSE IF HostWorkspaceInitialized(tree)
       THEN UNCHANGED <<tree, reg, torn>> /\ provPc' = [provPc EXCEPT ![i] = "config"]
       ELSE WorktreeAdd(i)
    /\ UNCHANGED <<repo, disk>>

\* removeFailedSession: the id leaves the map, whichever session is under it.
removeFailed(i) ==
    IF provPc'[i] = "done" THEN [sessions EXCEPT ![sessionID[i]] = 0] ELSE sessions

Checkout(i) ==
    /\ provPc[i] = "checkout"
    /\ IF mode = "worktree" THEN prepareWorktree(i) ELSE provisionGit(i)
    /\ sessions' = removeFailed(i)
    /\ ended' = IF provPc'[i] = "done" THEN ended \cup {i} ELSE ended
    /\ UNCHANGED <<mode, sessionID, cancelled, delVars, acked, applied>>

\* applyInitialConfig: the MCP set always, the others when the request has
\* some; best effort, and without the session's lock.
applyInitialConfig(i) ==
    /\ provPc[i] = "config"
    /\ \E K \in SUBSET Kinds :
         disk' = [disk EXCEPT ![sessionID[i]] = [k \in Kinds |-> IF k \in K THEN Initial ELSE @[k]]]
    /\ provPc' = [provPc EXCEPT ![i] = "flip"]
    /\ UNCHANGED <<mode, sessions, sessionID, cancelled, ended, delVars, treeVars, acked,
                   applied>>

\* provisioning -> provisioned
Flip(i) ==
    /\ provPc[i] = "flip"
    /\ provPc' = [provPc EXCEPT ![i] = "done"]
    /\ UNCHANGED <<mode, sessions, sessionID, cancelled, ended, delVars, treeVars, confVars>>

Provision(i) == Checkout(i) \/ applyInitialConfig(i) \/ Flip(i)

Provisioned(i) == provPc[i] = "done" /\ i \notin ended

\* Session id s is in the map, with a session that is ready.
Ready(s) == sessions[s] # 0 /\ Provisioned(sessions[s])

\* configureLLM, applyMCPs, applySkills, applyPlugins: under the session's
\* lock the file is rewritten and the revision recorded; a failed write is
\* answered with an error.
Configure(s, k) ==
    /\ Idle /\ sessions[s] # 0 /\ applied[s] < MaxRev
    /\ Early \/ Ready(s)
    /\ disk' = [disk EXCEPT ![s][k] = applied[s] + 1]
    /\ acked' = [acked EXCEPT ![s][k] = applied[s] + 1]
    /\ applied' = [applied EXCEPT ![s] = @ + 1]
    /\ UNCHANGED <<mode, sessVars, delVars, treeVars>>

\* An editor leaves uncommitted work in the tree.
EditorWrites ==
    /\ \E s \in SessionIds : Ready(s)
    /\ tree = "whole"
    /\ tree' = "dirty"
    /\ UNCHANGED <<mode, sessVars, delVars, repo, reg, torn, confVars>>

\* delete: out of the map and cancelled, then the runtime directory, then -
\* for a worktree - the tree and git's record of it, whoever else of the task
\* is in it.  A clone belongs to the task and stays.
delete(s) ==
    /\ Idle /\ sessions[s] # 0
    /\ provDisp' = "runtime" /\ victim' = sessions[s]
    /\ sessions' = [sessions EXCEPT ![s] = 0]
    /\ cancelled' = cancelled \cup {sessions[s]}
    /\ ended' = ended \cup {sessions[s]}
    /\ UNCHANGED <<mode, sessionID, provPc, treeVars, confVars>>

\* The delete goes on with step d, or is over.
DeleteGoesTo(d) == provDisp' = d /\ victim' = IF d = "idle" THEN 0 ELSE victim

\* What a removal of a directory that fails half-way can leave of a tree.
Half(t) == {t, IF t = "absent" THEN "absent" ELSE "partial"}

\* The runtime directory, and for a session of no task its whole working
\* directory.  An error here ends the delete; a worktree stays as it is.
RemoveRuntimeDir ==
    LET s == sessionID[victim] IN
    /\ provDisp = "runtime"
    /\ \/ /\ disk' = [disk EXCEPT ![s] = NoFiles]
          /\ tree' = IF mode = "own" THEN "absent" ELSE tree
          /\ DeleteGoesTo(IF mode = "worktree" THEN "tree" ELSE "idle")
       \/ /\ \E K \in SUBSET Kinds :
                disk' = [disk EXCEPT ![s] = [k \in Kinds |-> IF k \in K THEN None ELSE @[k]]]
          /\ tree' \in IF mode = "own" THEN Half(tree) ELSE {tree}
          /\ DeleteGoesTo("idle")
    /\ UNCHANGED <<mode, sessVars, repo, reg, torn, acked, applied>>

\* A removal that fails half-way is only logged.
RemoveTree ==
    /\ provDisp = "tree"
    /\ tree' \in {"absent"} \cup Half(tree)
    /\ DeleteGoesTo("prune")
    /\ UNCHANGED <<mode, sessVars, repo, reg, torn, confVars>>

\* Mutant: git is not told.
Prune_skipped ==
    /\ provDisp = "prune"
    /\ DeleteGoesTo("idle")
    /\ UNCHANGED <<mode, sessVars, treeVars, confVars>>

\* git worktree prune forgets what is no longer on disk; an error is logged.
Prune ==
    /\ provDisp = "prune"
    /\ \/ reg' = (reg /\ tree # "absent") /\ UNCHANGED torn
       \/ torn' = TRUE /\ UNCHANGED reg
    /\ DeleteGoesTo("idle")
    /\ UNCHANGED <<mode, sessVars, repo, tree, confVars>>

\* manageEnvironment, CREATE: ensureEnvRepo clones once, and keeps what is
\* there.  A failed checkout of the commit is ignored.
ensureEnvRepo ==
    /\ mode = "worktree" /\ ~HostWorkspaceInitialized(repo)
    /\ repo' \in {"whole", "partial"}
    /\ UNCHANGED <<mode, sessVars, delVars, tree, reg, torn, confVars>>

\* manageEnvironment, REMOVE: the whole directory, in a goroutine of its own,
\* whoever uses it: the worktrees and the runtime directories are in it.  A
\* removal that fails half-way may have taken any of them.
RemoveEnv ==
    /\ mode = "worktree" /\ repo # "absent"
    /\ \/ /\ repo' = "absent" /\ tree' = "absent" /\ reg' = FALSE /\ torn' = torn
          /\ disk' = [s \in SessionIds |-> NoFiles]
       \/ /\ repo' \in {"absent"} \cup Half(repo) /\ tree' \in {"absent"} \cup Half(tree)
          /\ reg' \in {reg, FALSE} /\ torn' = TRUE
          /\ \E S \in SUBSET SessionIds :
                disk' = [s \in SessionIds |-> IF s \in S THEN NoFiles ELSE disk[s]]
    /\ UNCHANGED <<mode, sessVars, delVars, acked, applied>>

\* The process ends and starts again: the map is empty, the files stay, and a
\* clone or worktree add under way stops where it is.
ProvRestart ==
    /\ sessions' = [s \in SessionIds |-> 0]
    /\ provPc' = [i \in Ids |-> IF Created(i) THEN "done" ELSE "none"]
    /\ ended' = {i \in Ids : Created(i)}
    /\ cancelled' = {}
    /\ provDisp' = "idle" /\ victim' = 0
    /\ \/ torn' = (torn \/ ~Idle) /\ UNCHANGED <<tree, reg>>
       \/ /\ tree = "absent" /\ ~reg
          /\ \E i \in Ids : provPc[i] = "checkout"
          /\ \/ /\ mode = "worktree" /\ HostWorkspaceInitialized(repo)
                /\ WorktreeCut
             \/ /\ mode # "worktree"
                /\ tree' = "partial" /\ UNCHANGED <<reg, torn>>
    /\ UNCHANGED <<mode, sessionID, repo, confVars>>

ProvNext ==
    \/ \E i \in Ids : Provision(i) \/ \E s \in SessionIds : create(i, s)
    \/ \E s \in SessionIds : delete(s) \/ \E k \in Kinds : Configure(s, k)
    \/ EditorWrites
    \/ RemoveRuntimeDir \/ RemoveTree \/ Prune
    \/ ensureEnvRepo \/ RemoveEnv
    \/ ProvRestart

\* Goroutines run, and a delete under way goes on.
ProvFairness ==
    /\ \A i \in Ids : WF_provVars(Provision(i))
    /\ WF_provVars(RemoveRuntimeDir \/ RemoveTree \/ Prune)

ProvSpec == ProvInit /\ [][ProvNext]_provVars /\ ProvFairness

-----------------------------------------------------------------------------
\* Uncommitted work is lost only to a removal somebody asked for, that of an
\* environment, of a session of no task, or of any session of a worktree's
\* task: a re-dispatch, or a restart that lost the map, lands back in the same
\* tree (prepareWorktree, lines 204-206), and no clone or worktree is cut over it.
WorkKept ==
    [][tree = "dirty" /\ tree' # "dirty" =>
          RemoveEnv \/ RemoveTree \/ (mode = "own" /\ RemoveRuntimeDir)]_provVars

\* The tree of a session that is ready disappears only with its environment or
\* to the delete of another session of its task, which does not ask who else is
\* in it (session.go:1777-1778): a delete of the same id has removed all it will
\* before the next create is dispatched, and no provisioning left over from a
\* deleted session removes anything.
LiveKeepsTree ==
    [][\A s \in SessionIds : Ready(s) /\ tree # "absent" /\ tree' = "absent" =>
          RemoveEnv \/ (RemoveTree /\ sessionID[victim] # s)]_provVars

\* Git never keeps a record of a worktree that is gone, which would make every
\* later worktree add at that path fail (removeWorktree, lines 300-301) -
\* unless a removal or a worktree add was cut in the middle, or the prune failed.
NoStaleRegistration == Idle /\ tree = "absent" /\ reg => torn

\* session.go:1271-1273: "A missing dir, or one holding only scratch/partial
\* content from a failed prior provision, is (re)created clean": a provisioned
\* session never works in a partial checkout.
ProvisionedIsWhole == \A s \in SessionIds : Ready(s) => tree # "partial"

\* A session leaves the map only when it is deleted, its own provisioning
\* fails or the process restarts (removeFailedSession, line 560).
SessionKept ==
    [][\A s \in SessionIds :
          sessions[s] # 0 /\ sessions'[s] # sessions[s] => sessions[s] \in ended']_provVars

\* session.go:822-823: "the on-disk revision is always immediately effective":
\* what the node acknowledged last of each kind is what the next turn reads.
OnDiskIsEffective ==
    \A s \in SessionIds : Ready(s) => \A k \in Kinds : acked[s][k] \in {None, disk[s][k]}
=============================================================================
