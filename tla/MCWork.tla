------------------------------- MODULE MCWork -------------------------------
(***************************************************************************)
(* What a node runs and keeps on disk, for TLC, safety only: the session   *)
(* runtime (SessionRuntime), the provisioning of workspaces                *)
(* (Provisioning), the resource cache (ResourceCache), file uploads        *)
(* (FileUpload), runtime and tool installs (StagedInstall), the upgrade of *)
(* the node itself (SelfUpgrade) and launched execution nodes (Launch).    *)
(* Each works on files and tables of its own, so a behaviour is one of     *)
(* exactly one of them, chosen at the start.  Of the uploads only the one  *)
(* of two chunks varies its requests; the widest window allows what the    *)
(* narrow one does.  No run clings: that keeps things from happening and   *)
(* makes nothing else happen.                                              *)
(***************************************************************************)
EXTENDS SessionRuntime, Provisioning, ResourceCache, FileUpload, StagedInstall, SelfUpgrade,
        Launch, TLC

CONSTANTS u1, u2, u3, n1, n2
MCNumChunks == u1 :> 2 @@ u2 :> 1 @@ u3 :> 1

VARIABLE component  \* the component this behaviour is of

runVars == <<svars, provVars, launchVars>>
diskVars == <<cacheVars, uploadVars, installVars, selfVars>>
allVars == <<component, runVars, diskVars>>

AllInit ==
    /\ component \in {"session", "provision", "cache", "upload", "install", "self", "launch"}
    /\ Init /\ ProvInit /\ LaunchInit
    /\ CacheInit /\ UploadInit /\ InstallInit /\ SelfInit
    /\ component # "provision" => mode = "clone"
    /\ \A u \in Uploads \ (IF component = "upload" THEN {u1} ELSE {}) :
          overwrite[u] /\ check[u] = "size"
    /\ tempName[u1] = n1 /\ (tempName[u3] = n1 => tempName[u2] = n1)
    /\ component # "upload" => tempName = [u \in Uploads |-> n1]
    /\ window = Longest
    /\ component # "session" => autoStart

\* Only the chosen component takes steps.
AllNext ==
    /\ \/ component = "session" /\ Next /\ UNCHANGED <<clings, provVars, launchVars, diskVars>>
       \/ component = "provision" /\ ProvNext /\ UNCHANGED <<svars, launchVars, diskVars>>
       \/ component = "launch" /\ LaunchNext /\ UNCHANGED <<svars, provVars, diskVars>>
       \/ component = "cache" /\ CacheNext
          /\ UNCHANGED <<runVars, uploadVars, installVars, selfVars>>
       \/ component = "upload" /\ UploadNext
          /\ UNCHANGED <<runVars, cacheVars, installVars, selfVars>>
       \/ component = "install" /\ InstallNext
          /\ UNCHANGED <<runVars, cacheVars, uploadVars, selfVars>>
       \/ component = "self" /\ SelfNext
          /\ UNCHANGED <<runVars, cacheVars, uploadVars, installVars>>
    /\ UNCHANGED component

AllSpec == AllInit /\ [][AllNext]_allVars

-----------------------------------------------------------------------------
\* The shape of every component's state.
AllTypeOK ==
    /\ TypeOK /\ ProvTypeOK /\ LaunchTypeOK
    /\ CacheTypeOK /\ UploadTypeOK /\ InstallTypeOK /\ SelfTypeOK
=============================================================================
