----------------------------- MODULE SelfUpgrade -----------------------------
(***************************************************************************)
(* common/agent/selfupgrade.go with progressdownload.go: SelfUpgrade       *)
(* downloads a node binary block by block into exe.new.part, renames it to *)
(* exe.new, verifies it when the frame has a checksum, renames it over the *)
(* executable and executes that.  Each frame runs in a goroutine of its    *)
(* own.  Names refer to files: a name is removed or renamed while another  *)
(* goroutine still writes the file it opened under it.                     *)
(***************************************************************************)
EXTENDS Naturals, FiniteSets

CONSTANTS
    Upgraders,      \* goroutines of upgrade frames
    Blocks,         \* reads a download takes
    MaxFiles        \* bound: files created

ASSUME BlocksAssumption == Blocks \in Nat

VARIABLES
    files,          \* the blocks written to each file
    part, new, exe,  \* the file each name refers to, 0 for none
    upgrade,        \* per goroutine: where it is, its file, the blocks it has
                    \* read, its attempt, whether its frame has a checksum and
                    \* the response a length
    unguarded       \* an upgrade had neither a checksum nor a length, or two
                    \* were under way at once, one of them without both

selfVars == <<files, part, new, exe, upgrade, unguarded>>
WholeBinary == 1..Blocks
Nobody == [at |-> "idle", fd |-> 0, n |-> 0, try |-> 1, sha |-> TRUE,
           sized |-> TRUE]

\* The state's shape.
SelfTypeOK ==
    /\ Cardinality(DOMAIN files) <= MaxFiles
    /\ \A f \in DOMAIN files : files[f] \subseteq WholeBinary
    /\ {part, new} \subseteq DOMAIN files \cup {0} /\ exe \in DOMAIN files
    /\ upgrade \in [Upgraders ->
                 [at : {"idle", "open", "read", "rename", "verify", "chmod",
                        "swap", "exec"},
                  fd : 0..MaxFiles, n : 0..Blocks, try : 1..2, sha : BOOLEAN,
                  sized : BOOLEAN]]
    /\ unguarded \in BOOLEAN

SelfInit ==
    /\ files = [f \in {1} |-> WholeBinary]
    /\ part = 0 /\ new = 0 /\ exe = 1
    /\ upgrade = [u \in Upgraders |-> Nobody]
    /\ unguarded = FALSE

At(u, l) == upgrade[u].at = l
SelfGoto(u, l) == upgrade' = [upgrade EXCEPT ![u].at = l]
Running == {u \in Upgraders : ~At(u, "idle")}

\* A frame, acknowledged before its goroutine starts.
UpgradeFrame(u, sha) ==
    /\ At(u, "idle")
    /\ upgrade' = [upgrade EXCEPT ![u] = [Nobody EXCEPT !.at = "open", !.sha = sha]]
    /\ unguarded' = (unguarded \/ \E v \in Running : ~(sha /\ upgrade[v].sha /\ upgrade[v].sized))
    /\ UNCHANGED <<files, part, new, exe>>

\* The upgrade ends with an error.
Fail(u) == upgrade' = [upgrade EXCEPT ![u] = Nobody]

\* A failed attempt is repeated once; then exe.new is removed.
AttemptFails(u) ==
    \/ /\ upgrade[u].try = 1
       /\ upgrade' = [upgrade EXCEPT ![u].at = "open", ![u].try = 2]
       /\ UNCHANGED new
    \/ /\ upgrade[u].try = 2
       /\ Fail(u) /\ new' = 0

\* exe.new.part is created, or truncated when it is there; the response may
\* have no length.  A request that is refused does not come this far.
Open(u, sized) ==
    /\ At(u, "open")
    /\ \/ LET f == IF part # 0 THEN part ELSE Cardinality(DOMAIN files) + 1
          IN  /\ f <= MaxFiles
              /\ files' = [g \in DOMAIN files \cup {f} |->
                             IF g = f THEN {} ELSE files[g]]
              /\ part' = f
              /\ upgrade' = [upgrade EXCEPT ![u].at = "read", ![u].fd = f, ![u].n = 0,
                                   ![u].sized = sized]
              /\ unguarded' = (unguarded \/ ~(sized \/ (upgrade[u].sha /\ Running = {u})))
              /\ UNCHANGED new
       \/ AttemptFails(u) /\ UNCHANGED <<files, part, unguarded>>
    /\ UNCHANGED exe

Read(u) ==
    /\ At(u, "read") /\ upgrade[u].n < Blocks
    /\ upgrade' = [upgrade EXCEPT ![u].n = @ + 1]
    /\ files' = [files EXCEPT ![upgrade[u].fd] = @ \cup {upgrade[u].n + 1}]
    /\ UNCHANGED <<part, new, exe, unguarded>>

\* The stream ends: the blocks read are compared with the length, when there is
\* one; a short one, or a broken one, removes exe.new.part.
ReadEnds(u) ==
    /\ At(u, "read")
    /\ \/ /\ upgrade[u].sized => upgrade[u].n = Blocks
          /\ SelfGoto(u, "rename") /\ UNCHANGED <<part, new>>
       \/ AttemptFails(u) /\ part' = 0
    /\ UNCHANGED <<files, exe, unguarded>>

RenamePart(u) ==
    /\ At(u, "rename")
    /\ \/ part # 0 /\ new' = part /\ part' = 0 /\ SelfGoto(u, "verify")
       \/ AttemptFails(u) /\ part' = 0
    /\ UNCHANGED <<files, exe, unguarded>>

\* Mutant: the checksum of the bytes read, not of the file.
verifySHA256_ofStream(u) ==
    /\ At(u, "verify")
    /\ SelfGoto(u, "chmod")
    /\ UNCHANGED <<files, part, new, exe, unguarded>>

\* The file is read back and its checksum compared.
verifySHA256(u) ==
    /\ At(u, "verify")
    /\ \/ /\ upgrade[u].sha => new # 0 /\ files[new] = WholeBinary
          /\ SelfGoto(u, "chmod") /\ UNCHANGED new
       \/ /\ upgrade[u].sha /\ (new # 0 => files[new] # WholeBinary)
          /\ Fail(u) /\ new' = 0
    /\ UNCHANGED <<files, part, exe, unguarded>>

Chmod(u) ==
    /\ At(u, "chmod")
    /\ \/ new # 0 /\ SelfGoto(u, "swap") /\ UNCHANGED new
       \/ Fail(u) /\ new' = 0
    /\ UNCHANGED <<files, part, exe, unguarded>>

swapBinary(u) ==
    /\ At(u, "swap")
    /\ \/ new # 0 /\ exe' = new /\ new' = 0 /\ SelfGoto(u, "exec")
       \/ Fail(u) /\ UNCHANGED <<new, exe>>
    /\ UNCHANGED <<files, part, unguarded>>

\* The process image is replaced, and every goroutine with it; an executable
\* that cannot be executed is an error.
restartSelf(u) ==
    /\ At(u, "exec")
    /\ upgrade' = [v \in Upgraders |-> Nobody] \/ Fail(u)
    /\ UNCHANGED <<files, part, new, exe, unguarded>>

\* The process ends and is started again.
SelfRestart ==
    /\ Running # {}
    /\ upgrade' = [v \in Upgraders |-> Nobody]
    /\ UNCHANGED <<files, part, new, exe, unguarded>>

SelfNext ==
    \/ \E u \in Upgraders :
         \/ \E sha \in BOOLEAN : UpgradeFrame(u, sha)
         \/ (\E sized \in BOOLEAN : Open(u, sized)) \/ Read(u) \/ ReadEnds(u) \/ RenamePart(u)
         \/ verifySHA256(u) \/ Chmod(u) \/ swapBinary(u) \/ restartSelf(u)
    \/ SelfRestart

SelfSpec == SelfInit /\ [][SelfNext]_selfVars

-----------------------------------------------------------------------------
\* The executable is whole after every step, so that the node can be started
\* again, whatever part of an upgrade failed (selfupgrade.go:44-46), and also
\* when a repeated frame starts a second upgrade beside the first, provided both
\* have a checksum and a length; a single one needs one of the two.  (Three at
\* once can put a file in place that none has checked.)
BinaryIsWhole == ~unguarded => files[exe] = WholeBinary
=============================================================================
