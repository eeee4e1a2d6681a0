-------------------------- MODULE SelfUpgradeProofs --------------------------
(***************************************************************************)
(* Proof that an upgrade of the node replaces its executable by a whole    *)
(* one (SelfUpgrade), for binaries of any size and two upgrades at a time. *)
(***************************************************************************)
EXTENDS SelfUpgrade, FiniteSetTheorems, TLAPS

\* The upgrades under way, typed.
Places == {"idle", "open", "read", "rename", "verify", "chmod", "swap", "exec"}
Upgrade == [at : Places, fd : Nat, n : Nat, try : Nat, sha : BOOLEAN, sized : BOOLEAN]
UpType == upgrade \in [Upgraders -> Upgrade]

Writing(u) == upgrade[u].at \in {"read", "rename"}

\* The names refer to different files, and files are numbered without gaps.
Names ==
    /\ \E k \in Nat : DOMAIN files = 1..k
    /\ files = [f \in DOMAIN files |-> files[f]]
    /\ \A f \in DOMAIN files : files[f] \subseteq WholeBinary
    /\ exe \in DOMAIN files
    /\ new # 0 => new \in DOMAIN files /\ new # exe
    /\ part # 0 => part \in DOMAIN files /\ part # exe /\ part # new
    /\ \A u \in Upgraders : Writing(u) => upgrade[u].fd \in DOMAIN files

Guarded ==
    /\ \A u \in Upgraders : upgrade[u].at \notin {"idle", "open", "exec"} => upgrade[u].sha \/ upgrade[u].sized
    /\ \A u, v \in Upgraders : u # v /\ upgrade[u].at # "idle" /\ upgrade[v].at # "idle" =>
                                  upgrade[u].sha /\ upgrade[u].sized

LengthRead ==
    \A u \in Upgraders : upgrade[u].at = "rename" /\ upgrade[u].sized => upgrade[u].n = Blocks

OwnFile ==
    \A u \in Upgraders :
       Writing(u) /\ part # 0 /\ (\A v \in Upgraders : v # u => ~Writing(v)) =>
          part = upgrade[u].fd /\ 1..upgrade[u].n \subseteq files[part]

Checked ==
    \A u \in Upgraders :
       upgrade[u].at \in {"chmod", "swap"} \/ (upgrade[u].at = "verify" /\ ~upgrade[u].sha) =>
          (new # 0 => files[new] = WholeBinary)

SelfInv ==
    /\ UpType /\ Names /\ LengthRead /\ OwnFile
    /\ unguarded \in BOOLEAN
    /\ ~unguarded => Guarded /\ Checked /\ files[exe] = WholeBinary

\* The table after an upgrade moved on.
LEMMA GotoUp ==
    ASSUME UpType, NEW u \in Upgraders, NEW l \in Places, SelfGoto(u, l)
    PROVE  /\ UpType'
           /\ upgrade'[u].at = l /\ upgrade'[u].fd = upgrade[u].fd /\ upgrade'[u].n = upgrade[u].n
           /\ upgrade'[u].sha = upgrade[u].sha /\ upgrade'[u].sized = upgrade[u].sized
           /\ \A w \in Upgraders : w # u => upgrade'[w] = upgrade[w]
BY DEF UpType, Upgrade, SelfGoto

\* The table after an upgrade ended.
LEMMA FailUp ==
    ASSUME UpType, NEW u \in Upgraders, Fail(u)
    PROVE  /\ UpType'
           /\ upgrade'[u].at = "idle"
           /\ \A w \in Upgraders : w # u => upgrade'[w] = upgrade[w]
<1>1. upgrade' = [upgrade EXCEPT ![u] = Nobody]
  BY DEF Fail
<1>2. Nobody \in Upgrade
  BY DEF Nobody, Places, Upgrade
<1>3. Nobody.at = "idle"
  BY DEF Nobody
<1>4. QED
  BY <1>1, <1>2, <1>3 DEF UpType

\* The table after an attempt failed.
LEMMA AttemptUp ==
    ASSUME UpType, NEW u \in Upgraders, AttemptFails(u)
    PROVE  /\ UpType'
           /\ upgrade'[u].at \in {"idle", "open"} /\ new' \in {0, new}
           /\ upgrade'[u].at # "idle" => upgrade'[u].sha = upgrade[u].sha /\ upgrade'[u].sized = upgrade[u].sized
           /\ \A w \in Upgraders : w # u => upgrade'[w] = upgrade[w]
<1>1. CASE upgrade' = [upgrade EXCEPT ![u].at = "open", ![u].try = 2] /\ new' = new
  <2> DEFINE r == [[upgrade[u] EXCEPT !.at = "open"] EXCEPT !.try = 2]
  <2>1. upgrade' = [upgrade EXCEPT ![u] = r]
    BY Zenon, <1>1 DEF UpType, Upgrade
  <2>2. /\ r \in Upgrade
        /\ r.at = "open" /\ r.sha = upgrade[u].sha /\ r.sized = upgrade[u].sized
    BY Zenon DEF UpType, Upgrade, Places
  <2> HIDE DEF r
  <2>3. QED
    BY Zenon, <1>1, <2>1, <2>2 DEF UpType
<1>2. CASE Fail(u) /\ new' = 0
  BY <1>2, FailUp
<1>3. QED
  BY <1>1, <1>2 DEF AttemptFails

\* A step of u that leaves files, executable and guard alone.
Move(u) ==
    /\ UpType' /\ (\A w \in Upgraders : w # u => upgrade'[w] = upgrade[w])
    /\ UNCHANGED <<files, exe, unguarded>>
    /\ new' \in {0, new} /\ part' \in {0, part}
    /\ upgrade[u].at # "idle"
    /\ upgrade'[u].at # "idle" => upgrade'[u].sha = upgrade[u].sha /\ upgrade'[u].sized = upgrade[u].sized
    /\ upgrade'[u].at \notin {"idle", "open", "exec"} => upgrade[u].at \notin {"idle", "open", "exec"}
    /\ Writing(u)' => Writing(u) /\ upgrade'[u].fd = upgrade[u].fd /\ upgrade'[u].n = upgrade[u].n
    /\ Writing(u) /\ ~Writing(u)' => part' = 0
    /\ upgrade'[u].at = "rename" /\ upgrade'[u].sized => upgrade'[u].n = Blocks
    /\ ~unguarded /\ new' # 0 /\
         (upgrade'[u].at \in {"chmod", "swap"} \/ (upgrade'[u].at = "verify" /\ ~upgrade'[u].sha)) =>
         files[new'] = WholeBinary

\* Such a step preserves the invariant.
LEMMA MoveKeeps ==
    ASSUME SelfInv, NEW u \in Upgraders, Move(u)
    PROVE  SelfInv'
<1>1. /\ UpType' /\ (\A w \in Upgraders : w # u => upgrade'[w] = upgrade[w])
      /\ UNCHANGED <<files, exe, unguarded>>
      /\ new' \in {0, new} /\ part' \in {0, part}
      /\ upgrade[u].at # "idle"
      /\ upgrade'[u].at # "idle" => upgrade'[u].sha = upgrade[u].sha /\ upgrade'[u].sized = upgrade[u].sized
  BY DEF Move
<1>2. Names'
  <2>1. \A w \in Upgraders : Writing(w)' => upgrade'[w].fd \in DOMAIN files
    BY <1>1 DEF Move, Writing, SelfInv, Names
  <2>2. QED
    BY <1>1, <2>1 DEF SelfInv, Names, WholeBinary
<1>3. LengthRead'
  BY <1>1 DEF Move, SelfInv, LengthRead
<1>4. OwnFile'
  <2> SUFFICES ASSUME NEW w \in Upgraders, Writing(w)', part' # 0,
                      \A v \in Upgraders : v # w => ~Writing(v)'
               PROVE  part' = upgrade'[w].fd /\ 1..upgrade'[w].n \subseteq files'[part']
    BY DEF OwnFile
  <2>1. part' = part
    BY <1>1
  <2>2. Writing(w) /\ upgrade'[w].fd = upgrade[w].fd /\ upgrade'[w].n = upgrade[w].n
    BY <1>1 DEF Move, Writing
  <2>3. \A v \in Upgraders : v # w => ~Writing(v)
    <3> SUFFICES ASSUME NEW v \in Upgraders, v # w, Writing(v) PROVE FALSE
      OBVIOUS
    <3>1. CASE v = u
      BY <3>1 DEF Move
    <3>2. CASE v # u
      BY <3>2, <1>1 DEF Writing
    <3>3. QED
      BY <3>1, <3>2
  <2>4. QED
    BY <1>1, <2>1, <2>2, <2>3 DEF SelfInv, OwnFile
<1>5. ASSUME ~unguarded' PROVE Guarded'
  <2>1. Guarded
    BY <1>1, <1>5 DEF SelfInv
  <2>2. \A w \in Upgraders : upgrade'[w].at # "idle" =>
           upgrade[w].at # "idle" /\ upgrade'[w].sha = upgrade[w].sha /\ upgrade'[w].sized = upgrade[w].sized
    BY <1>1
  <2>3. \A w \in Upgraders : upgrade'[w].at \notin {"idle", "open", "exec"} =>
           upgrade[w].at \notin {"idle", "open", "exec"}
    BY <1>1 DEF Move
  <2>4. QED
    BY <2>1, <2>2, <2>3 DEF Guarded
<1>6. ASSUME ~unguarded' PROVE Checked'
  <2>1. Checked
    BY <1>1, <1>6 DEF SelfInv
  <2>2. new' \in {0, new} /\ UNCHANGED files /\ WholeBinary' = WholeBinary
    BY <1>1 DEF Move, WholeBinary
  <2>3. ASSUME NEW w \in Upgraders, new' # 0,
               \/ upgrade'[w].at \in {"chmod", "swap"}
               \/ upgrade'[w].at = "verify" /\ ~upgrade'[w].sha
        PROVE  files'[new'] = WholeBinary
    <3>1. CASE w = u
      BY <1>1, <1>6, <2>2, <2>3, <3>1 DEF Move
    <3>2. CASE w # u
      <4>1. upgrade'[w] = upgrade[w]
        BY <1>1, <3>2 DEF Move
      <4>2. QED
        BY <2>1, <2>2, <2>3, <4>1 DEF Checked
    <3>3. QED
      BY <3>1, <3>2
  <2>4. QED
    BY <2>2, <2>3 DEF Checked
<1>7. ~unguarded' => files'[exe'] = WholeBinary
  BY <1>1 DEF SelfInv
<1>8. QED
  BY <1>1, <1>2, <1>3, <1>4, <1>5, <1>6, <1>7 DEF SelfInv, WholeBinary

\* A failed attempt is such a step (progressdownload.go:44-150).
LEMMA AttemptMove ==
    ASSUME SelfInv, NEW u \in Upgraders, AttemptFails(u), upgrade[u].at \in {"open", "read", "rename"},
           UNCHANGED <<files, exe, unguarded>>,
           part' = (IF upgrade[u].at = "open" THEN part ELSE 0)
    PROVE  Move(u)
<1>1. UpType
  BY DEF SelfInv
<1>2. /\ UpType'
      /\ upgrade'[u].at \in {"idle", "open"} /\ new' \in {0, new}
      /\ upgrade'[u].at # "idle" => upgrade'[u].sha = upgrade[u].sha /\ upgrade'[u].sized = upgrade[u].sized
      /\ \A w \in Upgraders : w # u => upgrade'[w] = upgrade[w]
  BY <1>1, AttemptUp
<1>3. QED
  BY <1>2 DEF Move, Writing

\* So is an upgrade that ends with an error.
LEMMA FailMove ==
    ASSUME SelfInv, NEW u \in Upgraders, Fail(u),
           upgrade[u].at \in {"verify", "chmod", "swap", "exec"},
           UNCHANGED <<files, exe, unguarded, part>>, new' \in {0, new}
    PROVE  Move(u)
<1>1. UpType
  BY DEF SelfInv
<1>2. UpType' /\ upgrade'[u].at = "idle" /\ \A w \in Upgraders : w # u => upgrade'[w] = upgrade[w]
  BY <1>1, FailUp
<1>3. QED
  BY <1>2 DEF Move, Writing

\* The process is replaced or ends: the files stay as they are.
LEMMA StoppedKeeps ==
    ASSUME SelfInv, upgrade' = [v \in Upgraders |-> Nobody],
           UNCHANGED <<files, part, new, exe, unguarded>>
    PROVE  SelfInv'
<1>1. UpType' /\ \A u \in Upgraders : upgrade'[u].at = "idle"
  <2>1. Nobody \in Upgrade /\ Nobody.at = "idle"
    BY DEF Nobody, Places, Upgrade
  <2>2. QED
    BY <2>1 DEF UpType
<1>2. Names' /\ LengthRead' /\ OwnFile'
  BY <1>1 DEF SelfInv, Names, LengthRead, OwnFile, Writing, WholeBinary
<1>3. Guarded' /\ Checked'
  BY <1>1 DEF Guarded, Checked
<1>4. QED
  BY <1>1, <1>2, <1>3 DEF SelfInv, WholeBinary

\* A frame starts an upgrade.
LEMMA FrameKeeps ==
    ASSUME SelfInv, NEW u \in Upgraders, NEW sha \in BOOLEAN, UpgradeFrame(u, sha)
    PROVE  SelfInv'
<1> DEFINE r == [Nobody EXCEPT !.at = "open", !.sha = sha]
<1>1. r \in Upgrade /\ r.at = "open" /\ r.sha = sha /\ r.sized = TRUE
  BY Zenon DEF Nobody, Places, Upgrade
<1>2. upgrade' = [upgrade EXCEPT ![u] = r]
  BY DEF UpgradeFrame
<1> HIDE DEF r
<1>3. /\ UpType' /\ upgrade'[u].at = "open" /\ upgrade'[u].sha = sha /\ upgrade'[u].sized = TRUE
      /\ \A w \in Upgraders : w # u => upgrade'[w] = upgrade[w]
  BY <1>1, <1>2 DEF SelfInv, UpType
<1>4. UNCHANGED <<files, part, new, exe>> /\ upgrade[u].at = "idle"
  BY DEF UpgradeFrame, At
<1>5. \A w \in Upgraders : Writing(w)' <=> Writing(w)
  BY <1>3, <1>4 DEF Writing
<1>6. Names' /\ LengthRead'
  BY <1>3, <1>4, <1>5 DEF SelfInv, Names, LengthRead, WholeBinary, Writing
<1>7. OwnFile'
  BY <1>3, <1>4, <1>5 DEF SelfInv, OwnFile, Writing
<1>8. unguarded' \in BOOLEAN
  BY DEF UpgradeFrame, SelfInv
<1>9. ASSUME ~unguarded' PROVE Guarded' /\ Checked' /\ files'[exe'] = WholeBinary
  <2>1. /\ ~unguarded
        /\ \A v \in Upgraders : upgrade[v].at # "idle" => sha /\ upgrade[v].sha /\ upgrade[v].sized
    BY Zenon, <1>9 DEF UpgradeFrame, Running, At, SelfInv
  <2>2. Guarded /\ Checked /\ files[exe] = WholeBinary
    BY <2>1 DEF SelfInv
  <2>3. Guarded'
    BY <1>3, <1>4, <2>1, <2>2 DEF Guarded
  <2>4. Checked'
    BY <1>3, <1>4, <2>2 DEF Checked, WholeBinary
  <2>5. QED
    BY <1>4, <2>2, <2>3, <2>4
<1>10. QED
  BY <1>3, <1>6, <1>7, <1>8, <1>9 DEF SelfInv, WholeBinary

\* A block is read and written.
LEMMA ReadKeeps ==
    ASSUME SelfInv, Blocks \in Nat, NEW u \in Upgraders, Read(u)
    PROVE  SelfInv'
<1>1. /\ upgrade[u].at = "read" /\ upgrade[u].n < Blocks /\ upgrade[u].n \in Nat
      /\ UNCHANGED <<part, new, exe, unguarded>>
      /\ upgrade' = [upgrade EXCEPT ![u].n = upgrade[u].n + 1]
      /\ files' = [files EXCEPT ![upgrade[u].fd] = @ \cup {upgrade[u].n + 1}]
  BY DEF Read, At, SelfInv, UpType, Upgrade
<1>2. /\ UpType' /\ upgrade'[u].n = upgrade[u].n + 1 /\ upgrade'[u].at = "read"
      /\ upgrade'[u].fd = upgrade[u].fd /\ upgrade'[u].sha = upgrade[u].sha /\ upgrade'[u].sized = upgrade[u].sized
      /\ \A w \in Upgraders : w # u => upgrade'[w] = upgrade[w]
  BY <1>1 DEF SelfInv, UpType, Upgrade
<1>3. \A w \in Upgraders :
         /\ upgrade'[w].at = upgrade[w].at /\ upgrade'[w].fd = upgrade[w].fd
         /\ upgrade'[w].sha = upgrade[w].sha /\ upgrade'[w].sized = upgrade[w].sized
         /\ Writing(w)' <=> Writing(w)
  BY <1>1, <1>2 DEF Writing
<1>4. /\ upgrade[u].fd \in DOMAIN files /\ DOMAIN files' = DOMAIN files
      /\ files'[upgrade[u].fd] = files[upgrade[u].fd] \cup {upgrade[u].n + 1}
      /\ \A f \in DOMAIN files : f # upgrade[u].fd => files'[f] = files[f]
  BY <1>1 DEF SelfInv, Names, Writing
<1>5. upgrade[u].n + 1 \in WholeBinary
  BY <1>1 DEF WholeBinary
<1>6. \A f \in DOMAIN files : files[f] \subseteq files'[f] /\ files'[f] \subseteq WholeBinary
  BY <1>4, <1>5 DEF SelfInv, Names
<1>7. \A f \in DOMAIN files : files[f] = WholeBinary => files'[f] = WholeBinary
  BY Zenon, <1>6
<1>8. Names'
  <2>1. files' = [f \in DOMAIN files' |-> files'[f]]
    BY Zenon, <1>1
  <2>2. QED
    BY <1>1, <1>3, <1>4, <1>6, <2>1 DEF SelfInv, Names, WholeBinary
<1>9. LengthRead'
  BY <1>1, <1>2 DEF SelfInv, LengthRead
<1>10. OwnFile'
  <2> SUFFICES ASSUME NEW w \in Upgraders, Writing(w)', part' # 0,
                      \A v \in Upgraders : v # w => ~Writing(v)'
               PROVE  part' = upgrade'[w].fd /\ 1..upgrade'[w].n \subseteq files'[part']
    BY DEF OwnFile
  <2>1. w = u
    BY <1>1, <1>3 DEF Writing
  <2>2. part = upgrade[u].fd /\ 1..upgrade[u].n \subseteq files[part]
    BY <1>1, <1>3, <2>1 DEF SelfInv, OwnFile
  <2>3. 1..(upgrade[u].n + 1) \subseteq files[part] \cup {upgrade[u].n + 1}
    BY <1>1, <2>2
  <2>4. QED
    BY <1>1, <1>2, <1>4, <2>1, <2>2, <2>3
<1>11. ASSUME ~unguarded' PROVE Guarded' /\ Checked' /\ files'[exe'] = WholeBinary
  <2>1. Guarded /\ Checked /\ files[exe] = WholeBinary
    BY <1>1, <1>11 DEF SelfInv
  <2>2. Guarded'
    BY <1>3, <2>1 DEF Guarded
  <2>3. new # 0 => new \in DOMAIN files
    BY DEF SelfInv, Names
  <2>4. Checked'
    BY Zenon, <1>1, <1>3, <1>7, <2>1, <2>3 DEF Checked, WholeBinary
  <2>5. exe \in DOMAIN files
    BY DEF SelfInv, Names
  <2>6. QED
    BY <1>1, <1>7, <2>1, <2>2, <2>4, <2>5
<1>12. QED
  BY <1>1, <1>2, <1>8, <1>9, <1>10, <1>11 DEF SelfInv, WholeBinary

\* The part file is created or truncated: the executable and the checked file
\* are others.
LEMMA OpenKeeps ==
    ASSUME SelfInv, NEW u \in Upgraders, NEW sized \in BOOLEAN, Open(u, sized)
    PROVE  SelfInv'
<1> DEFINE f == IF part # 0 THEN part ELSE Cardinality(DOMAIN files) + 1
<1>0. upgrade[u].at = "open" /\ exe' = exe
  BY DEF Open, At
<1>1. CASE AttemptFails(u) /\ UNCHANGED <<files, part, unguarded>>
  BY <1>0, <1>1, AttemptMove, MoveKeeps
<1>2. CASE /\ files' = [g \in DOMAIN files \cup {f} |-> IF g = f THEN {} ELSE files[g]]
           /\ part' = f
           /\ upgrade' = [upgrade EXCEPT ![u].at = "read", ![u].fd = f, ![u].n = 0, ![u].sized = sized]
           /\ unguarded' = (unguarded \/ ~(sized \/ (upgrade[u].sha /\ Running = {u})))
           /\ new' = new
  <2>1. PICK k \in Nat : DOMAIN files = 1..k
    BY DEF SelfInv, Names
  <2>2. Cardinality(1..k) = k
    BY FS_Interval
  <2>3. /\ f \in Nat /\ f # 0 /\ f # exe /\ f # new
        /\ \E m \in Nat : DOMAIN files \cup {f} = 1..m
    <3>1. CASE part # 0
      <4>1. DOMAIN files \cup {f} = 1..k
        BY <2>1, <3>1 DEF SelfInv, Names
      <4>2. QED
        BY <2>1, <3>1, <4>1 DEF SelfInv, Names
    <3>2. CASE part = 0
      <4>1. f = k + 1 /\ f \notin DOMAIN files
        BY <2>1, <2>2, <3>2
      <4>2. DOMAIN files \cup {f} = 1..(k + 1)
        BY <2>1, <4>1
      <4>3. exe \in DOMAIN files /\ (new # 0 => new \in DOMAIN files)
        BY DEF SelfInv, Names
      <4>4. f # exe /\ f # new
        BY <4>1, <4>3
      <4>5. k + 1 \in Nat /\ f # 0
        BY <4>1
      <4>6. QED
        BY <4>1, <4>2, <4>4, <4>5
    <3>3. QED
      BY <3>1, <3>2
  <2> HIDE DEF f
  <2> DEFINE r == [[[[upgrade[u] EXCEPT !.at = "read"] EXCEPT !.fd = f] EXCEPT !.n = 0]
                      EXCEPT !.sized = sized]
  <2>4. upgrade' = [upgrade EXCEPT ![u] = r]
    BY Zenon, <1>2 DEF SelfInv, UpType, Upgrade
  <2>5. /\ r \in Upgrade
        /\ r.at = "read" /\ r.fd = f /\ r.n = 0 /\ r.sha = upgrade[u].sha /\ r.sized = sized
    BY Zenon, <2>3 DEF SelfInv, UpType, Upgrade, Places
  <2> HIDE DEF r
  <2>6. /\ UpType' /\ upgrade'[u].at = "read" /\ upgrade'[u].fd = f /\ upgrade'[u].n = 0
        /\ upgrade'[u].sha = upgrade[u].sha /\ upgrade'[u].sized = sized
        /\ \A w \in Upgraders : w # u => upgrade'[w] = upgrade[w]
    BY <2>4, <2>5 DEF SelfInv, UpType
  <2>7. /\ DOMAIN files' = DOMAIN files \cup {f} /\ files'[f] = {}
        /\ \A g \in DOMAIN files : g # f => files'[g] = files[g]
        /\ files' = [g \in DOMAIN files' |-> files'[g]]
    BY <1>2
  <2>8. Names'
    <3>1. \A w \in Upgraders : Writing(w)' => upgrade'[w].fd \in DOMAIN files'
      BY <2>6, <2>7 DEF SelfInv, Names, Writing
    <3>2. \A g \in DOMAIN files' : files'[g] \subseteq WholeBinary
      BY <2>7 DEF SelfInv, Names
    <3>3. exe \in DOMAIN files /\ (new # 0 => new \in DOMAIN files /\ new # exe)
      BY DEF SelfInv, Names
    <3>4. QED
      BY Zenon, <1>0, <1>2, <2>3, <2>7, <3>1, <3>2, <3>3 DEF Names, WholeBinary
  <2>9. LengthRead'
    BY <2>6 DEF SelfInv, LengthRead
  <2>10. OwnFile'
    <3> SUFFICES ASSUME NEW w \in Upgraders, Writing(w)', part' # 0,
                        \A v \in Upgraders : v # w => ~Writing(v)'
                 PROVE  part' = upgrade'[w].fd /\ 1..upgrade'[w].n \subseteq files'[part']
      BY DEF OwnFile
    <3>1. w = u
      BY <2>6 DEF Writing
    <3>2. 1..0 = {}
      OBVIOUS
    <3>3. QED
      BY Zenon, <1>2, <2>6, <3>1, <3>2
  <2>11. unguarded' \in BOOLEAN
    BY <1>2 DEF SelfInv
  <2>12. ASSUME ~unguarded' PROVE Guarded' /\ Checked' /\ files'[exe'] = WholeBinary
    <3>1. ~unguarded /\ (sized \/ (upgrade[u].sha /\ Running = {u}))
      BY Zenon, <1>2, <2>12 DEF SelfInv
    <3>2. Guarded /\ Checked /\ files[exe] = WholeBinary
      BY <3>1 DEF SelfInv
    <3>3. \A v \in Upgraders : v # u /\ upgrade[v].at # "idle" => sized
      BY <3>1 DEF Running, At
    <3>4. Guarded'
      BY <1>0, <2>6, <3>1, <3>2, <3>3 DEF Guarded
    <3>5. new # 0 => files'[new] = files[new]
      BY <2>3, <2>7 DEF SelfInv, Names
    <3>6. Checked'
      BY Zenon, <1>2, <2>6, <3>2, <3>5 DEF Checked, WholeBinary
    <3>7. files'[exe] = files[exe]
      BY <2>3, <2>7 DEF SelfInv, Names
    <3>8. QED
      BY <1>0, <3>2, <3>4, <3>6, <3>7
  <2>13. QED
    BY <2>6, <2>8, <2>9, <2>10, <2>11, <2>12 DEF SelfInv, WholeBinary
<1>3. QED
  BY <1>1, <1>2 DEF Open

\* The part file gets the name that is verified.  This is where two upgrades
\* at most are needed: the other one is past its check or still writing.
LEMMA RenameKeeps ==
    ASSUME SelfInv, Blocks \in Nat, NEW a, NEW b, Upgraders = {a, b},
           NEW u \in Upgraders, RenamePart(u)
    PROVE  SelfInv'
<1>0. upgrade[u].at = "rename" /\ UNCHANGED <<files, exe, unguarded>>
  BY DEF RenamePart, At
<1>1. CASE AttemptFails(u) /\ part' = 0
  BY <1>0, <1>1, AttemptMove, MoveKeeps
<1>2. CASE part # 0 /\ new' = part /\ part' = 0 /\ SelfGoto(u, "verify")
  <2>1. /\ UpType' /\ upgrade'[u].at = "verify"
        /\ upgrade'[u].sha = upgrade[u].sha /\ upgrade'[u].sized = upgrade[u].sized
        /\ \A w \in Upgraders : w # u => upgrade'[w] = upgrade[w]
    BY <1>2, GotoUp DEF SelfInv, Places
  <2>2. Names'
    BY <1>0, <1>2, <2>1 DEF SelfInv, Names, Writing, WholeBinary
  <2>3. LengthRead' /\ OwnFile'
    BY <1>2, <2>1 DEF SelfInv, LengthRead, OwnFile
  <2>4. ASSUME ~unguarded' PROVE Guarded' /\ Checked' /\ files'[exe'] = WholeBinary
    <3>1. Guarded /\ Checked /\ files[exe] = WholeBinary
      BY <1>0, <2>4 DEF SelfInv
    <3>2. Guarded'
      BY <1>0, <2>1, <3>1 DEF Guarded
    <3>3. ASSUME upgrade[u].sized, \A v \in Upgraders : v # u => ~Writing(v)
          PROVE  files[part] = WholeBinary
      <4>1. upgrade[u].n = Blocks
        BY <1>0, <3>3 DEF SelfInv, LengthRead
      <4>2. 1..Blocks \subseteq files[part]
        BY <1>0, <1>2, <3>3, <4>1 DEF SelfInv, OwnFile, Writing
      <4>3. files[part] \subseteq 1..Blocks
        BY <1>2 DEF SelfInv, Names, WholeBinary
      <4>4. QED
        BY Zenon, <4>2, <4>3 DEF WholeBinary
    <3>4. SUFFICES ASSUME NEW w \in Upgraders,
                          \/ upgrade'[w].at \in {"chmod", "swap"}
                          \/ upgrade'[w].at = "verify" /\ ~upgrade'[w].sha
                   PROVE  files[part] = WholeBinary
      BY <1>0, <1>2, <3>1, <3>2 DEF Checked, WholeBinary
    <3>5. CASE w = u
      <4>1. ~upgrade[u].sha
        BY <2>1, <3>4, <3>5
      <4>2. upgrade[u].sized /\ \A v \in Upgraders : v # u => upgrade[v].at = "idle"
        BY <1>0, <3>1, <4>1 DEF Guarded
      <4>3. QED
        BY <3>3, <4>2 DEF Writing
    <3>6. CASE w # u
      <4>1. upgrade[w].at \in {"chmod", "swap", "verify"}
        BY <2>1, <3>4, <3>6
      <4>2. upgrade[u].sized
        BY <1>0, <3>1, <3>6, <4>1 DEF Guarded
      <4>3. \A v \in Upgraders : v # u => v = w
        BY <3>6
      <4>4. QED
        BY <3>3, <4>1, <4>2, <4>3 DEF Writing
    <3>7. QED
      BY <3>5, <3>6
  <2>5. QED
    BY <1>0, <2>1, <2>2, <2>3, <2>4 DEF SelfInv, WholeBinary
<1>3. QED
  BY <1>1, <1>2 DEF RenamePart

\* The checked file becomes the executable (selfupgrade.go:115-155).
LEMMA SwapKeeps ==
    ASSUME SelfInv, NEW u \in Upgraders, swapBinary(u)
    PROVE  SelfInv'
<1>0. upgrade[u].at = "swap" /\ UNCHANGED <<files, part, unguarded>>
  BY DEF swapBinary, At
<1>1. CASE Fail(u) /\ UNCHANGED <<new, exe>>
  BY <1>0, <1>1, FailMove, MoveKeeps
<1>2. CASE new # 0 /\ exe' = new /\ new' = 0 /\ SelfGoto(u, "exec")
  <2>1. /\ UpType' /\ upgrade'[u].at = "exec"
        /\ upgrade'[u].sha = upgrade[u].sha /\ upgrade'[u].sized = upgrade[u].sized
        /\ \A w \in Upgraders : w # u => upgrade'[w] = upgrade[w]
    BY <1>2, GotoUp DEF SelfInv, Places
  <2>2. \A w \in Upgraders : Writing(w)' <=> Writing(w)
    BY <1>0, <2>1 DEF Writing
  <2>3. Names'
    BY <1>0, <1>2, <2>1 DEF SelfInv, Names, Writing, WholeBinary
  <2>4. LengthRead'
    BY <2>1 DEF SelfInv, LengthRead
  <2>5. OwnFile'
    BY <1>0, <2>1, <2>2 DEF SelfInv, OwnFile, Writing
  <2>6. ASSUME ~unguarded' PROVE Guarded' /\ Checked' /\ files'[exe'] = WholeBinary
    <3>1. Guarded /\ Checked
      BY <1>0, <2>6 DEF SelfInv
    <3>2. files[new] = WholeBinary
      BY <1>0, <1>2, <3>1 DEF Checked
    <3>3. Guarded'
      BY <1>0, <2>1, <3>1 DEF Guarded
    <3>4. QED
      BY <1>0, <1>2, <3>2, <3>3 DEF Checked
  <2>7. QED
    BY <1>0, <2>1, <2>3, <2>4, <2>5, <2>6 DEF SelfInv, WholeBinary
<1>3. QED
  BY <1>1, <1>2 DEF swapBinary

\* The remaining steps of an upgrade.
LEMMA OthersKeep ==
    ASSUME SelfInv, NEW u \in Upgraders,
           ReadEnds(u) \/ verifySHA256(u) \/ Chmod(u) \/ restartSelf(u)
    PROVE  SelfInv'
<1>0. UpType
  BY DEF SelfInv
<1>1. CASE ReadEnds(u)
  <2>0. upgrade[u].at = "read" /\ UNCHANGED <<files, exe, unguarded>>
    BY <1>1 DEF ReadEnds, At
  <2>1. CASE AttemptFails(u) /\ part' = 0
    BY <2>0, <2>1, AttemptMove, MoveKeeps
  <2>2. CASE /\ upgrade[u].sized => upgrade[u].n = Blocks
             /\ SelfGoto(u, "rename") /\ UNCHANGED <<part, new>>
    <3>1. /\ UpType' /\ upgrade'[u].at = "rename" /\ upgrade'[u].fd = upgrade[u].fd /\ upgrade'[u].n = upgrade[u].n
          /\ upgrade'[u].sha = upgrade[u].sha /\ upgrade'[u].sized = upgrade[u].sized
          /\ \A w \in Upgraders : w # u => upgrade'[w] = upgrade[w]
      BY <1>0, <2>2, GotoUp DEF Places
    <3>2. Move(u)
      BY <2>0, <2>2, <3>1 DEF Move, Writing
    <3>3. QED
      BY <3>2, MoveKeeps
  <2>3. QED
    BY <1>1, <2>1, <2>2 DEF ReadEnds
<1>2. CASE verifySHA256(u)
  <2>0. upgrade[u].at = "verify" /\ UNCHANGED <<files, exe, unguarded, part>>
    BY <1>2 DEF verifySHA256, At
  <2>1. CASE Fail(u) /\ new' = 0
    BY <2>0, <2>1, FailMove, MoveKeeps
  <2>2. CASE /\ upgrade[u].sha => new # 0 /\ files[new] = WholeBinary
             /\ SelfGoto(u, "chmod") /\ UNCHANGED new
    <3>1. /\ UpType' /\ upgrade'[u].at = "chmod"
          /\ upgrade'[u].sha = upgrade[u].sha /\ upgrade'[u].sized = upgrade[u].sized
          /\ \A w \in Upgraders : w # u => upgrade'[w] = upgrade[w]
      BY <1>0, <2>2, GotoUp DEF Places
    <3>2. ~unguarded /\ new # 0 => files[new] = WholeBinary
      BY <2>0, <2>2 DEF SelfInv, Checked
    <3>3. Move(u)
      BY <2>0, <2>2, <3>1, <3>2 DEF Move, Writing
    <3>4. QED
      BY <3>3, MoveKeeps
  <2>3. QED
    BY <1>2, <2>1, <2>2 DEF verifySHA256
<1>3. CASE Chmod(u)
  <2>0. upgrade[u].at = "chmod" /\ UNCHANGED <<files, exe, unguarded, part>>
    BY <1>3 DEF Chmod, At
  <2>1. CASE Fail(u) /\ new' = 0
    BY <2>0, <2>1, FailMove, MoveKeeps
  <2>2. CASE SelfGoto(u, "swap") /\ UNCHANGED new
    <3>1. /\ UpType' /\ upgrade'[u].at = "swap"
          /\ upgrade'[u].sha = upgrade[u].sha /\ upgrade'[u].sized = upgrade[u].sized
          /\ \A w \in Upgraders : w # u => upgrade'[w] = upgrade[w]
      BY <1>0, <2>2, GotoUp DEF Places
    <3>2. ~unguarded /\ new # 0 => files[new] = WholeBinary
      BY <2>0, <2>2 DEF SelfInv, Checked
    <3>3. Move(u)
      BY <2>0, <2>2, <3>1, <3>2 DEF Move, Writing
    <3>4. QED
      BY <3>3, MoveKeeps
  <2>3. QED
    BY <1>3, <2>1, <2>2 DEF Chmod
<1>4. CASE restartSelf(u)
  <2>1. CASE Fail(u)
    BY <1>4, <2>1, FailMove, MoveKeeps DEF restartSelf, At
  <2>2. CASE upgrade' = [v \in Upgraders |-> Nobody]
    BY <1>4, <2>2, StoppedKeeps DEF restartSelf
  <2>3. QED
    BY <1>4, <2>1, <2>2 DEF restartSelf
<1>5. QED
  BY <1>1, <1>2, <1>3, <1>4

\* The executable of the start is whole.
LEMMA InitSelf == SelfInit => SelfInv
<1> SUFFICES ASSUME SelfInit PROVE SelfInv
  OBVIOUS
<1>1. /\ DOMAIN files = {1} /\ files[1] = WholeBinary /\ files = [f \in DOMAIN files |-> files[f]]
  BY DEF SelfInit
<1>2. Nobody \in Upgrade /\ Nobody.at = "idle"
  BY DEF Nobody, Places, Upgrade
<1>3. UpType /\ \A u \in Upgraders : upgrade[u].at = "idle"
  BY <1>2 DEF SelfInit, UpType
<1>4. 1 \in Nat /\ {1} = 1..1
  OBVIOUS
<1>5. Names
  BY <1>1, <1>3, <1>4 DEF SelfInit, Names, Writing
<1>6. LengthRead /\ OwnFile /\ Guarded /\ Checked
  BY <1>3 DEF LengthRead, OwnFile, Guarded, Checked, Writing
<1>7. QED
  BY Zenon, <1>1, <1>3, <1>5, <1>6 DEF SelfInit, SelfInv

\* Every step of the upgrades and a restart preserve it.
LEMMA StepSelf ==
    ASSUME Blocks \in Nat, NEW a, NEW b, Upgraders = {a, b}
    PROVE  SelfInv /\ [SelfNext]_selfVars => SelfInv'
<1> SUFFICES ASSUME SelfInv, [SelfNext]_selfVars PROVE SelfInv'
  OBVIOUS
<1>1. CASE \E u \in Upgraders, sha \in BOOLEAN : UpgradeFrame(u, sha)
  BY <1>1, FrameKeeps
<1>2. CASE \E u \in Upgraders, sized \in BOOLEAN : Open(u, sized)
  BY <1>2, OpenKeeps
<1>3. CASE \E u \in Upgraders : Read(u)
  BY <1>3, ReadKeeps
<1>4. CASE \E u \in Upgraders : RenamePart(u)
  BY <1>4, RenameKeeps
<1>5. CASE \E u \in Upgraders : swapBinary(u)
  BY <1>5, SwapKeeps
<1>6. CASE \E u \in Upgraders : ReadEnds(u) \/ verifySHA256(u) \/ Chmod(u) \/ restartSelf(u)
  BY <1>6, OthersKeep
<1>7. CASE SelfRestart
  BY <1>7, StoppedKeeps DEF SelfRestart
<1>8. CASE UNCHANGED selfVars
  BY <1>8 DEF selfVars, SelfInv, UpType, Names, LengthRead, OwnFile, Guarded, Checked, Writing,
              WholeBinary
<1>9. QED
  BY <1>1, <1>2, <1>3, <1>4, <1>5, <1>6, <1>7, <1>8 DEF SelfNext

\* For an executable of any size: with one or two upgrades under way, guarded
\* as the property says, it is whole after every step, and a crash between any
\* two steps leaves a node that can be started (selfupgrade.go:44-46).
THEOREM UpgradeIsAtomic ==
    ASSUME NEW a, NEW b, Upgraders = {a, b}
    PROVE  SelfSpec => []BinaryIsWhole
<1>1. SelfInit => SelfInv
  BY BlocksAssumption, InitSelf
<1>2. SelfInv /\ [SelfNext]_selfVars => SelfInv'
  BY BlocksAssumption, StepSelf
<1>3. SelfInv => BinaryIsWhole
  BY DEF SelfInv, BinaryIsWhole
<1>4. QED
  BY <1>1, <1>2, <1>3, PTL DEF SelfSpec
=============================================================================
