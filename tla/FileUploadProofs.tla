-------------------------- MODULE FileUploadProofs --------------------------
(***************************************************************************)
(* Proof that an upload with a temp file of its own is atomic              *)
(* (FileUpload), for any uploads to one path, of any numbers of chunks,    *)
(* some of which may share a temp file.                                    *)
(***************************************************************************)
EXTENDS FileUpload, TLAPS

-----------------------------------------------------------------------------
\* The facts about sequences that the proofs below rest on.

\* An element of a sequence over S is in S.
LEMMA ElementOfSeq ==
    ASSUME NEW S, NEW s \in Seq(S), NEW n \in 1 .. Len(s)
    PROVE  s[n] \in S
OBVIOUS

\* Replacing an element of a sequence leaves the others where they are.
LEMMA ExceptSeq ==
    ASSUME NEW S, NEW s \in Seq(S), NEW i \in 1 .. Len(s), NEW e \in S
    PROVE  /\ [s EXCEPT ![i] = e] \in Seq(S) /\ Len([s EXCEPT ![i] = e]) = Len(s)
           /\ \A j \in 1 .. Len(s) : [s EXCEPT ![i] = e][j] = IF j = i THEN e ELSE s[j]
OBVIOUS

\* Appending leaves what was there and adds one element at the end.
LEMMA AppendProperties ==
    ASSUME NEW S, NEW s \in Seq(S), NEW e \in S
    PROVE  /\ Append(s, e) \in Seq(S) /\ Len(Append(s, e)) = Len(s) + 1 /\ Len(s) \in Nat
           /\ \A i \in 1 .. Len(s) : Append(s, e)[i] = s[i]
           /\ Append(s, e)[Len(s) + 1] = e
OBVIOUS

-----------------------------------------------------------------------------
\* The inductive invariant.

Session == [id : Uploads, file : Nat, open : BOOLEAN, written : Nat]
Sent(u, n) == [k \in 1..n |-> <<u, k>>]
Putting == {"stat", "rename"}

\* The tables, typed.
UpTypes ==
    /\ sess \in Seq(Session) /\ uploads \in [Uploads -> Nat]
    /\ mine \in [Chunks -> Nat] /\ DOMAIN handler = Chunks
    /\ handler = [c \in Chunks |-> handler[c]]
    /\ temp \in [Names -> Nat] /\ tempName \in [Uploads -> Names] /\ dest \in Nat
    /\ DOMAIN contents = 1..Len(sess)

\* An id and a goroutine refer to a session of that id.
Refers ==
    /\ \A u \in Uploads : uploads[u] # 0 =>
          uploads[u] \in 1..Len(sess) /\ sess[uploads[u]].id = u
    /\ \A u \in Uploads : \A k \in 1..NumChunks[u] :
          handler[<<u, k>>] \in {"got"} \cup Putting =>
             mine[<<u, k>>] \in 1..Len(sess) /\ sess[mine[<<u, k>>]].id = u

\* The temp name under which file i was created.
NameOf(i) == tempName[sess[i].id]

\* A file has no other temp name than the one it was created under, only
\* sessions with that name write to it, and it has none once it is in place.
Named ==
    /\ \A s \in 1..Len(sess) :
          sess[s].file \in 1..Len(sess) /\ NameOf(sess[s].file) = NameOf(s)
    /\ \A t \in Names : temp[t] # Absent =>
          temp[t] \in 1..Len(sess) /\ NameOf(temp[t]) = t /\ temp[t] # dest
    /\ dest \in 0..Len(sess)

\* An open session is the one its id is mapped to.
OpenIsMapped ==
    \A s \in 1..Len(sess) : sess[s].open => uploads[sess[s].id] = s

\* A final chunk that has been checked keeps the id until it is in place.
Final ==
    \A u \in Uploads : \A k \in 1..NumChunks[u] :
       handler[<<u, k>>] \in Putting =>
          k = NumChunks[u] /\ uploads[u] = mine[<<u, k>>] /\ ~sess[mine[<<u, k>>]].open

\* The temp file of an upload that shares it with none: as long as its session
\* is open it has the chunks written so far, and then all of them.
Progress(u) ==
    Alone(u) =>
       /\ uploads[u] # 0 /\ sess[uploads[u]].open =>
             /\ temp[tempName[u]] = sess[uploads[u]].file
             /\ contents[temp[tempName[u]]] = Sent(u, sess[uploads[u]].written)
       /\ \A k \in 1..NumChunks[u] : handler[<<u, k>>] \in Putting =>
             temp[tempName[u]] # Absent /\ contents[temp[tempName[u]]] = Content(u)

UploadInv ==
    /\ UpTypes /\ Refers /\ Named /\ OpenIsMapped /\ Final
    /\ \A u \in Uploads : Progress(u)
    /\ DestWhole

-----------------------------------------------------------------------------
\* A chunk of an upload is one of the chunks.
LEMMA ChunkIn ==
    ASSUME NEW u \in Uploads, NEW k \in 1..NumChunks[u]
    PROVE  <<u, k>> \in Chunks
<1>1. <<u, k>> \in {u} \X (1..NumChunks[u])
  OBVIOUS
<1>2. QED
  BY Zenon, <1>1 DEF Chunks

\* Other chunks' entries in a table of the goroutines.
LEMMA ChunkOther ==
    ASSUME NEW u \in Uploads, NEW k \in 1..NumChunks[u],
           NEW v \in Uploads, NEW j \in 1..NumChunks[v], v # u \/ j # k
    PROVE  <<v, j>> \in Chunks /\ <<v, j>> # <<u, k>>
BY Zenon, ChunkIn

\* The goroutines after a step of the one for chunk k of u.
LEMMA HandlerSet ==
    ASSUME UpTypes, NEW u \in Uploads, NEW k \in 1..NumChunks[u], NEW l,
           handler' = [handler EXCEPT ![<<u, k>>] = l]
    PROVE  /\ DOMAIN handler' = Chunks /\ handler' = [c \in Chunks |-> handler'[c]]
           /\ handler'[<<u, k>>] = l
           /\ \A v \in Uploads : \A j \in 1..NumChunks[v] :
                 v # u \/ j # k => handler'[<<v, j>>] = handler[<<v, j>>]
<1>1. <<u, k>> \in Chunks /\ DOMAIN handler = Chunks
  BY ChunkIn DEF UpTypes
<1>2. DOMAIN handler' = Chunks /\ handler' = [c \in Chunks |-> handler'[c]]
  BY Zenon, <1>1
<1>3. handler'[<<u, k>>] = l
  BY Zenon, <1>1
<1>4. \A c \in Chunks : c # <<u, k>> => handler'[c] = handler[c]
  BY Zenon, <1>1
<1>5. QED
  BY Zenon, <1>2, <1>3, <1>4, ChunkOther

\* A session and its fields.
LEMMA SessionIn ==
    ASSUME UpTypes, NEW s \in 1..Len(sess)
    PROVE  /\ sess[s] \in Session /\ sess[s].id \in Uploads /\ sess[s].file \in Nat
           /\ sess[s].written \in Nat
<1>1. sess[s] \in Session
  BY ElementOfSeq DEF UpTypes
<1>2. QED
  BY Zenon, <1>1 DEF Session

\* A step that only moves goroutines, none of them to a session it had not.
LEMMA QuietKeeps ==
    ASSUME UploadInv, UNCHANGED <<contents, dest, temp, tempName, uploads, sess, mine>>,
           DOMAIN handler' = Chunks, handler' = [c \in Chunks |-> handler'[c]],
           \A v \in Uploads : \A j \in 1..NumChunks[v] :
              /\ handler'[<<v, j>>] \in {"got"} \cup Putting =>
                    handler[<<v, j>>] \in {"got"} \cup Putting
              /\ handler'[<<v, j>>] \in Putting => handler[<<v, j>>] \in Putting
    PROVE  UploadInv'
<1>1. UpTypes'
  BY Zenon DEF UploadInv, UpTypes, Session, Chunks
<1>2. Refers'
  BY Zenon DEF UploadInv, Refers, Putting
<1>3. Named' /\ OpenIsMapped' /\ DestWhole'
  BY ZenonT(60) DEF UploadInv, Named, NameOf, OpenIsMapped, DestWhole, Alone, Absent, Content
<1>4. Final'
  BY Zenon DEF UploadInv, Final, Putting
<1>5. \A u \in Uploads : Progress(u)'
  BY Zenon DEF UploadInv, Progress, Alone, Absent, Content, Sent, Putting
<1>6. QED
  BY Zenon, <1>1, <1>2, <1>3, <1>4, <1>5 DEF UploadInv

\* The step of a goroutine to l, from where it refers to no session.
LEMMA MoveKeeps ==
    ASSUME UploadInv, NEW u \in Uploads, NEW k \in 1..NumChunks[u], NEW l,
           handler' = [handler EXCEPT ![<<u, k>>] = l],
           l \notin {"got"} \cup Putting \/ (l \in Putting /\ handler[<<u, k>>] \in Putting),
           UNCHANGED <<contents, dest, temp, tempName, uploads, sess, mine>>
    PROVE  UploadInv'
<1>1. UpTypes
  BY DEF UploadInv
<1>2. /\ DOMAIN handler' = Chunks /\ handler' = [c \in Chunks |-> handler'[c]]
      /\ handler'[<<u, k>>] = l
      /\ \A v \in Uploads : \A j \in 1..NumChunks[v] :
            v # u \/ j # k => handler'[<<v, j>>] = handler[<<v, j>>]
  BY Zenon, <1>1, HandlerSet
<1>3. ASSUME NEW v \in Uploads, NEW j \in 1..NumChunks[v]
      PROVE  /\ handler'[<<v, j>>] \in {"got"} \cup Putting =>
                   handler[<<v, j>>] \in {"got"} \cup Putting
             /\ handler'[<<v, j>>] \in Putting => handler[<<v, j>>] \in Putting
  <2>1. CASE v = u /\ j = k
    BY Zenon, <1>2, <2>1
  <2>2. CASE v # u \/ j # k
    BY Zenon, <1>2, <2>2
  <2>3. QED
    BY Zenon, <2>1, <2>2
<1>4. QED
  BY Zenon, <1>2, <1>3, QuietKeeps

\* The sessions after one of them changed.
LEMMA SessionSet ==
    ASSUME UpTypes, NEW s \in 1..Len(sess), NEW r \in Session, r.id = sess[s].id,
           r.file = sess[s].file, sess' = [sess EXCEPT ![s] = r]
    PROVE  /\ sess' \in Seq(Session) /\ Len(sess') = Len(sess) /\ sess'[s] = r
           /\ \A i \in 1..Len(sess) :
                 /\ i # s => sess'[i] = sess[i]
                 /\ sess'[i].id = sess[i].id /\ sess'[i].file = sess[i].file
<1>1. sess \in Seq(Session)
  BY DEF UpTypes
<1>2. /\ sess' \in Seq(Session) /\ Len(sess') = Len(sess)
      /\ \A i \in 1..Len(sess) : sess'[i] = IF i = s THEN r ELSE sess[i]
  BY <1>1, ExceptSeq
<1>3. QED
  BY <1>2

\* Uploads with a temp file each do not meet in a file: where a session of u
\* writes, and the file of u's temp name, is not the file of another such
\* upload's temp name, nor is it in place.
LEMMA Apart ==
    ASSUME UploadInv, NEW u \in Uploads, NEW s \in 1..Len(sess), sess[s].id = u
    PROVE  /\ \A v \in Uploads : v # u /\ Alone(v) /\ temp[tempName[v]] # Absent =>
                 temp[tempName[v]] # sess[s].file /\ temp[tempName[v]] # temp[tempName[u]]
           /\ \A v \in Uploads : v # u /\ Alone(v) => tempName[v] # tempName[u]
           /\ dest = sess[s].file /\ Alone(sess[dest].id) => sess[dest].id = u /\ Alone(u)
<1>1. NameOf(sess[s].file) = tempName[u] /\ sess[s].file \in 1..Len(sess)
  BY Zenon DEF UploadInv, Named, NameOf
<1>2. \A v \in Uploads : tempName[v] \in Names
  BY Zenon DEF UploadInv, UpTypes
<1>3. \A v \in Uploads : v # u /\ Alone(v) => tempName[v] # tempName[u]
  BY Zenon DEF Alone
<1>4. ASSUME NEW v \in Uploads, v # u, Alone(v), temp[tempName[v]] # Absent
      PROVE  temp[tempName[v]] # sess[s].file /\ temp[tempName[v]] # temp[tempName[u]]
  <2>1. NameOf(temp[tempName[v]]) = tempName[v]
    BY Zenon, <1>2, <1>4 DEF UploadInv, Named
  <2>2. temp[tempName[u]] # Absent => NameOf(temp[tempName[u]]) = tempName[u]
    BY Zenon, <1>2 DEF UploadInv, Named
  <2>3. QED
    BY Zenon, <1>1, <1>3, <1>4, <2>1, <2>2
<1>5. ASSUME dest = sess[s].file, Alone(sess[dest].id)
      PROVE  sess[dest].id = u /\ Alone(u)
  <2>1. tempName[sess[dest].id] = tempName[u]
    BY Zenon, <1>1, <1>5 DEF NameOf
  <2>2. u = sess[dest].id
    BY Zenon, <1>5, <2>1 DEF Alone
  <2>3. QED
    BY Zenon, <1>5, <2>2
<1>6. QED
  BY Zenon, <1>3, <1>4, <1>5

\* A step of the goroutine for chunk k of u on its session s, which the id is
\* mapped to: the session changes, its file may be written to and the temp name
\* be given up, or moved to the destination.  Nothing of another upload with a
\* temp file of its own changes.
LEMMA TurnKeeps ==
    ASSUME UploadInv, NEW u \in Uploads, NEW k \in 1..NumChunks[u], NEW s \in 1..Len(sess),
           mine[<<u, k>>] = s, uploads[u] = s, sess[s].id = u,
           \A j \in 1..NumChunks[u] : j # k => handler[<<u, j>>] \notin Putting,
           NEW l \in {"done"} \cup Putting, handler' = [handler EXCEPT ![<<u, k>>] = l],
           NEW r \in Session, r.id = u, r.file = sess[s].file, sess' = [sess EXCEPT ![s] = r],
           l \in Putting => k = NumChunks[u] /\ ~r.open,
           \/ uploads' = uploads
           \/ uploads' = [uploads EXCEPT ![u] = 0] /\ ~r.open /\ l = "done",
           temp' \in {temp, [temp EXCEPT ![tempName[u]] = Absent]},
           \/ contents' = contents
           \/ sess[s].open /\ \E d : contents' = [contents EXCEPT ![sess[s].file] = d],
           \/ dest' = dest
           \/ /\ temp[tempName[u]] # Absent /\ dest' = temp[tempName[u]] /\ DestWhole'
              /\ temp' = [temp EXCEPT ![tempName[u]] = Absent],
           mine' = mine, tempName' = tempName, Progress(u)'
    PROVE  UploadInv'
<1>1. UpTypes /\ 0 \in Nat /\ s # 0
  BY DEF UploadInv
<1>2. /\ DOMAIN handler' = Chunks /\ handler' = [c \in Chunks |-> handler'[c]]
      /\ handler'[<<u, k>>] = l
      /\ \A v \in Uploads : \A j \in 1..NumChunks[v] :
            v # u \/ j # k => handler'[<<v, j>>] = handler[<<v, j>>]
  BY Zenon, <1>1, HandlerSet
<1>3. /\ sess' \in Seq(Session) /\ Len(sess') = Len(sess) /\ sess'[s] = r
      /\ \A i \in 1..Len(sess) :
            /\ i # s => sess'[i] = sess[i]
            /\ sess'[i].id = sess[i].id /\ sess'[i].file = sess[i].file
  BY Zenon, <1>1, SessionSet
<1>4. /\ uploads' \in [Uploads -> Nat] /\ uploads'[u] \in {0, s}
      /\ uploads'[u] = 0 => ~r.open /\ l = "done"
      /\ \A v \in Uploads : v # u => uploads'[v] = uploads[v]
  <2>0. uploads \in [Uploads -> Nat]
    BY <1>1 DEF UpTypes
  <2>1. CASE uploads' = uploads
    BY Zenon, <1>1, <2>0, <2>1
  <2>2. CASE uploads' = [uploads EXCEPT ![u] = 0] /\ ~r.open /\ l = "done"
    <3>1. uploads' \in [Uploads -> Nat] /\ uploads'[u] = 0
      BY Zenon, <1>1, <2>0, <2>2
    <3>2. \A v \in Uploads : v # u => uploads'[v] = uploads[v]
      BY Zenon, <2>0, <2>2
    <3>3. QED
      BY Zenon, <2>2, <3>1, <3>2
  <2>3. QED
    BY Zenon, <2>1, <2>2
<1>5. tempName[u] \in Names
  BY Zenon, <1>1 DEF UpTypes
<1>6. /\ temp' \in [Names -> Nat] /\ temp'[tempName[u]] \in {Absent, temp[tempName[u]]}
      /\ \A t \in Names : t # tempName[u] => temp'[t] = temp[t]
      /\ \A t \in Names : temp'[t] # Absent => temp'[t] = temp[t]
  BY <1>1, <1>5 DEF UpTypes, Absent
<1>7. /\ DOMAIN contents' = 1..Len(sess)
      /\ \A i \in 1..Len(sess) :
            contents'[i] = contents[i] \/ (sess[s].open /\ i = sess[s].file)
  BY Zenon, <1>1 DEF UpTypes
<1>8. UpTypes'
  <2>1. dest' \in Nat
    <3>1. temp[tempName[u]] \in Nat /\ dest \in Nat
      BY Zenon, <1>1, <1>5 DEF UpTypes
    <3>2. QED
      BY Zenon, <3>1
  <2>2. QED
    BY Zenon, <1>1, <1>2, <1>3, <1>4, <1>6, <1>7, <2>1 DEF UpTypes, Session, Chunks
<1>9. Refers'
  <2>1. ASSUME NEW v \in Uploads, uploads'[v] # 0
        PROVE  uploads'[v] \in 1..Len(sess') /\ sess'[uploads'[v]].id = v
    <3>1. uploads'[v] = uploads[v]
      BY Zenon, <1>4, <2>1
    <3>2. uploads[v] \in 1..Len(sess) /\ sess[uploads[v]].id = v
      BY Zenon, <2>1, <3>1 DEF UploadInv, Refers
    <3>3. QED
      BY Zenon, <1>3, <3>1, <3>2
  <2>2. ASSUME NEW v \in Uploads, NEW j \in 1..NumChunks[v],
               handler'[<<v, j>>] \in {"got"} \cup Putting
        PROVE  mine'[<<v, j>>] \in 1..Len(sess') /\ sess'[mine'[<<v, j>>]].id = v
    <3>1. CASE v = u /\ j = k
      BY Zenon, <1>3, <3>1
    <3>2. CASE v # u \/ j # k
      <4>1. mine[<<v, j>>] \in 1..Len(sess) /\ sess[mine[<<v, j>>]].id = v
        BY ZenonT(60), <1>2, <2>2, <3>2 DEF UploadInv, Refers
      <4>2. QED
        BY Zenon, <1>3, <4>1
    <3>3. QED
      BY Zenon, <3>1, <3>2
  <2>3. QED
    BY Zenon, <2>1, <2>2 DEF Refers, Putting
<1>10. \A i \in 1..Len(sess) : tempName'[sess'[i].id] = NameOf(i)
  BY Zenon, <1>3 DEF NameOf
<1>11. Named'
  <2>1. \A i \in 1..Len(sess') : 
          /\ sess'[i].file \in 1..Len(sess')
          /\ tempName'[sess'[sess'[i].file].id] = tempName'[sess'[i].id]
    <3>1. \A i \in 1..Len(sess) : sess[i].file \in 1..Len(sess) /\ NameOf(sess[i].file) = NameOf(i)
      BY Zenon DEF UploadInv, Named
    <3>2. TAKE i \in 1..Len(sess')
    <3>3. i \in 1..Len(sess) /\ sess'[i].file = sess[i].file
      BY Zenon, <1>3
    <3>4. tempName'[sess'[sess[i].file].id] = tempName'[sess'[i].id]
      BY ZenonT(60), <1>10, <3>1, <3>3
    <3>5. QED
      BY Zenon, <1>3, <3>1, <3>3, <3>4
  <2>2. ASSUME NEW t \in Names, temp'[t] # Absent
        PROVE  temp'[t] \in 1..Len(sess') /\ tempName'[sess'[temp'[t]].id] = t /\ temp'[t] # dest'
    <3>1. temp'[t] = temp[t]
      BY Zenon, <1>6, <2>2
    <3>2. temp[t] \in 1..Len(sess) /\ NameOf(temp[t]) = t /\ temp[t] # dest
      BY Zenon, <2>2, <3>1 DEF UploadInv, Named
    <3>3. tempName'[sess'[temp[t]].id] = t
      BY Zenon, <1>10, <3>2
    <3>4. CASE dest' = dest
      BY Zenon, <1>3, <3>1, <3>2, <3>3, <3>4
    <3>5. CASE /\ temp[tempName[u]] # Absent /\ dest' = temp[tempName[u]]
               /\ temp' = [temp EXCEPT ![tempName[u]] = Absent]
      <4>1. temp'[tempName[u]] = Absent
        BY Zenon, <1>1, <1>5, <3>5 DEF UpTypes
      <4>2. t # tempName[u]
        BY Zenon, <2>2, <4>1
      <4>3. NameOf(dest') = tempName[u]
        BY Zenon, <1>5, <3>5 DEF UploadInv, Named
      <4>4. temp[t] # dest'
        BY Zenon, <3>2, <4>2, <4>3
      <4>5. QED
        BY Zenon, <1>3, <3>1, <3>2, <3>3, <4>4
    <3>6. QED
      BY Zenon, <3>4, <3>5
  <2>3. dest' \in 0..Len(sess')
    <3>1. dest \in 0..Len(sess)
      BY Zenon DEF UploadInv, Named
    <3>2. temp[tempName[u]] # Absent => temp[tempName[u]] \in 1..Len(sess)
      BY Zenon, <1>5 DEF UploadInv, Named
    <3>3. \A i \in 1..Len(sess) : i \in 0..Len(sess)
      OBVIOUS
    <3>4. QED
      BY Zenon, <1>3, <3>1, <3>2, <3>3
  <2>4. QED
    BY Zenon, <2>1, <2>2, <2>3 DEF Named, NameOf, Absent
<1>12. OpenIsMapped'
  <2> SUFFICES ASSUME NEW i \in 1..Len(sess'), sess'[i].open
               PROVE  uploads'[sess'[i].id] = i
    BY DEF OpenIsMapped
  <2>1. CASE i = s
    <3>1. sess'[i] = r
      BY Zenon, <1>3, <2>1
    <3>2. r.open /\ sess'[i].id = u
      BY Zenon, <3>1
    <3>3. uploads'[u] = s
      BY Zenon, <1>4, <3>2
    <3>4. QED
      BY Zenon, <2>1, <3>2, <3>3
  <2>2. CASE i # s
    <3>1. i \in 1..Len(sess) /\ sess'[i] = sess[i]
      BY Zenon, <1>3, <2>2
    <3>2. uploads[sess[i].id] = i /\ sess[i].id \in Uploads
      BY Zenon, <1>1, <3>1, SessionIn DEF UploadInv, OpenIsMapped
    <3>3. sess[i].id # u
      BY Zenon, <2>2, <3>2
    <3>4. QED
      BY Zenon, <1>4, <3>1, <3>2, <3>3
  <2>3. QED
    BY Zenon, <2>1, <2>2
<1>13. Final'
  <2> SUFFICES ASSUME NEW v \in Uploads, NEW j \in 1..NumChunks[v], handler'[<<v, j>>] \in Putting
               PROVE  /\ j = NumChunks[v] /\ uploads'[v] = mine'[<<v, j>>]
                      /\ ~sess'[mine'[<<v, j>>]].open
    BY Zenon DEF Final, Putting
  <2>1. CASE v = u
    <3>0. j \in 1..NumChunks[u] /\ handler'[<<u, j>>] \in Putting
      BY Zenon, <2>1
    <3>1a. j = k
      BY Zenon, <1>2, <3>0
    <3>1. j = k /\ l \in Putting
      BY ZenonT(60), <1>2, <3>0, <3>1a
    <3>2. l # "done"
      BY Zenon, <3>1 DEF Putting
    <3>3. uploads'[u] = s /\ mine'[<<u, k>>] = s /\ ~sess'[s].open /\ k = NumChunks[u]
      BY Zenon, <1>3, <1>4, <3>1, <3>2
    <3>4. QED
      BY Zenon, <2>1, <3>1, <3>3
  <2>2. CASE v # u
    <3>1. handler[<<v, j>>] \in Putting
      BY Zenon, <1>2, <2>2
    <3>2. j = NumChunks[v] /\ uploads[v] = mine[<<v, j>>] /\ ~sess[mine[<<v, j>>]].open
      BY Zenon, <3>1 DEF UploadInv, Final
    <3>3. mine[<<v, j>>] \in 1..Len(sess) /\ sess[mine[<<v, j>>]].id = v
      BY Zenon, <3>1 DEF UploadInv, Refers
    <3>4. QED
      BY Zenon, <1>3, <1>4, <2>2, <3>2, <3>3
  <2>3. QED
    BY Zenon, <2>1, <2>2
<1>14. ASSUME NEW v \in Uploads, v # u PROVE Progress(v)'
  <2> SUFFICES ASSUME Alone(v)
               PROVE  /\ uploads'[v] # 0 /\ sess'[uploads'[v]].open =>
                            /\ temp'[tempName[v]] = sess'[uploads'[v]].file
                            /\ contents'[temp'[tempName[v]]] = Sent(v, sess'[uploads'[v]].written)
                      /\ \A j \in 1..NumChunks[v] : handler'[<<v, j>>] \in Putting =>
                            /\ temp'[tempName[v]] # Absent
                            /\ contents'[temp'[tempName[v]]] = Content(v)
    BY Zenon DEF Progress, Alone, Sent, Content, Absent, Putting
  <2>1. Progress(v)
    BY DEF UploadInv
  <2>2. /\ tempName[v] # tempName[u] /\ tempName[v] \in Names
        /\ temp[tempName[v]] # Absent => temp[tempName[v]] # sess[s].file
    <3>1. tempName[v] \in Names
      BY Zenon, <1>1 DEF UpTypes
    <3>2. /\ tempName[v] # tempName[u]
          /\ temp[tempName[v]] # Absent => temp[tempName[v]] # sess[s].file
      BY <1>14, Apart
    <3>3. QED
      BY Zenon, <3>1, <3>2
  <2>3. temp'[tempName[v]] = temp[tempName[v]]
    BY Zenon, <1>6, <2>2
  <2>4. temp[tempName[v]] # Absent => contents'[temp[tempName[v]]] = contents[temp[tempName[v]]]
    <3>1. temp[tempName[v]] # Absent => temp[tempName[v]] \in 1..Len(sess)
      BY Zenon, <2>2 DEF UploadInv, Named
    <3>2. QED
      BY Zenon, <1>7, <2>2, <3>1
  <2>5. ASSUME uploads'[v] # 0, sess'[uploads'[v]].open
        PROVE  /\ temp'[tempName[v]] = sess'[uploads'[v]].file
               /\ contents'[temp'[tempName[v]]] = Sent(v, sess'[uploads'[v]].written)
    <3>1. uploads'[v] = uploads[v] /\ uploads[v] \in 1..Len(sess) /\ sess[uploads[v]].id = v
      BY ZenonT(60), <1>4, <1>14, <2>5 DEF UploadInv, Refers
    <3>2. sess'[uploads[v]] = sess[uploads[v]]
      BY Zenon, <1>3, <1>14, <3>1
    <3>3. /\ temp[tempName[v]] = sess[uploads[v]].file
          /\ contents[temp[tempName[v]]] = Sent(v, sess[uploads[v]].written)
      BY Zenon, <2>1, <2>5, <3>1, <3>2 DEF Progress
    <3>4. sess[uploads[v]].file \in 1..Len(sess)
      BY Zenon, <3>1 DEF UploadInv, Named
    <3>5. \A i \in 1..Len(sess) : i # Absent
      BY DEF Absent
    <3>6. QED
      BY Zenon, <2>3, <2>4, <3>1, <3>2, <3>3, <3>4, <3>5
  <2>6. ASSUME NEW j \in 1..NumChunks[v], handler'[<<v, j>>] \in Putting
        PROVE  temp'[tempName[v]] # Absent /\ contents'[temp'[tempName[v]]] = Content(v)
    <3>1. handler[<<v, j>>] \in Putting
      BY Zenon, <1>2, <1>14, <2>6
    <3>2. temp[tempName[v]] # Absent /\ contents[temp[tempName[v]]] = Content(v)
      BY Zenon, <2>1, <3>1 DEF Progress
    <3>3. QED
      BY Zenon, <2>3, <2>4, <3>2
  <2>7. QED
    BY Zenon, <2>5, <2>6
<1>15. DestWhole'
  <2> SUFFICES ASSUME dest' = dest, dest' # Absent, Alone(sess'[dest'].id)
               PROVE  contents'[dest'] = Content(sess'[dest'].id)
    <3>1. CASE dest' = dest
      BY Zenon, <3>1 DEF DestWhole, Alone, Absent, Content
    <3>2. QED
      BY Zenon, <3>1
  <2>1. dest \in 1..Len(sess)
    BY DEF UploadInv, Named, Absent
  <2>2. sess'[dest'].id = sess[dest].id
    BY Zenon, <1>3, <2>1
  <2>3. contents[dest] = Content(sess[dest].id)
    BY Zenon, <2>2 DEF UploadInv, DestWhole
  <2>4. ASSUME sess[s].open, dest = sess[s].file PROVE FALSE
    <3>1. Alone(u)
      BY Zenon, <2>2, <2>4, Apart
    <3>2. temp[tempName[u]] = dest
      BY Zenon, <1>1, <2>4, <3>1 DEF UploadInv, Progress
    <3>3. QED
      BY Zenon, <1>5, <3>2 DEF UploadInv, Named
  <2>5. QED
    BY Zenon, <1>7, <2>1, <2>2, <2>3, <2>4
<1>16. QED
  BY Zenon, <1>8, <1>9, <1>11, <1>12, <1>13, <1>14, <1>15 DEF UploadInv
\* The sessions the goroutines refer to after one of them got session m.
LEMMA MineSet ==
    ASSUME UpTypes, NEW u \in Uploads, NEW k \in 1..NumChunks[u], NEW m \in Nat,
           mine' = [mine EXCEPT ![<<u, k>>] = m]
    PROVE  /\ mine' \in [Chunks -> Nat] /\ mine'[<<u, k>>] = m
           /\ \A v \in Uploads : \A j \in 1..NumChunks[v] :
                 v # u \/ j # k => mine'[<<v, j>>] = mine[<<v, j>>]
<1>1. <<u, k>> \in Chunks /\ mine \in [Chunks -> Nat]
  BY ChunkIn DEF UpTypes
<1>2. mine' \in [Chunks -> Nat] /\ mine'[<<u, k>>] = m
  BY Zenon, <1>1
<1>3. \A c \in Chunks : c # <<u, k>> => mine'[c] = mine[c]
  BY Zenon, <1>1
<1>4. QED
  BY Zenon, <1>2, <1>3, ChunkOther

\* A chunk gets the session its id is mapped to.
LEMMA JoinKeeps ==
    ASSUME UploadInv, NEW u \in Uploads, NEW k \in 1..NumChunks[u], uploads[u] # 0,
           handler' = [handler EXCEPT ![<<u, k>>] = "got"],
           mine' = [mine EXCEPT ![<<u, k>>] = uploads[u]],
           UNCHANGED <<contents, dest, temp, tempName, uploads, sess>>
    PROVE  UploadInv'
<1>1. UpTypes /\ uploads[u] \in Nat
  BY Zenon DEF UploadInv, UpTypes
<1>2. /\ DOMAIN handler' = Chunks /\ handler' = [c \in Chunks |-> handler'[c]]
      /\ handler'[<<u, k>>] = "got"
      /\ \A v \in Uploads : \A j \in 1..NumChunks[v] :
            v # u \/ j # k => handler'[<<v, j>>] = handler[<<v, j>>]
  BY Zenon, <1>1, HandlerSet
<1>3. /\ mine' \in [Chunks -> Nat] /\ mine'[<<u, k>>] = uploads[u]
      /\ \A v \in Uploads : \A j \in 1..NumChunks[v] :
            v # u \/ j # k => mine'[<<v, j>>] = mine[<<v, j>>]
  BY Zenon, <1>1, MineSet
<1>4. "got" \notin Putting
  BY DEF Putting
<1>5. UpTypes'
  BY Zenon, <1>1, <1>2, <1>3 DEF UpTypes, Session, Chunks
<1>6. Named' /\ OpenIsMapped' /\ DestWhole'
  BY ZenonT(60) DEF UploadInv, Named, NameOf, OpenIsMapped, DestWhole, Alone, Absent, Content
<1>7. \A v \in Uploads : \A j \in 1..NumChunks[v] : handler'[<<v, j>>] \in Putting =>
         handler[<<v, j>>] \in Putting /\ mine'[<<v, j>>] = mine[<<v, j>>]
  BY ZenonT(60), <1>2, <1>3, <1>4
<1>8. Refers'
  <2>1. ASSUME NEW v \in Uploads, NEW j \in 1..NumChunks[v],
               handler'[<<v, j>>] \in {"got"} \cup Putting
        PROVE  mine'[<<v, j>>] \in 1..Len(sess) /\ sess[mine'[<<v, j>>]].id = v
    <3>1. CASE v = u /\ j = k
      BY ZenonT(60), <1>3, <3>1 DEF UploadInv, Refers
    <3>2. CASE v # u \/ j # k
      BY <1>2, <1>3, <2>1, <3>2 DEF UploadInv, Refers
    <3>3. QED
      BY Zenon, <3>1, <3>2
  <2>2. QED
    BY Zenon, <2>1 DEF UploadInv, Refers, Putting
<1>9. Final'
  BY <1>7 DEF UploadInv, Final, Putting
<1>10. \A v \in Uploads : Progress(v)'
  BY Zenon, <1>7 DEF UploadInv, Progress, Alone, Absent, Content, Sent, Putting
<1>11. QED
  BY Zenon, <1>5, <1>6, <1>8, <1>9, <1>10 DEF UploadInv

\* A chunk makes a session of its id, on the file that has the temp name already
\* or on a new one.
LEMMA OpenKeeps ==
    ASSUME UploadInv, NEW u \in Uploads, NEW k \in 1..NumChunks[u], uploads[u] = 0,
           handler' = [handler EXCEPT ![<<u, k>>] = "got"],
           NEW n, n = Len(sess) + 1,
           NEW f, f = IF temp[tempName[u]] # Absent THEN temp[tempName[u]] ELSE n,
           sess' = Append(sess, [id |-> u, file |-> f, open |-> TRUE, written |-> 0]),
           uploads' = [uploads EXCEPT ![u] = n], mine' = [mine EXCEPT ![<<u, k>>] = n],
           contents' = [i \in 1..n |-> IF i \in {f, n} THEN <<>> ELSE contents[i]],
           temp' = [temp EXCEPT ![tempName[u]] = f], dest' = dest, tempName' = tempName
    PROVE  UploadInv'
<1>1. UpTypes /\ tempName[u] \in Names
  BY Zenon DEF UploadInv, UpTypes
<1>2. /\ DOMAIN handler' = Chunks /\ handler' = [c \in Chunks |-> handler'[c]]
      /\ handler'[<<u, k>>] = "got"
      /\ \A v \in Uploads : \A j \in 1..NumChunks[v] :
            v # u \/ j # k => handler'[<<v, j>>] = handler[<<v, j>>]
  <2>1. <<u, k>> \in Chunks /\ DOMAIN handler = Chunks
    BY <1>1, ChunkIn DEF UpTypes
  <2>2. DOMAIN handler' = Chunks /\ handler' = [c \in Chunks |-> handler'[c]]
    BY Zenon, <2>1
  <2>3. handler'[<<u, k>>] = "got" /\ \A c \in Chunks : c # <<u, k>> => handler'[c] = handler[c]
    BY Zenon, <2>1
  <2>4. QED
    BY Zenon, <2>2, <2>3, ChunkOther
<1>3. /\ n \in Nat /\ n # 0 /\ n \notin 1..Len(sess) /\ n \notin 0..Len(sess)
      /\ 1..n = (1..Len(sess)) \cup {n} /\ 0..Len(sess) \subseteq 0..n
  <2>1. Len(sess) \in Nat
    BY <1>1 DEF UpTypes
  <2>2. QED
    BY <2>1
<1>4. temp[tempName[u]] # Absent =>
         /\ temp[tempName[u]] \in 1..Len(sess) /\ NameOf(temp[tempName[u]]) = tempName[u]
         /\ temp[tempName[u]] # dest
  BY Zenon, <1>1 DEF UploadInv, Named
<1>5. f \in 1..n /\ f \in Nat /\ f # Absent /\ f # dest
  <2>1. dest \in 0..Len(sess)
    BY DEF UploadInv, Named
  <2>2. f \in 1..n /\ f # dest
    BY Zenon, <1>3, <1>4, <2>1
  <2>3. QED
    BY <1>3, <2>2 DEF Absent
<1>6. /\ sess' \in Seq(Session) /\ Len(sess') = n
      /\ \A i \in 1..Len(sess) : sess'[i] = sess[i]
      /\ sess'[n].id = u /\ sess'[n].file = f /\ sess'[n].open = TRUE /\ sess'[n].written = 0
  <2> DEFINE r == [id |-> u, file |-> f, open |-> TRUE, written |-> 0]
  <2>1. sess \in Seq(Session)
    BY <1>1 DEF UpTypes
  <2>2. r \in Session
    BY <1>5 DEF Session
  <2> HIDE DEF r
  <2>3. /\ Append(sess, r) \in Seq(Session) /\ Len(Append(sess, r)) = Len(sess) + 1
        /\ \A i \in 1..Len(sess) : Append(sess, r)[i] = sess[i]
        /\ Append(sess, r)[Len(sess) + 1] = r
    BY <2>1, <2>2, AppendProperties
  <2>4. sess' = Append(sess, r)
    BY DEF r
  <2>5. sess'[n] = r
    BY Zenon, <2>3, <2>4
  <2>6. QED
    BY <2>3, <2>4, <2>5 DEF r
<1>7. /\ mine' \in [Chunks -> Nat] /\ mine'[<<u, k>>] = n
      /\ \A v \in Uploads : \A j \in 1..NumChunks[v] :
            v # u \/ j # k => mine'[<<v, j>>] = mine[<<v, j>>]
  <2>1. <<u, k>> \in Chunks /\ mine \in [Chunks -> Nat]
    BY <1>1, ChunkIn DEF UpTypes
  <2>2. mine' \in [Chunks -> Nat] /\ mine'[<<u, k>>] = n
    BY Zenon, <1>3, <2>1
  <2>3. \A c \in Chunks : c # <<u, k>> => mine'[c] = mine[c]
    BY Zenon, <2>1
  <2>4. QED
    BY Zenon, <2>2, <2>3, ChunkOther
<1>8. /\ uploads' \in [Uploads -> Nat] /\ uploads'[u] = n
      /\ \A v \in Uploads : v # u => uploads'[v] = uploads[v]
  <2>1. uploads \in [Uploads -> Nat]
    BY <1>1 DEF UpTypes
  <2>2. QED
    BY Zenon, <1>3, <2>1
<1>9. /\ temp' \in [Names -> Nat] /\ temp'[tempName[u]] = f
      /\ \A t \in Names : t # tempName[u] => temp'[t] = temp[t]
  <2>1. temp \in [Names -> Nat]
    BY <1>1 DEF UpTypes
  <2>2. QED
    BY Zenon, <1>1, <1>5, <2>1
<1>10. /\ DOMAIN contents' = 1..n /\ contents'[f] = <<>>
       /\ \A i \in 1..Len(sess) : i # f => contents'[i] = contents[i]
  BY Zenon, <1>3, <1>5
<1>11. ASSUME NEW j \in 1..NumChunks[u] PROVE handler'[<<u, j>>] \notin Putting
  <2>1. j # k => handler[<<u, j>>] \notin Putting
    <3>1. ASSUME handler[<<u, j>>] \in Putting PROVE FALSE
      <4>1. mine[<<u, j>>] \in 1..Len(sess) /\ mine[<<u, j>>] = 0
        BY Zenon, <3>1 DEF UploadInv, Refers, Final
      <4>2. QED
        BY <4>1
    <3>2. QED
      BY <3>1
  <2>2. "got" \notin Putting
    BY DEF Putting
  <2>3. QED
    BY Zenon, <1>2, <2>1, <2>2
<1>12. UpTypes'
  BY Zenon, <1>1, <1>2, <1>6, <1>7, <1>8, <1>9, <1>10 DEF UpTypes, Session, Chunks
<1>13. Refers'
  <2>1. ASSUME NEW v \in Uploads, uploads'[v] # 0
        PROVE  uploads'[v] \in 1..Len(sess') /\ sess'[uploads'[v]].id = v
    <3>1. CASE v = u
      <4>1. uploads'[v] = n /\ n \in 1..Len(sess')
        BY Zenon, <1>3, <1>6, <1>8, <3>1
      <4>2. QED
        BY Zenon, <1>6, <3>1, <4>1
    <3>2. CASE v # u
      <4>1. /\ uploads'[v] = uploads[v] /\ uploads[v] \in 1..Len(sess)
            /\ sess[uploads[v]].id = v
        BY Zenon, <1>8, <2>1, <3>2 DEF UploadInv, Refers
      <4>2. QED
        BY <1>3, <1>6, <4>1
    <3>3. QED
      BY Zenon, <3>1, <3>2
  <2>2. ASSUME NEW v \in Uploads, NEW j \in 1..NumChunks[v],
               handler'[<<v, j>>] \in {"got"} \cup Putting
        PROVE  mine'[<<v, j>>] \in 1..Len(sess') /\ sess'[mine'[<<v, j>>]].id = v
    <3>1. CASE v = u /\ j = k
      <4>1. mine'[<<v, j>>] = n /\ n \in 1..Len(sess')
        BY Zenon, <1>3, <1>6, <1>7, <3>1
      <4>2. QED
        BY Zenon, <1>6, <3>1, <4>1
    <3>2. CASE v # u \/ j # k
      <4>1. /\ mine'[<<v, j>>] = mine[<<v, j>>] /\ mine[<<v, j>>] \in 1..Len(sess)
            /\ sess[mine[<<v, j>>]].id = v
        BY <1>2, <1>7, <2>2, <3>2 DEF UploadInv, Refers
      <4>2. QED
        BY <1>3, <1>6, <4>1
    <3>3. QED
      BY Zenon, <3>1, <3>2
  <2>3. QED
    BY Zenon, <2>1, <2>2 DEF Refers, Putting
<1>14. \A i \in 1..Len(sess) : tempName'[sess'[i].id] = NameOf(i)
  BY Zenon, <1>6 DEF NameOf
<1>15. tempName'[sess'[n].id] = tempName[u] /\ tempName'[sess'[f].id] = tempName[u]
  <2>1. tempName'[sess'[n].id] = tempName[u]
    BY Zenon, <1>6
  <2>2. CASE f = n
    BY Zenon, <2>1, <2>2
  <2>3. CASE temp[tempName[u]] # Absent /\ f = temp[tempName[u]]
    BY Zenon, <1>4, <1>14, <2>1, <2>3
  <2>4. QED
    BY Zenon, <2>2, <2>3
<1>16. Named'
  <2>1. ASSUME NEW i \in 1..Len(sess')
        PROVE  /\ sess'[i].file \in 1..Len(sess')
               /\ tempName'[sess'[sess'[i].file].id] = tempName'[sess'[i].id]
    <3>1. CASE i = n
      BY <1>5, <1>6, <1>15, <3>1
    <3>2. CASE i \in 1..Len(sess)
      <4>1. /\ sess[i].file \in 1..Len(sess) /\ NameOf(sess[i].file) = NameOf(i)
            /\ sess'[i] = sess[i]
        BY Zenon, <1>6, <3>2 DEF UploadInv, Named
      <4>2. tempName'[sess'[sess[i].file].id] = tempName'[sess'[i].id]
        BY ZenonT(60), <1>14, <3>2, <4>1
      <4>3. QED
        BY ZenonT(60), <1>3, <1>6, <4>1, <4>2
    <3>3. QED
      BY <1>3, <1>6, <3>1, <3>2
  <2>2. ASSUME NEW t \in Names, temp'[t] # Absent
        PROVE  /\ temp'[t] \in 1..Len(sess') /\ tempName'[sess'[temp'[t]].id] = t
               /\ temp'[t] # dest'
    <3>1. CASE t = tempName[u]
      <4>1. temp'[t] = f
        BY Zenon, <1>9, <3>1
      <4>2. QED
        BY <1>5, <1>6, <1>15, <3>1, <4>1
    <3>2. CASE t # tempName[u]
      <4>1. /\ temp'[t] = temp[t] /\ temp[t] \in 1..Len(sess) /\ NameOf(temp[t]) = t
            /\ temp[t] # dest
        BY Zenon, <1>9, <2>2, <3>2 DEF UploadInv, Named
      <4>2. tempName'[sess'[temp[t]].id] = t
        BY Zenon, <1>14, <4>1
      <4>3. QED
        BY ZenonT(60), <1>3, <1>6, <4>1, <4>2
    <3>3. QED
      BY Zenon, <3>1, <3>2
  <2>3. dest' \in 0..Len(sess')
    BY Zenon, <1>3, <1>6 DEF UploadInv, Named
  <2>4. QED
    BY ZenonT(60), <2>1, <2>2, <2>3 DEF Named, NameOf, Absent
<1>17. OpenIsMapped'
  <2> SUFFICES ASSUME NEW i \in 1..Len(sess'), sess'[i].open
               PROVE  uploads'[sess'[i].id] = i
    BY DEF OpenIsMapped
  <2>1. CASE i = n
    BY <1>6, <1>8, <2>1
  <2>2. CASE i \in 1..Len(sess)
    <3>1. sess'[i] = sess[i]
      BY Zenon, <1>6, <2>2
    <3>2. uploads[sess[i].id] = i /\ sess[i].id \in Uploads
      BY Zenon, <1>1, <2>2, <3>1, SessionIn DEF UploadInv, OpenIsMapped
    <3>3. sess[i].id # u
      BY <2>2, <3>2
    <3>4. QED
      BY Zenon, <1>8, <3>1, <3>2, <3>3
  <2>3. QED
    BY <1>3, <1>6, <2>1, <2>2
<1>18. Final'
  <2> SUFFICES ASSUME NEW v \in Uploads, NEW j \in 1..NumChunks[v], handler'[<<v, j>>] \in Putting
               PROVE  /\ j = NumChunks[v] /\ uploads'[v] = mine'[<<v, j>>]
                      /\ ~sess'[mine'[<<v, j>>]].open
    BY Zenon DEF Final, Putting
  <2>1. v # u
    BY Zenon, <1>11
  <2>2. handler[<<v, j>>] \in Putting
    BY Zenon, <1>2, <2>1
  <2>3. /\ j = NumChunks[v] /\ uploads[v] = mine[<<v, j>>] /\ ~sess[mine[<<v, j>>]].open
        /\ mine[<<v, j>>] \in 1..Len(sess)
    BY Zenon, <2>2 DEF UploadInv, Final, Refers
  <2>4. mine'[<<v, j>>] = mine[<<v, j>>] /\ uploads'[v] = uploads[v]
    BY Zenon, <1>7, <1>8, <2>1
  <2>5. QED
    BY <1>6, <2>3, <2>4
<1>19. Progress(u)'
  <2>1. Sent(u, 0) = <<>>
    BY DEF Sent
  <2>2. /\ temp'[tempName'[u]] = sess'[uploads'[u]].file
        /\ contents'[temp'[tempName'[u]]] = Sent(u, sess'[uploads'[u]].written)
    BY <1>6, <1>8, <1>9, <1>10, <2>1
  <2>3. QED
    BY Zenon, <1>11, <2>2 DEF Progress, Sent, Putting
<1>20. ASSUME NEW v \in Uploads, v # u PROVE Progress(v)'
  <2> SUFFICES ASSUME Alone(v)
               PROVE  /\ uploads'[v] # 0 /\ sess'[uploads'[v]].open =>
                            /\ temp'[tempName[v]] = sess'[uploads'[v]].file
                            /\ contents'[temp'[tempName[v]]] = Sent(v, sess'[uploads'[v]].written)
                      /\ \A j \in 1..NumChunks[v] : handler'[<<v, j>>] \in Putting =>
                            /\ temp'[tempName[v]] # Absent
                            /\ contents'[temp'[tempName[v]]] = Content(v)
    BY Zenon DEF Progress, Alone, Sent, Content, Absent, Putting
  <2>1. Progress(v)
    BY DEF UploadInv
  <2>2. tempName[v] # tempName[u] /\ tempName[v] \in Names
    BY Zenon, <1>1, <1>20 DEF Alone, UpTypes
  <2>3. temp'[tempName[v]] = temp[tempName[v]]
    BY Zenon, <1>9, <2>2
  <2>4. temp[tempName[v]] # Absent => contents'[temp[tempName[v]]] = contents[temp[tempName[v]]]
    <3>1. temp[tempName[v]] # Absent =>
             temp[tempName[v]] \in 1..Len(sess) /\ NameOf(temp[tempName[v]]) = tempName[v]
      BY Zenon, <2>2 DEF UploadInv, Named
    <3>2. temp[tempName[v]] # Absent => temp[tempName[v]] # f
      BY Zenon, <1>3, <1>4, <2>2, <3>1
    <3>3. QED
      BY Zenon, <1>10, <3>1, <3>2
  <2>5. ASSUME uploads'[v] # 0, sess'[uploads'[v]].open
        PROVE  /\ temp'[tempName[v]] = sess'[uploads'[v]].file
               /\ contents'[temp'[tempName[v]]] = Sent(v, sess'[uploads'[v]].written)
    <3>1. uploads'[v] = uploads[v] /\ uploads[v] \in 1..Len(sess)
      BY Zenon, <1>8, <1>20, <2>5 DEF UploadInv, Refers
    <3>2. sess'[uploads[v]] = sess[uploads[v]]
      BY Zenon, <1>6, <3>1
    <3>3. /\ temp[tempName[v]] = sess[uploads[v]].file
          /\ contents[temp[tempName[v]]] = Sent(v, sess[uploads[v]].written)
      BY Zenon, <2>1, <2>5, <3>1, <3>2 DEF Progress
    <3>4. sess[uploads[v]].file \in 1..Len(sess)
      BY Zenon, <3>1 DEF UploadInv, Named
    <3>5. \A i \in 1..Len(sess) : i # Absent
      BY DEF Absent
    <3>6. QED
      BY Zenon, <2>3, <2>4, <3>1, <3>2, <3>3, <3>4, <3>5
  <2>6. ASSUME NEW j \in 1..NumChunks[v], handler'[<<v, j>>] \in Putting
        PROVE  temp'[tempName[v]] # Absent /\ contents'[temp'[tempName[v]]] = Content(v)
    <3>1. handler[<<v, j>>] \in Putting
      BY Zenon, <1>2, <1>20, <2>6
    <3>2. temp[tempName[v]] # Absent /\ contents[temp[tempName[v]]] = Content(v)
      BY Zenon, <2>1, <3>1 DEF Progress
    <3>3. QED
      BY Zenon, <2>3, <2>4, <3>2
  <2>7. QED
    BY Zenon, <2>5, <2>6
<1>21. DestWhole'
  <2> SUFFICES ASSUME dest' # Absent, Alone(sess'[dest'].id)
               PROVE  contents'[dest'] = Content(sess'[dest'].id)
    BY Zenon DEF DestWhole, Alone, Absent, Content
  <2>1. dest \in 1..Len(sess)
    BY DEF UploadInv, Named, Absent
  <2>2. sess'[dest'].id = sess[dest].id
    BY <1>6, <2>1
  <2>3. contents[dest] = Content(sess[dest].id)
    BY Zenon, <2>2 DEF UploadInv, DestWhole
  <2>4. contents'[dest] = contents[dest]
    BY Zenon, <1>5, <1>10, <2>1
  <2>5. QED
    BY Zenon, <2>2, <2>3, <2>4
<1>22. QED
  BY Zenon, <1>12, <1>13, <1>16, <1>17, <1>18, <1>19, <1>20, <1>21 DEF UploadInv
-----------------------------------------------------------------------------
\* The session of a chunk that holds an open session, or of a checked final
\* chunk: its id is mapped to it and no other chunk of the upload is checked.
LEMMA Holds ==
    ASSUME UploadInv, NEW u \in Uploads, NEW k \in 1..NumChunks[u],
           \/ handler[<<u, k>>] = "got" /\ sess[mine[<<u, k>>]].open
           \/ handler[<<u, k>>] \in Putting
    PROVE  /\ mine[<<u, k>>] \in 1..Len(sess) /\ sess[mine[<<u, k>>]].id = u
           /\ uploads[u] = mine[<<u, k>>] /\ sess[mine[<<u, k>>]] \in Session
           /\ \A j \in 1..NumChunks[u] : j # k => handler[<<u, j>>] \notin Putting
<1>1. mine[<<u, k>>] \in 1..Len(sess) /\ sess[mine[<<u, k>>]].id = u
  BY Zenon DEF UploadInv, Refers
<1>2. uploads[u] = mine[<<u, k>>]
  BY <1>1 DEF UploadInv, OpenIsMapped, Final
<1>3. sess[mine[<<u, k>>]] \in Session
  BY Zenon, <1>1, SessionIn DEF UploadInv
<1>4. ASSUME NEW j \in 1..NumChunks[u], j # k, handler[<<u, j>>] \in Putting PROVE FALSE
  <2>1. j = NumChunks[u] /\ uploads[u] = mine[<<u, j>>] /\ ~sess[mine[<<u, j>>]].open
    BY Zenon, <1>4 DEF UploadInv, Final
  <2>2. CASE handler[<<u, k>>] = "got" /\ sess[mine[<<u, k>>]].open
    BY Zenon, <1>2, <2>1, <2>2
  <2>3. CASE handler[<<u, k>>] \in Putting
    BY Zenon, <1>4, <2>1, <2>3 DEF UploadInv, Final
  <2>4. QED
    BY Zenon, <2>2, <2>3
<1>5. QED
  BY Zenon, <1>1, <1>2, <1>3, <1>4

\* The session of a chunk closes and its id is forgotten, whatever becomes of
\* the temp file.
LEMMA DropKeeps ==
    ASSUME UploadInv, NEW u \in Uploads, NEW k \in 1..NumChunks[u], NEW s,
           s = mine[<<u, k>>],
           \/ handler[<<u, k>>] = "got" /\ sess[s].open
           \/ handler[<<u, k>>] \in Putting,
           handler' = [handler EXCEPT ![<<u, k>>] = "done"],
           NEW r \in Session, r.id = u, r.file = sess[s].file, sess' = [sess EXCEPT ![s] = r],
           ~r.open, uploads' = [uploads EXCEPT ![u] = IF @ = s THEN 0 ELSE @],
           temp' = [temp EXCEPT ![tempName[u]] = Absent],
           \/ contents' = contents
           \/ sess[s].open /\ \E d : contents' = [contents EXCEPT ![sess[s].file] = d],
           \/ dest' = dest
           \/ temp[tempName[u]] # Absent /\ dest' = temp[tempName[u]] /\ DestWhole',
           mine' = mine, tempName' = tempName
    PROVE  UploadInv'
<1>1. /\ s \in 1..Len(sess) /\ sess[s].id = u /\ uploads[u] = s
      /\ \A j \in 1..NumChunks[u] : j # k => handler[<<u, j>>] \notin Putting
  BY Holds
<1>2. UpTypes /\ uploads \in [Uploads -> Nat]
  BY Zenon DEF UploadInv, UpTypes
<1>3. uploads' = [uploads EXCEPT ![u] = 0]
  BY Zenon, <1>1
<1>4. /\ handler'[<<u, k>>] = "done"
      /\ \A j \in 1..NumChunks[u] : j # k => handler'[<<u, j>>] = handler[<<u, j>>]
  <2>1. <<u, k>> \in Chunks /\ DOMAIN handler = Chunks
    BY <1>2, ChunkIn DEF UpTypes
  <2>2. \A c \in Chunks : c # <<u, k>> => handler'[c] = handler[c]
    BY Zenon, <2>1
  <2>3. handler'[<<u, k>>] = "done"
    BY Zenon, <2>1
  <2>4. QED
    BY Zenon, <2>2, <2>3, ChunkOther
<1>5. Progress(u)'
  <2>1. uploads'[u] = 0
    BY Zenon, <1>2, <1>3
  <2>2. "done" \notin Putting
    BY DEF Putting
  <2>3. \A j \in 1..NumChunks[u] : handler'[<<u, j>>] \notin Putting
    BY Zenon, <1>1, <1>4, <2>2
  <2>4. QED
    BY Zenon, <2>1, <2>3 DEF Progress, Putting
<1>6. /\ "done" \in {"done"} \cup Putting /\ "done" \notin Putting
      /\ temp' \in {temp, [temp EXCEPT ![tempName[u]] = Absent]}
  BY Zenon DEF Putting
<1>7. QED
  BY Zenon, <1>1, <1>3, <1>5, <1>6, TurnKeeps

\* The chunk is refused and the upload aborted.
LEMMA AbortKeeps ==
    ASSUME UploadInv, NEW u \in Uploads, NEW k \in 1..NumChunks[u],
           \/ handler[<<u, k>>] = "got" /\ sess[mine[<<u, k>>]].open
           \/ handler[<<u, k>>] \in Putting,
           abortUpload(mine[<<u, k>>]), Finish(<<u, k>>, "fail"), mine' = mine,
           tempName' = tempName
    PROVE  UploadInv'
<1> DEFINE s == mine[<<u, k>>]
           r == [sess[s] EXCEPT !.open = FALSE]
<1>1. s \in 1..Len(sess) /\ sess[s].id = u /\ sess[s] \in Session
  BY Zenon, Holds
<1>2. r \in Session /\ r.id = u /\ r.file = sess[s].file /\ ~r.open
  <2> HIDE DEF s
  <2>1. QED
    BY Zenon, <1>1 DEF Session
<1>3. /\ sess' = [sess EXCEPT ![s] = r] /\ contents' = contents /\ dest' = dest
      /\ temp' = [temp EXCEPT ![tempName[u]] = Absent]
      /\ uploads' = [uploads EXCEPT ![u] = IF @ = s THEN 0 ELSE @]
      /\ handler' = [handler EXCEPT ![<<u, k>>] = "done"]
  BY Zenon, <1>1 DEF abortUpload, Finish
<1> HIDE DEF s, r
<1>4. s = mine[<<u, k>>]
  BY DEF s
<1>5. QED
  BY Zenon, <1>2, <1>3, <1>4, DropKeeps

\* The temp file is moved to the destination, or the move fails.
LEMMA RenameKeeps ==
    ASSUME UploadInv, NEW u \in Uploads, NEW k \in 1..NumChunks[u], Rename(u, k)
    PROVE  UploadInv'
<1> DEFINE s == mine[<<u, k>>]
<1>1. handler[<<u, k>>] \in Putting
  BY DEF Rename, Putting
<1>2. /\ s \in 1..Len(sess) /\ sess[s].id = u /\ sess[s] \in Session
      /\ ~sess[s].open /\ k = NumChunks[u]
  BY Zenon, <1>1, Holds DEF UploadInv, Final
<1>3. UpTypes /\ tempName[u] \in Names
  BY Zenon DEF UploadInv, UpTypes
<1>4. /\ sess' = sess /\ contents' = contents /\ mine' = mine /\ tempName' = tempName
      /\ temp' = [temp EXCEPT ![tempName[u]] = Absent]
      /\ uploads' = [uploads EXCEPT ![u] = IF @ = s THEN 0 ELSE @]
      /\ handler' = [handler EXCEPT ![<<u, k>>] = "done"]
      /\ dest' = dest \/ (temp[tempName[u]] # Absent /\ dest' = temp[tempName[u]])
  BY Zenon DEF Rename, Finish, requestVars
<1>5. ASSUME temp[tempName[u]] # Absent, dest' = temp[tempName[u]]
      PROVE  DestWhole'
  <2> SUFFICES ASSUME Alone(sess'[dest'].id)
               PROVE  contents'[dest'] = Content(sess'[dest'].id)
    BY Zenon, <1>4 DEF DestWhole, Alone, Absent, Content
  <2>1. dest' \in 1..Len(sess) /\ NameOf(dest') = tempName[u]
    BY Zenon, <1>3, <1>5 DEF UploadInv, Named
  <2>2. sess[dest'].id = u
    BY Zenon, <1>4, <2>1 DEF Alone, NameOf
  <2>3. Alone(u)
    BY Zenon, <1>4, <2>2
  <2>4. contents[temp[tempName[u]]] = Content(u)
    BY Zenon, <1>1, <2>3 DEF UploadInv, Progress
  <2>5. QED
    BY Zenon, <1>4, <1>5, <2>2, <2>4
<1>6. sess' = [sess EXCEPT ![s] = sess[s]]
  <2>1. sess \in Seq(Session)
    BY <1>3 DEF UpTypes
  <2> HIDE DEF s
  <2>2. QED
    BY <1>2, <1>4, <2>1
<1> DEFINE r == sess[s]
<1>7. /\ s = mine[<<u, k>>] /\ r \in Session /\ r.id = u /\ r.file = sess[s].file /\ ~r.open
      /\ sess' = [sess EXCEPT ![s] = r]
  BY Zenon, <1>2, <1>6
<1> HIDE DEF s, r
<1>8. /\ \/ dest' = dest
         \/ temp[tempName[u]] # Absent /\ dest' = temp[tempName[u]] /\ DestWhole'
      /\ \/ handler[<<u, k>>] = "got" /\ sess[s].open
         \/ handler[<<u, k>>] \in Putting
      /\ \/ contents' = contents
         \/ sess[s].open /\ \E d : contents' = [contents EXCEPT ![sess[s].file] = d]
      /\ mine' = mine /\ tempName' = tempName
      /\ temp' = [temp EXCEPT ![tempName[u]] = Absent]
      /\ uploads' = [uploads EXCEPT ![u] = IF @ = s THEN 0 ELSE @]
      /\ handler' = [handler EXCEPT ![<<u, k>>] = "done"]
  BY Zenon, <1>1, <1>4, <1>5
<1>9. QED
  BY Zenon, <1>7, <1>8, DropKeeps

\* The next chunk appended to the chunks sent so far.
LEMMA SentWrite ==
    ASSUME NEW u \in Uploads, NEW w \in Nat, NEW k \in Nat, k = w + 1
    PROVE  WriteAt(Sent(u, w), w, <<u, k>>) = Sent(u, k)
<1>1. DOMAIN Sent(u, w) = 1..w
  BY DEF Sent
<1>2. (1..w) \cup (1..(w + 1)) = 1..k
  OBVIOUS
<1>3. \A i \in 1..k : i # w + 1 => i \in 1..w
  OBVIOUS
<1>4. \A i \in 1..w : Sent(u, w)[i] = <<u, i>>
  BY DEF Sent
<1>5. \A i \in 1..k : (IF i = w + 1 THEN <<u, k>> ELSE IF i \in 1..w THEN Sent(u, w)[i] ELSE Hole)
                      = <<u, i>>
  BY Zenon, <1>3, <1>4
<1>6. QED
  BY <1>1, <1>2, <1>5 DEF WriteAt, Sent

\* A chunk is written at the offset its session is at; the last one is checked.
LEMMA WrittenKeeps ==
    ASSUME ChunksAssumption, UploadInv, NEW u \in Uploads, NEW k \in 1..NumChunks[u],
           ChunkWritten(u, k)
    PROVE  UploadInv'
<1> DEFINE s == mine[<<u, k>>]
           now == sess[s].written + 1
<1>1. /\ handler[<<u, k>>] = "got" /\ sess[s].open /\ k - 1 = sess[s].written
      /\ dest' = dest /\ mine' = mine /\ tempName' = tempName
      /\ contents' = [contents EXCEPT ![sess[s].file] = WriteAt(@, sess[s].written, <<u, k>>)]
  BY Zenon DEF ChunkWritten, AtSession, OffsetOk, Offset, requestVars
<1>2. /\ s \in 1..Len(sess) /\ sess[s].id = u /\ sess[s] \in Session /\ uploads[u] = s
      /\ \A j \in 1..NumChunks[u] : j # k => handler[<<u, j>>] \notin Putting
  BY Zenon, <1>1, Holds
<1>3. UpTypes /\ sess[s].written \in Nat /\ k \in Nat /\ s # 0
  <2>1. UpTypes /\ NumChunks[u] \in Nat
    BY Zenon, ChunksAssumption DEF UploadInv
  <2>2. QED
    BY <1>2, <2>1, SessionIn
<1>4. now = k /\ now \in Nat
  BY <1>1, <1>3
<1>6. Alone(u) => /\ temp[tempName[u]] = sess[s].file /\ temp[tempName[u]] # Absent
                  /\ contents'[temp[tempName[u]]] = Sent(u, k)
  <2> SUFFICES ASSUME Alone(u)
               PROVE  /\ temp[tempName[u]] = sess[s].file /\ temp[tempName[u]] # Absent
                      /\ contents'[temp[tempName[u]]] = Sent(u, k)
    OBVIOUS
  <2>1. temp[tempName[u]] = sess[s].file /\ contents[sess[s].file] = Sent(u, sess[s].written)
    BY ZenonT(60), <1>1, <1>2, <1>3 DEF UploadInv, Progress
  <2>2. sess[s].file \in 1..Len(sess) /\ DOMAIN contents = 1..Len(sess)
    BY Zenon, <1>2, <1>3 DEF UploadInv, Named, UpTypes
  <2>3. contents'[sess[s].file] = WriteAt(Sent(u, sess[s].written), sess[s].written, <<u, k>>)
    BY Zenon, <1>1, <2>1, <2>2
  <2>4. WriteAt(Sent(u, sess[s].written), sess[s].written, <<u, k>>) = Sent(u, k)
    BY <1>3, <1>4, SentWrite
  <2>5. temp[tempName[u]] # Absent
    BY <2>1, <2>2 DEF Absent
  <2>6. QED
    BY Zenon, <2>1, <2>3, <2>4, <2>5
<1>7. sess[s].open /\ \E e : contents' = [contents EXCEPT ![sess[s].file] = e]
  BY Zenon, <1>1
<1>8. CASE /\ k < NumChunks[u] /\ sess' = [sess EXCEPT ![s].written = now]
           /\ Finish(<<u, k>>, "ok") /\ UNCHANGED <<temp, uploads>>
  <2> DEFINE r == [sess[s] EXCEPT !.written = now]
  <2>1. r \in Session /\ r.id = u /\ r.file = sess[s].file /\ r.open /\ r.written = k
    <3> HIDE DEF s, now
    <3>1. QED
      BY <1>1, <1>2, <1>4 DEF Session
  <2>2. /\ sess' = [sess EXCEPT ![s] = r] /\ temp' = temp /\ uploads' = uploads
        /\ handler' = [handler EXCEPT ![<<u, k>>] = "done"]
    BY Zenon, <1>8 DEF Finish
  <2> HIDE DEF r
  <2>3. sess'[s] = r
    BY <1>2, <1>3, <2>1, <2>2, SessionSet
  <2>4. "done" \in {"done"} \cup Putting /\ "done" \notin Putting
    BY Zenon DEF Putting
  <2>5a. /\ DOMAIN handler' = Chunks /\ handler' = [c \in Chunks |-> handler'[c]]
         /\ handler'[<<u, k>>] = "done"
         /\ \A v \in Uploads : \A j \in 1..NumChunks[v] :
               v # u \/ j # k => handler'[<<v, j>>] = handler[<<v, j>>]
    BY Zenon, <1>3, <2>2, HandlerSet
  <2>5. \A j \in 1..NumChunks[u] : handler'[<<u, j>>] \notin Putting
    BY Zenon, <1>2, <2>4, <2>5a
  <2>6. Progress(u)'
    <3>1. Alone(u)' => Alone(u)
      BY Zenon, <1>1 DEF Alone
    <3>2. Alone(u) => /\ temp'[tempName'[u]] = sess'[uploads'[u]].file
                      /\ contents'[temp'[tempName'[u]]] = Sent(u, sess'[uploads'[u]].written)
      <4>1. sess'[uploads'[u]] = r
        BY Zenon, <1>2, <2>2, <2>3
      <4>2. QED
        BY Zenon, <1>1, <1>6, <2>1, <2>2, <4>1
    <3>3. QED
      BY Zenon, <2>5, <3>1, <3>2 DEF Progress, Sent, Putting
  <2>7. s = mine[<<u, k>>]
    OBVIOUS
  <2> HIDE DEF s, now
  <2>8. /\ mine[<<u, k>>] = s /\ temp' \in {temp, [temp EXCEPT ![tempName[u]] = Absent]}
        /\ \/ uploads' = uploads
           \/ uploads' = [uploads EXCEPT ![u] = 0] /\ ~r.open /\ "done" = "done"
        /\ \/ contents' = contents
           \/ sess[s].open /\ \E d : contents' = [contents EXCEPT ![sess[s].file] = d]
        /\ mine' = mine /\ tempName' = tempName /\ dest' = dest
    BY Zenon, <1>1, <1>7, <2>2, <2>7
  <2>9. QED
    BY ZenonT(60), <1>2, <2>1, <2>2, <2>4, <2>6, <2>8, TurnKeeps
<1>9. CASE \E l \in Putting :
              /\ k = NumChunks[u]
              /\ sess' = [sess EXCEPT ![s].written = now, ![s].open = FALSE]
              /\ handler' = [handler EXCEPT ![<<u, k>>] = l] /\ UNCHANGED <<temp, uploads>>
  <2> DEFINE r == [sess[s] EXCEPT !.written = now, !.open = FALSE]
  <2>0. PICK l \in Putting :
              /\ k = NumChunks[u]
              /\ sess' = [sess EXCEPT ![s].written = now, ![s].open = FALSE]
              /\ handler' = [handler EXCEPT ![<<u, k>>] = l] /\ UNCHANGED <<temp, uploads>>
    BY Zenon, <1>9
  <2>1. r \in Session /\ r.id = u /\ r.file = sess[s].file /\ ~r.open
    <3> HIDE DEF s, now
    <3>1. QED
      BY Zenon, <1>1, <1>2, <1>4 DEF Session
  <2>2. sess' = [sess EXCEPT ![s] = r] /\ temp' = temp /\ uploads' = uploads
    <3>1. sess \in Seq(Session)
      BY <1>3 DEF UpTypes
    <3> HIDE DEF s, now
    <3>2. QED
      BY Zenon, <1>2, <2>0, <3>1
  <2> HIDE DEF r
  <2>3. sess'[s] = r
    BY ZenonT(60), <1>2, <1>3, <2>1, <2>2, SessionSet
  <2>4. Progress(u)'
    <3>1. Alone(u)' => Alone(u)
      BY Zenon, <1>1 DEF Alone
    <3>2. Alone(u) => temp'[tempName'[u]] # Absent /\ contents'[temp'[tempName'[u]]] = Content(u)
      BY Zenon, <1>1, <1>6, <2>0, <2>2 DEF Sent, Content
    <3>3. ~sess'[uploads'[u]].open
      BY Zenon, <1>2, <2>1, <2>2, <2>3
    <3>4. QED
      BY Zenon, <3>1, <3>2, <3>3 DEF Progress, Putting, Absent, Content
  <2>5. /\ mine[<<u, k>>] = s /\ l \in {"done"} \cup Putting
        /\ temp' \in {temp, [temp EXCEPT ![tempName[u]] = Absent]}
        /\ handler' = [handler EXCEPT ![<<u, k>>] = l]
        /\ \/ contents' = contents
           \/ sess[s].open /\ \E d : contents' = [contents EXCEPT ![sess[s].file] = d]
        /\ mine' = mine /\ tempName' = tempName /\ dest' = dest
    BY Zenon, <1>1, <1>7, <2>0, <2>2
  <2>6. k = NumChunks[u]
    BY <2>0
  <2> HIDE DEF s, now
  <2>7. QED
    BY Zenon, <1>2, <2>1, <2>2, <2>4, <2>5, <2>6, TurnKeeps
<1>10. CASE /\ sess' = [sess EXCEPT ![s].written = now, ![s].open = FALSE]
            /\ temp' = [temp EXCEPT ![tempName[u]] = Absent]
            /\ uploads' = [uploads EXCEPT ![u] = IF @ = s THEN 0 ELSE @]
            /\ Finish(<<u, k>>, "fail")
  <2> DEFINE r == [sess[s] EXCEPT !.written = now, !.open = FALSE]
  <2>1. r \in Session /\ r.id = u /\ r.file = sess[s].file /\ ~r.open
    <3> HIDE DEF s, now
    <3>1. QED
      BY Zenon, <1>1, <1>2, <1>4 DEF Session
  <2>2. /\ sess' = [sess EXCEPT ![s] = r]
        /\ handler' = [handler EXCEPT ![<<u, k>>] = "done"]
    <3>1. sess \in Seq(Session)
      BY <1>3 DEF UpTypes
    <3>2. handler' = [handler EXCEPT ![<<u, k>>] = "done"]
      BY <1>10 DEF Finish
    <3> HIDE DEF s, now
    <3>3. QED
      BY Zenon, <1>2, <1>10, <3>1, <3>2
  <2>3. s = mine[<<u, k>>]
    OBVIOUS
  <2> HIDE DEF s, now, r
  <2>4. /\ \/ handler[<<u, k>>] = "got" /\ sess[s].open
           \/ handler[<<u, k>>] \in Putting
        /\ \/ contents' = contents
           \/ sess[s].open /\ \E d : contents' = [contents EXCEPT ![sess[s].file] = d]
        /\ \/ dest' = dest
           \/ temp[tempName[u]] # Absent /\ dest' = temp[tempName[u]] /\ DestWhole'
        /\ temp' = [temp EXCEPT ![tempName[u]] = Absent]
        /\ uploads' = [uploads EXCEPT ![u] = IF @ = s THEN 0 ELSE @]
    BY Zenon, <1>1, <1>7, <1>10
  <2>5. QED
    BY Zenon, <1>1, <2>1, <2>2, <2>3, <2>4, DropKeeps
<1>11. QED
  <2>1. "stat" \in Putting /\ "rename" \in Putting
    BY DEF Putting
  <2>2. QED
    BY Zenon, <1>8, <1>9, <1>10, <2>1 DEF ChunkWritten, Offset
\* An existing destination ends the upload, or the move is next.
LEMMA StatKeeps ==
    ASSUME UploadInv, NEW u \in Uploads, NEW k \in 1..NumChunks[u], StatDest(u, k)
    PROVE  UploadInv'
<1>1. handler[<<u, k>>] \in Putting /\ "rename" \in Putting
  BY DEF StatDest, Putting
<1>2. mine' = mine /\ tempName' = tempName
  BY DEF StatDest, requestVars
<1>3. CASE /\ handler' = [handler EXCEPT ![<<u, k>>] = "rename"]
           /\ UNCHANGED <<filesVars, uploads, sess, chunkAck, faulty>>
  <2>1. UNCHANGED <<contents, dest, temp, tempName, uploads, sess, mine>>
    BY <1>2, <1>3 DEF filesVars
  <2>2. QED
    BY Zenon, <1>1, <1>3, <2>1, MoveKeeps
<1>4. CASE abortUpload(mine[<<u, k>>]) /\ Finish(<<u, k>>, "fail")
  BY Zenon, <1>1, <1>2, <1>4, AbortKeeps
<1>5. QED
  BY Zenon, <1>3, <1>4 DEF StatDest

\* Nothing has been sent.
LEMMA InitUpload ==
    ASSUME UploadInit
    PROVE  UploadInv
<1>1. /\ UpTypes /\ dest = Absent /\ Len(sess) = 0 /\ \A t \in Names : temp[t] = Absent
      /\ \A u \in Uploads : uploads[u] = 0
  BY DEF UploadInit, UpTypes, Absent
<1>2. ASSUME NEW u \in Uploads, NEW k \in 1..NumChunks[u]
      PROVE  handler[<<u, k>>] \notin {"got"} \cup Putting
  <2>1. handler[<<u, k>>] = "unsent"
    BY Zenon, ChunkIn DEF UploadInit
  <2>2. QED
    BY <2>1 DEF Putting
<1>3. Refers /\ Final
  BY Zenon, <1>1, <1>2 DEF Refers, Final
<1>4. Named /\ OpenIsMapped
  BY <1>1 DEF Named, OpenIsMapped, Absent
<1>5. DestWhole /\ \A u \in Uploads : Progress(u)
  BY Zenon, <1>1, <1>2 DEF DestWhole, Progress
<1>6. QED
  BY Zenon, <1>1, <1>3, <1>4, <1>5 DEF UploadInv

\* Every step keeps the invariant.
LEMMA StepUpload ==
    ASSUME ChunksAssumption, UploadInv, [UploadNext]_uploadVars
    PROVE  UploadInv'
<1>1. ASSUME UNCHANGED <<filesVars, uploads, sess, handler, mine, requestVars>> PROVE UploadInv'
  <2>1. UNCHANGED <<contents, dest, temp, tempName, uploads, sess, mine>> /\ handler' = handler
    BY <1>1 DEF filesVars, requestVars
  <2>2. DOMAIN handler' = Chunks /\ handler' = [c \in Chunks |-> handler'[c]]
    BY Zenon, <2>1 DEF UploadInv, UpTypes
  <2>3. QED
    BY Zenon, <2>1, <2>2, QuietKeeps
<1>2. ASSUME NEW u \in Uploads, NEW k \in 1..NumChunks[u], Send(u, k) \/ handleChunk(u, k)
      PROVE  UploadInv'
  <2>1. ASSUME NEW l \in {"new", "done"}, handler' = [handler EXCEPT ![<<u, k>>] = l],
               UNCHANGED <<filesVars, uploads, sess, mine, requestVars>>
        PROVE  UploadInv'
    <3>1. UNCHANGED <<contents, dest, temp, tempName, uploads, sess, mine>>
      BY <2>1 DEF filesVars, requestVars
    <3>2. l \notin {"got"} \cup Putting
      BY DEF Putting
    <3>3. QED
      BY Zenon, <2>1, <3>1, <3>2, MoveKeeps
  <2>2. CASE Send(u, k)
    BY Zenon, <2>1, <2>2 DEF Send
  <2>3. CASE GetSession(u, k)
    <3>1. /\ handler' = [handler EXCEPT ![<<u, k>>] = "got"] /\ dest' = dest
          /\ tempName' = tempName
      BY Zenon, <2>3 DEF GetSession, requestVars
    <3>2. CASE /\ uploads[u] # 0 /\ mine' = [mine EXCEPT ![<<u, k>>] = uploads[u]]
               /\ UNCHANGED <<contents, temp, uploads, sess>>
      <4>1. UNCHANGED <<contents, dest, temp, tempName, uploads, sess>>
        BY <3>1, <3>2
      <4>2. QED
        BY Zenon, <3>1, <3>2, <4>1, JoinKeeps
    <3>3. CASE uploads[u] = 0
      <4> DEFINE n == Len(sess) + 1
                 f == IF temp[tempName[u]] # Absent THEN temp[tempName[u]] ELSE n
      <4>1. /\ sess' = Append(sess, [id |-> u, file |-> f, open |-> TRUE, written |-> 0])
            /\ uploads' = [uploads EXCEPT ![u] = n] /\ mine' = [mine EXCEPT ![<<u, k>>] = n]
            /\ contents' = [i \in 1..n |-> IF i \in {f, n} THEN <<>> ELSE contents[i]]
            /\ temp' = [temp EXCEPT ![tempName[u]] = f]
        BY Zenon, <2>3, <3>3 DEF GetSession
      <4>2. n = Len(sess) + 1 /\ f = IF temp[tempName[u]] # Absent THEN temp[tempName[u]] ELSE n
        OBVIOUS
      <4> HIDE DEF n, f
      <4>3. QED
        BY Zenon, <3>1, <3>3, <4>1, <4>2, OpenKeeps
    <3>4. QED
      BY Zenon, <2>3, <3>2, <3>3 DEF GetSession
  <2>4. CASE CreateFails(u, k)
    BY Zenon, <2>1, <2>4 DEF CreateFails, Finish
  <2>5. CASE ChunkClosed(u, k)
    BY Zenon, <2>1, <2>5 DEF ChunkClosed, Finish
  <2>6. CASE ChunkRefused(u, k)
    BY Zenon, <2>6, AbortKeeps DEF ChunkRefused, AtSession, requestVars
  <2>7. CASE ChunkWritten(u, k)
    BY Zenon, ChunksAssumption, <2>7, WrittenKeeps
  <2>8. CASE StatDest(u, k)
    BY Zenon, <2>8, StatKeeps
  <2>9. CASE Rename(u, k)
    BY Zenon, <2>9, RenameKeeps
  <2>10. QED
    BY Zenon, <1>2, <2>2, <2>3, <2>4, <2>5, <2>6, <2>7, <2>8, <2>9 DEF handleChunk
<1>3. QED
  BY Zenon, <1>1, <1>2 DEF UploadNext, Cancel, uploadVars

\* The destination is absent or the whole content of the upload that made the
\* file in place, if that upload's sanitized id is no other's: for any number of
\* uploads to the path, of any numbers of chunks, any of which may share their
\* temp files with each other (host_file_upload.go:53-165).
THEOREM UploadIsAtomic == UploadSpec => []DestWhole
<1>1. UploadInit => UploadInv
  BY InitUpload
<1>2. UploadInv /\ [UploadNext]_uploadVars => UploadInv'
  BY StepUpload, ChunksAssumption
<1>3. UploadInv => DestWhole
  BY DEF UploadInv
<1>4. QED
  BY <1>1, <1>2, <1>3, PTL DEF UploadSpec
=============================================================================
