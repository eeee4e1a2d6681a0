----------------------------- MODULE FileUpload -----------------------------
(***************************************************************************)
(* Host file uploads (src/common/agent/host_file_upload.go).  Every chunk  *)
(* frame is handled by a goroutine of its own (execution/handler.go:443):  *)
(* it gets or makes the session of the upload id under the global lock and *)
(* handles the chunk under the session's lock.  All uploads here go to one *)
(* destination.  A chunk holds one unit, so offsets count chunks.          *)
(*                                                                         *)
(* The temp file of an upload is named after its sanitized id, so uploads  *)
(* may share one.  Files are told from their names: a file is numbered by  *)
(* the session that created it, and a session writes to the file it opened *)
(* wherever that is by then, at an offset of its own.                      *)
(***************************************************************************)
EXTENDS Naturals, Sequences, FiniteSets, FiniteSetsExt

CONSTANTS Uploads,      \* upload ids
          NumChunks,    \* upload id -> its number of chunks
          Names,        \* names of temp files
          MaxSessions   \* bound: sessions made

ASSUME ChunksAssumption == NumChunks \in [Uploads -> Nat]

VARIABLES contents,   \* content of every file a session created
          dest,       \* the file at the destination, or Absent
          temp,       \* name -> the temp file of that name, or Absent
          uploads,    \* uploadSessions: upload id -> session, 0 when absent
          sess,       \* the sessions made: [id, file, open, written]
          handler,    \* <<u, k>> -> program counter of the goroutine for chunk k of u
          mine,       \* <<u, k>> -> the session it got
          chunkAck,   \* <<u, k>> -> "none", "ok" or "fail"
          streamDone,  \* the stream's context is cancelled
          faulty,     \* uploads a file operation failed for
          tempName,   \* upload id -> name of its temp file
          overwrite,  \* upload id -> flag of its requests
          check,      \* upload id -> its final chunk's size and checksum: "size" (no checksum),
                      \* "hash", or "wrong" when one does not match what was sent
          window      \* chunks of an upload the server has in flight

filesVars == <<contents, dest, temp>>
requestVars == <<tempName, overwrite, check, window>>
uploadVars == <<filesVars, uploads, sess, handler, mine, chunkAck, streamDone, faulty, requestVars>>

Chunks == UNION {{u} \X (1 .. NumChunks[u]) : u \in Uploads}
Longest == Max({NumChunks[u] : u \in Uploads})
Content(u) == [k \in 1 .. NumChunks[u] |-> <<u, k>>]
Absent == 0
Hole == <<>>    \* the zeros of a file extended past its end

UploadTypeOK ==
    /\ \A i \in 1 .. Len(sess) : contents[i] \in Seq(Chunks \cup {Hole})
    /\ DOMAIN contents = 1 .. Len(sess) /\ dest \in 0 .. Len(sess)
    /\ temp \in [Names -> 0 .. Len(sess)]
    /\ uploads \in [Uploads -> 0 .. MaxSessions]
    /\ sess \in Seq([id : Uploads, file : 1 .. MaxSessions, open : BOOLEAN, written : 0 .. Longest])
    /\ handler \in [Chunks -> {"unsent", "new", "got", "stat", "rename", "done"}]
    /\ mine \in [Chunks -> 0 .. MaxSessions] /\ chunkAck \in [Chunks -> {"none", "ok", "fail"}]
    /\ streamDone \in BOOLEAN /\ faulty \subseteq Uploads /\ tempName \in [Uploads -> Names]
    /\ overwrite \in [Uploads -> BOOLEAN] /\ check \in [Uploads -> {"size", "hash", "wrong"}]
    /\ window \in {1, Longest}

UploadInit ==
    /\ contents = <<>> /\ dest = Absent /\ temp = [t \in Names |-> Absent]
    /\ uploads = [u \in Uploads |-> 0] /\ sess = <<>>
    /\ handler = [c \in Chunks |-> "unsent"] /\ mine = [c \in Chunks |-> 0]
    /\ chunkAck = [c \in Chunks |-> "none"] /\ streamDone = FALSE /\ faulty = {}
    /\ tempName \in [Uploads -> Names]
    /\ overwrite \in [Uploads -> BOOLEAN] /\ check \in [Uploads -> {"size", "hash", "wrong"}]
    /\ window \in {1, Longest}

-----------------------------------------------------------------------------
InFlight(u) ==
    {k \in 1 .. NumChunks[u] : handler[<<u, k>>] # "unsent" /\ chunkAck[<<u, k>>] = "none"}

\* The server sends chunk k, in order, and stops at a refusal it has seen.
Send(u, k) ==
    /\ handler[<<u, k>>] = "unsent"
    /\ \A j \in 1 .. k - 1 : handler[<<u, j>>] # "unsent" /\ chunkAck[<<u, j>>] # "fail"
    /\ Cardinality(InFlight(u)) < window
    /\ handler' = [handler EXCEPT ![<<u, k>>] = "new"]
    /\ UNCHANGED <<filesVars, uploads, sess, mine, chunkAck, streamDone, faulty, requestVars>>

\* The goroutine of chunk c ends with an answer.
Finish(c, a) ==
    /\ handler' = [handler EXCEPT ![c] = "done"]
    /\ chunkAck' = [chunkAck EXCEPT ![c] = a]

\* Under uploadSessionsMu: the session of the id, or a new one.  Opening the
\* temp file empties one of that name, which another upload may be writing to.
GetSession(u, k) ==
    LET n == Len(sess) + 1
        t == tempName[u]
        f == IF temp[t] # Absent THEN temp[t] ELSE n
    IN
    /\ handler[<<u, k>>] = "new"
    /\ handler' = [handler EXCEPT ![<<u, k>>] = "got"]
    /\ \/ /\ uploads[u] # 0
          /\ mine' = [mine EXCEPT ![<<u, k>>] = uploads[u]]
          /\ UNCHANGED <<contents, temp, uploads, sess>>
       \/ /\ uploads[u] = 0 /\ Len(sess) < MaxSessions
          /\ sess' = Append(sess, [id |-> u, file |-> f, open |-> TRUE, written |-> 0])
          /\ uploads' = [uploads EXCEPT ![u] = n]
          /\ mine' = [mine EXCEPT ![<<u, k>>] = n]
          /\ contents' = [i \in 1 .. n |-> IF i \in {f, n} THEN <<>> ELSE contents[i]]
          /\ temp' = [temp EXCEPT ![t] = f]
    /\ UNCHANGED <<dest, chunkAck, streamDone, faulty, requestVars>>

\* The temp file cannot be created: refused, no session.
CreateFails(u, k) ==
    /\ handler[<<u, k>>] = "new" /\ uploads[u] = 0
    /\ Finish(<<u, k>>, "fail")
    /\ faulty' = faulty \cup {u}
    /\ UNCHANGED <<filesVars, uploads, sess, mine, streamDone, requestVars>>

\* Nobody holds sess.mu: only the goroutine of a final chunk keeps it over steps.
SessFree(s) == \A c \in Chunks : mine[c] = s => handler[c] \notin {"stat", "rename"}

\* abortUpload and dropUploadSession: the file is closed, the name removed, and
\* the id forgotten if it still belongs to this session.  Until the drop others still
\* get the closed session, as they do before the abort.
abortUpload(s) ==
    /\ sess' = [sess EXCEPT ![s].open = FALSE]
    /\ temp' = [temp EXCEPT ![tempName[sess[s].id]] = Absent]
    /\ uploads' = [uploads EXCEPT ![sess[s].id] = IF @ = s THEN 0 ELSE @]
    /\ UNCHANGED <<contents, dest>>

\* A chunk at the session's lock.
AtSession(u, k) == handler[<<u, k>>] = "got" /\ SessFree(mine[<<u, k>>])

\* A session that another chunk closed.
ChunkClosed(u, k) ==
    /\ AtSession(u, k) /\ ~sess[mine[<<u, k>>]].open
    /\ Finish(<<u, k>>, "fail")
    /\ UNCHANGED <<filesVars, uploads, sess, mine, streamDone, faulty, requestVars>>

\* Mutant: a chunk goes where its request says.
Offset_ofRequest(u, k) == k - 1

\* A chunk goes after what its session has written, and must belong there.
Offset(u, k) == sess[mine[<<u, k>>]].written
OffsetOk(u, k) == k - 1 = Offset(u, k)

\* A wrong offset, a cancelled context, or a file operation that fails (write,
\* read for the checksum, close).
ChunkRefused(u, k) ==
    /\ AtSession(u, k) /\ sess[mine[<<u, k>>]].open
    /\ \/ ~OffsetOk(u, k) /\ faulty' = faulty
       \/ OffsetOk(u, k) /\ streamDone /\ faulty' = faulty
       \/ OffsetOk(u, k) /\ faulty' = faulty \cup {u}
    /\ abortUpload(mine[<<u, k>>])
    /\ Finish(<<u, k>>, "fail")
    /\ UNCHANGED <<mine, streamDone, requestVars>>

\* A write of unit c at offset w of the content d, past whose end are zeros.
WriteAt(d, w, c) ==
    [i \in DOMAIN d \cup 1 .. w + 1 |->
        IF i = w + 1 THEN c ELSE IF i \in DOMAIN d THEN d[i] ELSE Hole]

\* The unit is written.  A chunk that is not final is done; the final one checks
\* the size written by the session, and the checksum of the file that has the
\* temp name, and closes its own.
ChunkWritten(u, k) ==
    LET s == mine[<<u, k>>]
        f == sess[s].file
        t == tempName[u]
        now == Offset(u, k) + 1
        good == /\ check[u] # "wrong" /\ now = NumChunks[u]
                /\ check[u] = "hash" => temp[t] # Absent /\ contents'[temp[t]] = Content(u)
    IN
    /\ AtSession(u, k) /\ sess[s].open /\ OffsetOk(u, k) /\ ~streamDone
    /\ contents' = [contents EXCEPT ![f] = WriteAt(@, Offset(u, k), <<u, k>>)]
    /\ \/ /\ k < NumChunks[u]
          /\ sess' = [sess EXCEPT ![s].written = now]
          /\ Finish(<<u, k>>, "ok")
          /\ UNCHANGED <<temp, uploads>>
       \/ /\ k = NumChunks[u] /\ good
          /\ sess' = [sess EXCEPT ![s].written = now, ![s].open = FALSE]
          /\ handler' = [handler EXCEPT ![<<u, k>>] = IF overwrite[u] THEN "rename" ELSE "stat"]
          /\ UNCHANGED <<temp, uploads, chunkAck>>
       \/ /\ k = NumChunks[u] /\ ~good
          /\ sess' = [sess EXCEPT ![s].written = now, ![s].open = FALSE]
          /\ temp' = [temp EXCEPT ![t] = Absent]
          /\ uploads' = [uploads EXCEPT ![u] = IF @ = s THEN 0 ELSE @]
          /\ Finish(<<u, k>>, "fail")
    /\ UNCHANGED <<dest, mine, streamDone, faulty, requestVars>>

\* Without overwrite an existing destination (or a failing stat) ends the upload.
StatDest(u, k) ==
    /\ handler[<<u, k>>] = "stat"
    /\ \/ /\ dest = Absent
          /\ handler' = [handler EXCEPT ![<<u, k>>] = "rename"]
          /\ UNCHANGED <<filesVars, uploads, sess, chunkAck, faulty>>
       \/ /\ faulty' \in {faulty \cup {u}} \cup (IF dest # Absent THEN {faulty} ELSE {})
          /\ abortUpload(mine[<<u, k>>])
          /\ Finish(<<u, k>>, "fail")
    /\ UNCHANGED <<mine, streamDone, requestVars>>

\* The rename puts the file of the temp name in place, or fails and removes it.
Rename(u, k) ==
    /\ handler[<<u, k>>] = "rename"
    /\ sess' = sess
    /\ temp' = [temp EXCEPT ![tempName[u]] = Absent]
    /\ uploads' = [uploads EXCEPT ![u] = IF @ = mine[<<u, k>>] THEN 0 ELSE @]
    /\ \/ /\ temp[tempName[u]] # Absent /\ dest' = temp[tempName[u]]
          /\ Finish(<<u, k>>, "ok") /\ faulty' = faulty
       \/ Finish(<<u, k>>, "fail") /\ faulty' = faulty \cup {u} /\ dest' = dest
    /\ UNCHANGED <<contents, mine, streamDone, requestVars>>

\* The stream ends; handlers that are under way see it at their next check.
Cancel ==
    /\ ~streamDone
    /\ streamDone' = TRUE
    /\ UNCHANGED <<filesVars, uploads, sess, handler, mine, chunkAck, faulty, requestVars>>

handleChunk(u, k) ==
    \/ GetSession(u, k) \/ CreateFails(u, k) \/ ChunkClosed(u, k)
    \/ ChunkRefused(u, k) \/ ChunkWritten(u, k) \/ StatDest(u, k) \/ Rename(u, k)

UploadNext ==
    Cancel \/ \E u \in Uploads : \E k \in 1 .. NumChunks[u] : Send(u, k) \/ handleChunk(u, k)

UploadSpec == UploadInit /\ [][UploadNext]_uploadVars

-----------------------------------------------------------------------------
\* No other upload has this one's temp file.
Alone(u) == \A v \in Uploads : tempName[v] = tempName[u] => v = u

\* The destination is never half of an upload or a mixture: it is absent or the
\* whole content of the upload that made the file, with any order of the chunk
\* goroutines, aborts, and other uploads to the path that write into each
\* other's temp file (host_file_upload.go:91-95, 122-165).  It says nothing of an
\* upload whose sanitized id is also another's: sess.written counts what it
\* wrote and not what is in the file (host_file_upload.go:70-71, 122, 263-276).
DestWhole ==
    dest # Absent /\ Alone(sess[dest].id) => contents[dest] = Content(sess[dest].id)

\* A temp file belongs to a session chunks can still reach: what failed or was
\* abandoned half way leaves none that nobody would ever end, as long as the
\* server waits for each answer (host_file_upload.go:43-45, 170-185).
FailedLeavesNoTemp ==
    window = 1 =>
        \A t \in Names : temp[t] # Absent =>
            \E u \in Uploads :
                /\ tempName[u] = t
                /\ \/ InFlight(u) # {}
                   \/ uploads[u] # 0 /\ \A k \in 1 .. NumChunks[u] : chunkAck[<<u, k>>] # "fail"

\* An upload id never stays with a session that accepts nothing: the next chunk
\* under it finds an open session or makes one, unless the final chunk is being
\* put in place at that moment (host_file_upload.go:85-89, 179-185).
MappedIsUsable ==
    \A u \in Uploads :
        uploads[u] # 0 => sess[uploads[u]].open \/ ~SessFree(uploads[u])

\* What the frame router says (execution/handler.go:444-445: "the ack is
\* correlated by upload_id so the server can pipeline the next chunk"): chunks
\* sent in order are accepted when nothing failed, whatever is in flight.
PipelinedIsAccepted ==
    \A u \in Uploads :
        (u \notin faulty /\ ~streamDone /\ Alone(u) /\ overwrite[u] /\ check[u] # "wrong") =>
            \A k \in 1 .. NumChunks[u] : chunkAck[<<u, k>>] # "fail"
=============================================================================
