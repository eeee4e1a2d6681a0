---------------------------- MODULE ResourceCache ----------------------------
(***************************************************************************)
(* execution/editorconfig.go: the node-wide cache of skill and plugin      *)
(* archives.  fetchArchive installs a resource from the cache when its     *)
(* ".ready" marker is there; otherwise it downloads the archive, extracts  *)
(* it into the cache entry by entry, writes the marker and copies.         *)
(* Provisioning goroutines, configuration frames and environment syncs     *)
(* all fetch, without a lock: one cache key, shared by Fetchers.           *)
(***************************************************************************)
EXTENDS Naturals, FiniteSets

CONSTANTS
    Fetchers,       \* goroutines that fetch the resource
    Entries         \* entries of the archive: 1..Entries

ASSUME EntriesAssumption == Entries \in Nat

VARIABLES
    dir,            \* the key's directory exists
    content,        \* entries in its content directory
    ready,          \* its marker
    cachePc,        \* where each fetcher is in fetchArchive
    next,           \* the entry a fetcher extracts next
    copied          \* what a fetcher installed

cacheVars == <<dir, content, ready, cachePc, next, copied>>
Archive == 1..Entries

\* The state's shape.
CacheTypeOK ==
    /\ dir \in BOOLEAN /\ ready \in BOOLEAN
    /\ content \subseteq Archive
    /\ cachePc \in [Fetchers -> {"idle", "stat", "mkdir", "extract", "drop",
                            "mark", "copy", "ok", "failed"}]
    /\ next \in [Fetchers -> 1..(Entries + 1)]
    /\ copied \in [Fetchers -> SUBSET Archive]

CacheInit ==
    /\ dir = FALSE /\ content = {} /\ ready = FALSE
    /\ cachePc = [f \in Fetchers |-> "idle"]
    /\ next = [f \in Fetchers |-> 1]
    /\ copied = [f \in Fetchers |-> {}]

CacheGoto(f, l) == cachePc' = [cachePc EXCEPT ![f] = l]

\* fetchResource of an archive source: the destination is removed first.
fetchResource(f) ==
    /\ cachePc[f] \in {"idle", "ok", "failed"}
    /\ copied' = [copied EXCEPT ![f] = {}]
    /\ CacheGoto(f, "stat")
    /\ UNCHANGED <<dir, content, ready, next>>

\* Mutant: a content directory counts as a hit.
Stat_contentDir(f) ==
    /\ cachePc[f] = "stat"
    /\ CacheGoto(f, IF dir THEN "copy" ELSE "mkdir")
    /\ UNCHANGED <<dir, content, ready, next, copied>>

\* A hit is judged by the marker.
Stat(f) ==
    /\ cachePc[f] = "stat"
    /\ CacheGoto(f, IF ready THEN "copy" ELSE "mkdir")
    /\ UNCHANGED <<dir, content, ready, next, copied>>

\* The content directory, and the request whose answer is extracted into it.
DownloadEntry(f) ==
    /\ cachePc[f] = "mkdir"
    /\ dir' = TRUE
    /\ next' = [next EXCEPT ![f] = 1]
    /\ CacheGoto(f, "extract") \/ CacheGoto(f, "drop")
    /\ UNCHANGED <<content, ready, copied>>

\* One entry, its directories created as needed; the transfer may break.
extractTarGz(f) ==
    /\ cachePc[f] = "extract"
    /\ \/ /\ next[f] <= Entries
          /\ content' = content \cup {next[f]} /\ dir' = TRUE
          /\ next' = [next EXCEPT ![f] = @ + 1]
          /\ UNCHANGED cachePc
       \/ next[f] > Entries /\ CacheGoto(f, "mark") /\ UNCHANGED <<dir, content, next>>
       \/ CacheGoto(f, "drop") /\ UNCHANGED <<dir, content, next>>
    /\ UNCHANGED <<ready, copied>>

\* After a failure the key's directory is removed, so that nothing half done
\* is hit.
Drop(f) ==
    /\ cachePc[f] = "drop"
    /\ dir' = FALSE /\ content' = {} /\ ready' = FALSE
    /\ CacheGoto(f, "failed")
    /\ UNCHANGED <<next, copied>>

\* The marker; without its directory it cannot be written.
Mark(f) ==
    /\ cachePc[f] = "mark"
    /\ ready' = dir
    /\ CacheGoto(f, IF dir THEN "copy" ELSE "failed")
    /\ UNCHANGED <<dir, content, next, copied>>

\* copyTree of what is there.
Copy(f) ==
    /\ cachePc[f] = "copy"
    /\ copied' = [copied EXCEPT ![f] = content]
    /\ CacheGoto(f, IF dir THEN "ok" ELSE "failed")
    /\ UNCHANGED <<dir, content, ready, next>>

\* The process ends and starts again: the cache stays as it is.
CacheRestart ==
    /\ cachePc' = [f \in Fetchers |-> "idle"]
    /\ copied' = [f \in Fetchers |-> {}]
    /\ UNCHANGED <<dir, content, ready, next>>

CacheNext ==
    \/ \E f \in Fetchers :
         \/ fetchResource(f) \/ Stat(f) \/ DownloadEntry(f) \/ extractTarGz(f)
         \/ Drop(f) \/ Mark(f) \/ Copy(f)
    \/ CacheRestart

CacheSpec == CacheInit /\ [][CacheNext]_cacheVars

-----------------------------------------------------------------------------
\* A fetch that succeeds installs the whole resource, also after a download
\* that broke off or a process that ended in the middle of one.
FetchedIsWhole == \A f \in Fetchers : cachePc[f] = "ok" => copied[f] = Archive

\* editorconfig.go:976: a failed download leaves no half-made entry that a later
\* fetch would take for a hit.
ReadyIsWhole == ready => content = Archive
=============================================================================
