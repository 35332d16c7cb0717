----------------------------- MODULE TemplateStore -----------------------------
(* adapters/template_store.py: concurrent fetches that share one on-disk cache *)
(* of template bundles, filled from a bucket in which templates are published  *)
(* and withdrawn while fetches run.  Fetchers are handler tasks of one worker, *)
(* or of several that share the disk, which the comments of _publish allow     *)
(* for.  The disk outlives the process; what a fetch returns does not.         *)
EXTENDS Naturals, FiniteSets

CONSTANTS
    Prefixes,   \* template prefixes, each of which is a directory of the cache
    Below,      \* <<p, q>> \in Below: the path of p extends the path of q
    Malformed,  \* prefixes whose manifest.json does not parse
    Rejected,   \* URIs that name no prefix of the bucket: another scheme or
                \* bucket, no prefix, or a path that leaves the cache
    Fetchers,   \* fetches, each made once
    SharedDisk, \* TRUE: the fetches may belong to processes that share the disk
    MaxCrashes  \* bound on process crashes in a behaviour

ASSUME BelowAssumption ==
    /\ Below \subseteq Prefixes \X Prefixes
    /\ \A p \in Prefixes : <<p, p>> \notin Below
    /\ Rejected \cap Prefixes = {}
    /\ \A p, q, r \in Prefixes :
          <<p, q>> \in Below /\ <<q, r>> \in Below => <<p, r>> \in Below
ASSUME BoundAssumption == MaxCrashes \in Nat /\ SharedDisk \in BOOLEAN

VARIABLES
    bucket,   \* objects in the templates bucket
    gone,     \* objects deleted from it
    files,    \* objects in the cache, under the directory of their prefix
    dirs,     \* directories that exist in the cache
    pc, want, todo, tmp, early,  \* per fetch: step, prefix, keys still to get,
                                 \* keys in its temp dir, and whether the
                                 \* manifest was missing when it started
    crashes

vars == <<bucket, gone, files, dirs, pc, want, todo, tmp, early, crashes>>
disk == <<files, dirs>>

-------------------------------------------------------------------------------
(* A template is its manifest and, standing for the entry template and its     *)
(* assets, one more object.                                                    *)
Keys == Prefixes \X {"manifest", "asset"}
Manifest(p) == <<p, "manifest">>

Within(p) == {p} \cup {q \in Prefixes : <<q, p>> \in Below}
Ancestors(p) == {q \in Prefixes : <<p, q>> \in Below}
Under(p) == {k \in Keys : k[1] \in Within(p)}

(* What list_prefix finds: S3 prefixes are strings, so the objects of a        *)
(* template stored below p are among the keys, but (parse_s3_uri ends the      *)
(* prefix with one "/") not those of a template whose name merely begins alike.*)
ListedAlike(p) == bucket
Listed(p) == bucket \cap Under(p)

Ends == {"ok", "notfound", "failed", "crashed"}

TypeOK ==
    /\ bucket \subseteq Keys /\ gone \subseteq Keys /\ files \subseteq Keys
    /\ dirs \subseteq Prefixes
    /\ pc \in [Fetchers -> {"idle", "list", "download", "publish", "rename"} \cup Ends]
    /\ want \in [Fetchers -> Prefixes \cup Rejected]
    /\ todo \in [Fetchers -> SUBSET Keys] /\ tmp \in [Fetchers -> SUBSET Keys]
    /\ \A f \in Fetchers : (todo[f] \cup tmp[f]) \subseteq Under(want[f])
    /\ early \in [Fetchers -> BOOLEAN]
    /\ crashes \in 0..MaxCrashes

(* The cache starts empty; templates are published in full or not at all, and  *)
(* each fetch is for any of them.                                              *)
Init ==
    /\ \E P \in SUBSET Prefixes : bucket = {k \in Keys : k[1] \in P}
    /\ gone = {} /\ files = {} /\ dirs = {} /\ crashes = 0
    /\ pc = [f \in Fetchers |-> "idle"]
    /\ want \in [Fetchers -> Prefixes \cup Rejected]
    /\ todo = [f \in Fetchers |-> {}]
    /\ tmp = [f \in Fetchers |-> {}]
    /\ early = [f \in Fetchers |-> FALSE]

-------------------------------------------------------------------------------
(* The templates bucket (external).  A template is uploaded once, its manifest *)
(* last, and is immutable from then on; objects may be deleted.                *)
Upload(k) ==
    /\ k \notin bucket \cup gone /\ Manifest(k[1]) \notin bucket \cup gone
    /\ k = Manifest(k[1]) => \A j \in Keys : j[1] = k[1] => j \in bucket \cup {k}
    /\ bucket' = bucket \cup {k}
    /\ UNCHANGED <<gone, files, dirs, pc, want, todo, tmp, early, crashes>>

Delete(k) ==
    /\ k \in bucket
    /\ bucket' = bucket \ {k}
    /\ gone' = gone \cup {k}
    /\ UNCHANGED <<files, dirs, pc, want, todo, tmp, early, crashes>>

-------------------------------------------------------------------------------
(* One fetch.                                                                  *)

(* _load_manifest, on the disk as the last step of the fetch leaves it.        *)
Load(p, onDisk) ==
    IF Manifest(p) \in onDisk /\ p \notin Malformed THEN "ok" ELSE "notfound"

(* Only the manifest is looked for: a hit trusts that the rest is there.       *)
CacheHit(p) == Manifest(p) \in files

Start(f) ==
    /\ pc[f] = "idle"
    /\ pc' = [pc EXCEPT ![f] = IF want[f] \in Rejected THEN "notfound"
                               ELSE IF CacheHit(want[f]) THEN Load(want[f], files)
                               ELSE "list"]
    /\ early' = [early EXCEPT ![f] = Manifest(want[f]) \notin bucket]
    /\ UNCHANGED <<bucket, gone, files, dirs, want, todo, tmp, crashes>>

(* Any manifest.json under the prefix will do, one of a nested template too.   *)
HasManifest(keys) == \E k \in keys : k[2] = "manifest"

List(f) ==
    LET keys == Listed(want[f]) IN
    /\ pc[f] = "list"
    /\ todo' = [todo EXCEPT ![f] = IF HasManifest(keys) THEN keys ELSE {}]
    /\ pc' = [pc EXCEPT ![f] = IF HasManifest(keys) THEN "download" ELSE "notfound"]
    /\ UNCHANGED <<bucket, gone, files, dirs, want, tmp, early, crashes>>

(* get_bytes into the temp dir.                                                *)
DownloadKeyInPlace(f, k) ==
    /\ tmp' = tmp
    /\ files' = files \cup {k} /\ dirs' = dirs \cup {k[1]}
DownloadKey(f, k) ==
    /\ tmp' = [tmp EXCEPT ![f] = @ \cup {k}]
    /\ UNCHANGED disk

Download(f) ==
    /\ pc[f] = "download"
    /\ \E k \in todo[f] \cap bucket :
         /\ DownloadKey(f, k)
         /\ todo' = [todo EXCEPT ![f] = @ \ {k}]
         /\ pc' = [pc EXCEPT ![f] = IF todo[f] = {k} THEN "publish" ELSE @]
    /\ UNCHANGED <<bucket, gone, want, early, crashes>>

(* Every way out of _download_prefix removes the temp dir.                     *)
CleanupSkipped(f) == tmp' = tmp /\ todo' = [todo EXCEPT ![f] = {}]
Cleanup(f) == tmp' = [tmp EXCEPT ![f] = {}] /\ todo' = [todo EXCEPT ![f] = {}]

(* What a storage call raises (external), a cancelled task among it, and what  *)
(* _classify_client_error makes of it: the class decides between a permanent   *)
(* TEMPLATE_NOT_FOUND and a retry.                                             *)
KeyErrors == {"NoSuchKey", "404"}
StorageErrors == KeyErrors \cup {"NoSuchBucket", "5xx", "transport", "denied", "cancelled"}

ClassifyByName(e) ==
    CASE e \in KeyErrors \cup {"NoSuchBucket"} -> "missing"
      [] e \in {"5xx", "transport"} -> "transient"
      [] OTHER -> "unclassified"
Classify(e) ==
    CASE e = "NoSuchBucket" -> "transient"
      [] e \in KeyErrors -> "missing"
      [] e \in {"5xx", "transport"} -> "transient"
      [] OTHER -> "unclassified"

(* get_bytes fails: the object was listed, then deleted, or anything else.     *)
GetFails(f) ==
    /\ pc[f] = "download"
    /\ \E k \in todo[f], e \in StorageErrors :
         /\ e \in KeyErrors => k \notin bucket
         /\ pc' = [pc EXCEPT ![f] = IF Classify(e) = "missing" THEN "notfound" ELSE "failed"]
    /\ Cleanup(f)
    /\ UNCHANGED <<bucket, gone, files, dirs, want, early, crashes>>

(* list_prefix fails, which is a retry whatever the class: an absent prefix is *)
(* an empty listing.                                                           *)
ListFails(f) ==
    /\ pc[f] = "list"
    /\ pc' = [pc EXCEPT ![f] = "failed"]
    /\ Cleanup(f)
    /\ UNCHANGED <<bucket, gone, files, dirs, want, early, crashes>>

(* _publish: the directory exists already, whatever is in it ...               *)
KeepTheirs(f) ==
    /\ pc[f] = "publish" /\ want[f] \in dirs
    /\ pc' = [pc EXCEPT ![f] = Load(want[f], files)]
    /\ Cleanup(f)
    /\ UNCHANGED <<bucket, gone, files, dirs, want, early, crashes>>

(* ... or its parents are created and the rename follows ...                   *)
NewDirs(p) == Ancestors(p)
MakeParents(p) == dirs \cup NewDirs(p)

Publish(f) ==
    /\ pc[f] = "publish" /\ want[f] \notin dirs
    /\ dirs' = MakeParents(want[f])
    /\ pc' = [pc EXCEPT ![f] = "rename"]
    /\ UNCHANGED <<bucket, gone, files, want, todo, tmp, early, crashes>>

Occupied(p) ==
    \/ files \cap Under(p) # {}
    \/ \E q \in dirs : <<q, p>> \in Below

(* ... which moves the temp dir into place, onto nothing or onto an empty      *)
(* directory, and fails on one that a concurrent fetch has filled.             *)
Rename(f) ==
    LET p == want[f]
        moved == IF Occupied(p) THEN {} ELSE tmp[f] IN
    /\ pc[f] = "rename"
    /\ files' = files \cup moved
    /\ dirs' = dirs \cup {p} \cup
               {q \in Within(p) : \E k \in moved : k[1] = q \/ <<k[1], q>> \in Below}
    /\ pc' = [pc EXCEPT ![f] = Load(p, files')]
    /\ Cleanup(f)
    /\ UNCHANGED <<bucket, gone, want, early, crashes>>

(* The file system refuses to create the parents or to rename, and no          *)
(* concurrent fetch has made the directory: the error is raised again.         *)
PublishFails(f) ==
    /\ pc[f] \in {"publish", "rename"} /\ want[f] \notin dirs
    /\ pc' = [pc EXCEPT ![f] = "failed"]
    /\ Cleanup(f)
    /\ UNCHANGED <<bucket, gone, files, dirs, want, early, crashes>>

(* The process dies: no finally runs, the disk stays as it is.                 *)
Crash ==
    /\ crashes < MaxCrashes
    /\ crashes' = crashes + 1
    /\ pc' = [f \in Fetchers |-> IF pc[f] \in {"list", "download", "publish", "rename"}
                                 THEN "crashed" ELSE pc[f]]
    /\ UNCHANGED <<bucket, gone, files, dirs, want, todo, tmp, early>>

-------------------------------------------------------------------------------
(* _publish awaits nothing, so within one process no other task runs between   *)
(* its two steps (a crash may still come there).                               *)
MayRun(f) == SharedDisk \/ \A g \in Fetchers \ {f} : pc[g] # "rename"

Fetch(f) ==
    /\ MayRun(f)
    /\ \/ Start(f) \/ List(f) \/ Download(f) \/ GetFails(f) \/ ListFails(f)
       \/ KeepTheirs(f) \/ Publish(f) \/ Rename(f) \/ PublishFails(f)

Next ==
    \/ \E k \in Keys : Upload(k) \/ Delete(k)
    \/ \E f \in Fetchers : Fetch(f)
    \/ Crash

Spec == Init /\ [][Next]_vars

-------------------------------------------------------------------------------
(* "A partial download is never observed as a complete cache entry": wherever  *)
(* the cache holds a manifest, which is all a hit looks for, it holds every    *)
(* object the bucket has of that template, so a render never misses an asset.  *)
HitIsComplete ==
    \A p \in Prefixes : CacheHit(p) => {k \in bucket : k[1] = p} \subseteq files

(* A temp dir outlives its fetch only when the process died under it.          *)
NoLeakWithoutCrash ==
    \A f \in Fetchers : tmp[f] # {} => pc[f] \in {"download", "publish", "rename", "crashed"}

(* TEMPLATE_NOT_FOUND is permanent and acked, so it has to be true: domain/    *)
(* ports.py says it is raised "if the prefix or its manifest.json is absent",  *)
(* and the code adds a manifest that does not parse or an object that vanished *)
(* while it was fetched.  No race, failed fetch or crash may forge one.        *)
NotFoundOnlyIfAbsent ==
    \A f \in Fetchers : pc[f] = "notfound" =>
        early[f] \/ want[f] \in Malformed \/ gone \cap Under(want[f]) # {}
================================================================================
