------------------------- MODULE TemplateStoreProofs -------------------------
(* The cache of TemplateStore, for any number of fetches, templates, nestings  *)
(* and crashes.  What makes a hit safe is that a set of objects is "complete"  *)
(* when it holds, with the manifest of a template, every object the bucket has *)
(* of that template; a listing is complete, a union of complete sets is        *)
(* complete, and the bucket adds nothing to a template that has a manifest.    *)
EXTENDS TemplateStore, TLAPS

Complete(S) ==
    \A p \in Prefixes : Manifest(p) \in S => {k \in bucket : k[1] = p} \subseteq S

Held(f) == todo[f] \cup tmp[f]
Busy == {"list", "download", "publish", "rename"}

(* Whatever was listed, fetched or cached was once in the bucket.              *)
WasUploaded ==
    /\ files \subseteq bucket \cup gone
    /\ \A f \in Fetchers : Held(f) \subseteq bucket \cup gone

HeldIsComplete == \A f \in Fetchers : Complete(Held(f))

(* A temp dir that is published has every key of the listing.                  *)
AllFetched == \A f \in Fetchers : pc[f] \in {"publish", "rename"} => todo[f] = {}

FetchesAPrefix == \A f \in Fetchers : pc[f] \in Busy => want[f] \in Prefixes

SeenAtStart ==
    \A f \in Fetchers :
        pc[f] # "idle" /\ ~early[f] => Manifest(want[f]) \in bucket \cup gone

(* A template that is stored neither below another nor above one.              *)
Alone(p) == \A q \in Prefixes : <<p, q>> \notin Below /\ <<q, p>> \notin Below

(* The listing of such a template had the manifest of that very template ...   *)
AloneHasManifest ==
    \A f \in Fetchers :
        pc[f] \in Busy \ {"list"} /\ Alone(want[f]) => Manifest(want[f]) \in Held(f)

(* ... so its directory, once there, has it too.                               *)
AloneDirHasManifest ==
    \A p \in Prefixes :
        Alone(p) /\ (p \in dirs \/ files \cap Under(p) # {}) => Manifest(p) \in files

(* NotFoundOnlyIfAbsent of the fetches of such templates.                      *)
NotFoundIsTrueIfAlone ==
    \A f \in Fetchers : pc[f] = "notfound" /\ Alone(want[f]) =>
        early[f] \/ want[f] \in Malformed \/ gone \cap Under(want[f]) # {}

IndInv ==
    /\ TypeOK
    /\ NoLeakWithoutCrash
    /\ WasUploaded
    /\ HeldIsComplete
    /\ HitIsComplete
    /\ AllFetched
    /\ FetchesAPrefix
    /\ SeenAtStart
    /\ AloneHasManifest
    /\ AloneDirHasManifest
    /\ NotFoundIsTrueIfAlone
-------------------------------------------------------------------------------
(* The manifest of a template is one of its objects.                           *)
LEMMA OwnManifest ==
    ASSUME NEW p \in Prefixes
    PROVE  Manifest(p) \in Keys /\ Manifest(p) \in Under(p) /\ Manifest(p)[1] = p
  BY DEF Manifest, Keys, Under, Within

(* Below an unnested template there is only what is its own.                   *)
LEMMA AloneUnder ==
    ASSUME NEW p \in Prefixes, NEW q \in Prefixes, Alone(p) \/ Alone(q),
           NEW k \in Under(q), k[1] = p
    PROVE  p = q
  BY DEF Alone, Under, Within, Keys

(* The cache starts empty.                                                     *)
LEMMA InitInv == Init => IndInv
  <1> SUFFICES ASSUME Init PROVE IndInv
    OBVIOUS
  <1>1. TypeOK
    BY BoundAssumption DEF Init, TypeOK
  <1>2. NoLeakWithoutCrash /\ WasUploaded /\ AllFetched
    BY DEF Init, NoLeakWithoutCrash, WasUploaded, Held, AllFetched
  <1>3. HeldIsComplete /\ HitIsComplete
    BY DEF Init, HeldIsComplete, Held, Complete, HitIsComplete, CacheHit
  <1>4. FetchesAPrefix /\ SeenAtStart /\ AloneHasManifest /\ AloneDirHasManifest
        /\ NotFoundIsTrueIfAlone
    BY DEF Init, FetchesAPrefix, SeenAtStart, AloneHasManifest, Busy,
       AloneDirHasManifest, NotFoundIsTrueIfAlone
  <1> QED
    BY <1>1, <1>2, <1>3, <1>4 DEF IndInv

(* The state keeps its shape.                                                  *)
LEMMA TypeInv ==
    ASSUME IndInv, [Next]_vars
    PROVE  TypeOK'
PROOF
  <1> USE DEF IndInv
  <1>1. ASSUME NEW k \in Keys, Upload(k)  PROVE TypeOK'
    BY <1>1 DEF TypeOK, Upload
  <1>2. ASSUME NEW k \in Keys, Delete(k)  PROVE TypeOK'
    BY <1>2 DEF TypeOK, Delete
  <1>3. ASSUME NEW f \in Fetchers, Start(f)  PROVE TypeOK'
    BY <1>3 DEF TypeOK, Ends, Load, Start
  <1>4. ASSUME NEW f \in Fetchers, List(f)  PROVE TypeOK'
    <2>1. todo' \in [Fetchers -> SUBSET Keys]
          /\ \A g \in Fetchers : todo'[g] \cup tmp'[g] \subseteq Under(want'[g])
      BY <1>4 DEF TypeOK, List, Listed, Under
    <2>2. pc' \in [Fetchers -> {"idle", "list", "download", "publish", "rename"} \cup Ends]
      BY <1>4 DEF TypeOK, List, Ends
    <2> QED
      BY <1>4, <2>1, <2>2 DEF TypeOK, List
  <1>5. ASSUME NEW f \in Fetchers, Download(f)  PROVE TypeOK'
    BY <1>5 DEF TypeOK, DownloadKey, disk, Download
  <1>6. ASSUME NEW f \in Fetchers, GetFails(f)  PROVE TypeOK'
    BY <1>6 DEF TypeOK, Ends, Cleanup, GetFails
  <1>7. ASSUME NEW f \in Fetchers, ListFails(f)  PROVE TypeOK'
    BY <1>7 DEF TypeOK, Ends, Cleanup, ListFails
  <1>8. ASSUME NEW f \in Fetchers, KeepTheirs(f)  PROVE TypeOK'
    BY <1>8 DEF TypeOK, Ends, Cleanup, Load, KeepTheirs
  <1>9. ASSUME NEW f \in Fetchers, Publish(f)  PROVE TypeOK'
    BY <1>9 DEF TypeOK, MakeParents, NewDirs, Ancestors, Publish
  <1>10. ASSUME NEW f \in Fetchers, Rename(f)  PROVE TypeOK'
    <2>1. files' \subseteq Keys
      BY <1>10 DEF TypeOK, Rename
    <2>2. want[f] \in Prefixes
      BY <1>10 DEF FetchesAPrefix, Busy, Rename
    <2>3. dirs' \subseteq Prefixes
      BY <1>10, <2>2 DEF TypeOK, Rename, Within
    <2>4. pc' \in [Fetchers -> {"idle", "list", "download", "publish", "rename"} \cup Ends]
      BY <1>10 DEF TypeOK, Rename, Load, Ends
    <2>5. /\ todo' \in [Fetchers -> SUBSET Keys] /\ tmp' \in [Fetchers -> SUBSET Keys]
          /\ \A g \in Fetchers : (todo'[g] \cup tmp'[g]) \subseteq Under(want'[g])
      BY <1>10 DEF TypeOK, Rename, Cleanup
    <2> QED
      BY <1>10, <2>3, <2>4, <2>5 DEF TypeOK, Rename
  <1>11. CASE Crash
    <2>1. crashes' \in 0..MaxCrashes
      BY <1>11, BoundAssumption DEF TypeOK, Crash
    <2> QED
      BY <1>11, <2>1 DEF TypeOK, Ends, Crash
  <1>12. CASE UNCHANGED vars
    BY <1>12 DEF TypeOK, vars
  <1>13. ASSUME NEW f \in Fetchers, PublishFails(f)  PROVE TypeOK'
    BY <1>13 DEF TypeOK, Ends, Cleanup, PublishFails
  <1> QED
    BY <1>1, <1>2, <1>3, <1>4, <1>5, <1>6, <1>7, <1>8, <1>9, <1>10, <1>11,
       <1>12, <1>13 DEF Next, Fetch

(* Every end of a fetch but a crash removes its temp dir.                      *)
LEMMA TempDirs ==
    ASSUME IndInv, [Next]_vars
    PROVE  NoLeakWithoutCrash'
PROOF
  <1> USE DEF IndInv
  <1>1. ASSUME NEW k \in Keys, Upload(k)  PROVE NoLeakWithoutCrash'
    BY <1>1 DEF NoLeakWithoutCrash, Upload
  <1>2. ASSUME NEW k \in Keys, Delete(k)  PROVE NoLeakWithoutCrash'
    BY <1>2 DEF NoLeakWithoutCrash, Delete
  <1>3. ASSUME NEW f \in Fetchers, Start(f)  PROVE NoLeakWithoutCrash'
    BY <1>3 DEF NoLeakWithoutCrash, Start
  <1>4. ASSUME NEW f \in Fetchers, List(f)  PROVE NoLeakWithoutCrash'
    BY <1>4 DEF NoLeakWithoutCrash, List
  <1>5. ASSUME NEW f \in Fetchers, Download(f)  PROVE NoLeakWithoutCrash'
    BY <1>5 DEF NoLeakWithoutCrash, DownloadKey, Download
  <1>6. ASSUME NEW f \in Fetchers, GetFails(f)  PROVE NoLeakWithoutCrash'
    BY <1>6 DEF NoLeakWithoutCrash, TypeOK, Cleanup, GetFails
  <1>7. ASSUME NEW f \in Fetchers, ListFails(f)  PROVE NoLeakWithoutCrash'
    BY <1>7 DEF NoLeakWithoutCrash, Cleanup, ListFails
  <1>8. ASSUME NEW f \in Fetchers, KeepTheirs(f)  PROVE NoLeakWithoutCrash'
    BY <1>8 DEF NoLeakWithoutCrash, TypeOK, Cleanup, KeepTheirs
  <1>9. ASSUME NEW f \in Fetchers, Publish(f)  PROVE NoLeakWithoutCrash'
    BY <1>9 DEF NoLeakWithoutCrash, Publish
  <1>10. ASSUME NEW f \in Fetchers, Rename(f)  PROVE NoLeakWithoutCrash'
    BY <1>10 DEF NoLeakWithoutCrash, TypeOK, Cleanup, Rename
  <1>11. CASE Crash
    BY <1>11 DEF NoLeakWithoutCrash, Crash
  <1>12. CASE UNCHANGED vars
    BY <1>12 DEF NoLeakWithoutCrash, vars
  <1>13. ASSUME NEW f \in Fetchers, PublishFails(f)  PROVE NoLeakWithoutCrash'
    BY <1>13 DEF NoLeakWithoutCrash, TypeOK, Cleanup, PublishFails
  <1> QED
    BY <1>1, <1>2, <1>3, <1>4, <1>5, <1>6, <1>7, <1>8, <1>9, <1>10, <1>11,
       <1>12, <1>13 DEF Next, Fetch

(* A fetch takes what it has from the bucket.                                  *)
LEMMA Uploaded ==
    ASSUME IndInv, [Next]_vars
    PROVE  WasUploaded'
PROOF
  <1> USE DEF IndInv
  <1>1. ASSUME NEW k \in Keys, Upload(k)  PROVE WasUploaded'
    BY <1>1 DEF WasUploaded, Held, Upload
  <1>2. ASSUME NEW k \in Keys, Delete(k)  PROVE WasUploaded'
    BY <1>2 DEF WasUploaded, Held, Delete
  <1>3. ASSUME NEW f \in Fetchers, Start(f)  PROVE WasUploaded'
    BY <1>3 DEF WasUploaded, Held, Start
  <1>4. ASSUME NEW f \in Fetchers, List(f)  PROVE WasUploaded'
    BY <1>4 DEF WasUploaded, Held, Listed, List
  <1>5. ASSUME NEW f \in Fetchers, Download(f)  PROVE WasUploaded'
    BY <1>5 DEF WasUploaded, Held, DownloadKey, disk, Download
  <1>6. ASSUME NEW f \in Fetchers, GetFails(f)  PROVE WasUploaded'
    BY <1>6 DEF WasUploaded, Held, Cleanup, GetFails
  <1>7. ASSUME NEW f \in Fetchers, ListFails(f)  PROVE WasUploaded'
    BY <1>7 DEF WasUploaded, Held, Cleanup, ListFails
  <1>8. ASSUME NEW f \in Fetchers, KeepTheirs(f)  PROVE WasUploaded'
    BY <1>8 DEF WasUploaded, Held, Cleanup, KeepTheirs
  <1>9. ASSUME NEW f \in Fetchers, Publish(f)  PROVE WasUploaded'
    BY <1>9 DEF WasUploaded, Held, Publish
  <1>10. ASSUME NEW f \in Fetchers, Rename(f)  PROVE WasUploaded'
    BY <1>10 DEF WasUploaded, Held, Cleanup, Rename
  <1>11. CASE Crash
    BY <1>11 DEF WasUploaded, Held, Crash
  <1>12. CASE UNCHANGED vars
    BY <1>12 DEF WasUploaded, Held, vars
  <1>13. ASSUME NEW f \in Fetchers, PublishFails(f)  PROVE WasUploaded'
    BY <1>13 DEF WasUploaded, Held, Cleanup, PublishFails
  <1> QED
    BY <1>1, <1>2, <1>3, <1>4, <1>5, <1>6, <1>7, <1>8, <1>9, <1>10, <1>11,
       <1>12, <1>13 DEF Next, Fetch

(* A listing is complete, a download moves a key from one part of what is      *)
(* held to the other, and an upload finds no manifest of its template held.    *)
LEMMA HeldComplete ==
    ASSUME IndInv, [Next]_vars
    PROVE  HeldIsComplete'
PROOF
  <1> USE DEF IndInv
  <1>1. ASSUME NEW k \in Keys, Upload(k)  PROVE HeldIsComplete'
    BY <1>1 DEF HeldIsComplete, Complete, Held, WasUploaded, Upload
  <1>2. ASSUME NEW k \in Keys, Delete(k)  PROVE HeldIsComplete'
    BY <1>2 DEF HeldIsComplete, Complete, Held, Delete
  <1>3. ASSUME NEW f \in Fetchers, Start(f)  PROVE HeldIsComplete'
    BY <1>3 DEF HeldIsComplete, Complete, Held, Start
  <1>4. ASSUME NEW f \in Fetchers, List(f)  PROVE HeldIsComplete'
    <2>1. \A k \in bucket : k \in Keys
      BY DEF TypeOK
    <2>2. Complete(Listed(want[f])) /\ Complete({})
      BY <2>1 DEF Complete, Listed, Under, Manifest
    <2>3. /\ tmp' = tmp /\ bucket' = bucket /\ tmp[f] = {}
          /\ todo'[f] \in {Listed(want[f]), {}}
          /\ \A g \in Fetchers : g # f => todo'[g] = todo[g]
      BY <1>4 DEF List, TypeOK, NoLeakWithoutCrash
    <2> QED
      BY <2>2, <2>3 DEF HeldIsComplete, Held, Complete
  <1>5. ASSUME NEW f \in Fetchers, Download(f)  PROVE HeldIsComplete'
    BY <1>5 DEF HeldIsComplete, Complete, Held, TypeOK, DownloadKey, Download
  <1>6. ASSUME NEW f \in Fetchers, GetFails(f)  PROVE HeldIsComplete'
    BY <1>6 DEF HeldIsComplete, Complete, Held, TypeOK, Cleanup, GetFails
  <1>7. ASSUME NEW f \in Fetchers, ListFails(f)  PROVE HeldIsComplete'
    BY <1>7 DEF HeldIsComplete, Complete, Held, TypeOK, Cleanup, ListFails
  <1>8. ASSUME NEW f \in Fetchers, KeepTheirs(f)  PROVE HeldIsComplete'
    BY <1>8 DEF HeldIsComplete, Complete, Held, TypeOK, Cleanup, KeepTheirs
  <1>9. ASSUME NEW f \in Fetchers, Publish(f)  PROVE HeldIsComplete'
    BY <1>9 DEF HeldIsComplete, Complete, Held, Publish
  <1>10. ASSUME NEW f \in Fetchers, Rename(f)  PROVE HeldIsComplete'
    BY <1>10 DEF HeldIsComplete, Complete, Held, TypeOK, Cleanup, Rename
  <1>11. CASE Crash
    BY <1>11 DEF HeldIsComplete, Complete, Held, Crash
  <1>12. CASE UNCHANGED vars
    BY <1>12 DEF HeldIsComplete, Complete, Held, vars
  <1>13. ASSUME NEW f \in Fetchers, PublishFails(f)  PROVE HeldIsComplete'
    BY <1>13 DEF HeldIsComplete, Complete, Held, TypeOK, Cleanup, PublishFails
  <1> QED
    BY <1>1, <1>2, <1>3, <1>4, <1>5, <1>6, <1>7, <1>8, <1>9, <1>10, <1>11,
       <1>12, <1>13 DEF Next, Fetch

(* The last key is downloaded before the publish.                              *)
LEMMA Fetched ==
    ASSUME IndInv, [Next]_vars
    PROVE  AllFetched'
PROOF
  <1> USE DEF IndInv
  <1>1. ASSUME NEW k \in Keys, Upload(k)  PROVE AllFetched'
    BY <1>1 DEF AllFetched, Upload
  <1>2. ASSUME NEW k \in Keys, Delete(k)  PROVE AllFetched'
    BY <1>2 DEF AllFetched, Delete
  <1>3. ASSUME NEW f \in Fetchers, Start(f)  PROVE AllFetched'
    BY <1>3 DEF AllFetched, Load, Start
  <1>4. ASSUME NEW f \in Fetchers, List(f)  PROVE AllFetched'
    BY <1>4 DEF AllFetched, List
  <1>5. ASSUME NEW f \in Fetchers, Download(f)  PROVE AllFetched'
    BY <1>5 DEF AllFetched, TypeOK, Download
  <1>6. ASSUME NEW f \in Fetchers, GetFails(f)  PROVE AllFetched'
    BY <1>6 DEF AllFetched, Cleanup, GetFails
  <1>7. ASSUME NEW f \in Fetchers, ListFails(f)  PROVE AllFetched'
    BY <1>7 DEF AllFetched, Cleanup, ListFails
  <1>8. ASSUME NEW f \in Fetchers, KeepTheirs(f)  PROVE AllFetched'
    BY <1>8 DEF AllFetched, Cleanup, KeepTheirs
  <1>9. ASSUME NEW f \in Fetchers, Publish(f)  PROVE AllFetched'
    BY <1>9 DEF AllFetched, Publish
  <1>10. ASSUME NEW f \in Fetchers, Rename(f)  PROVE AllFetched'
    BY <1>10 DEF AllFetched, Cleanup, Rename
  <1>11. CASE Crash
    BY <1>11 DEF AllFetched, Crash
  <1>12. CASE UNCHANGED vars
    BY <1>12 DEF AllFetched, vars
  <1>13. ASSUME NEW f \in Fetchers, PublishFails(f)  PROVE AllFetched'
    BY <1>13 DEF AllFetched, Cleanup, PublishFails
  <1> QED
    BY <1>1, <1>2, <1>3, <1>4, <1>5, <1>6, <1>7, <1>8, <1>9, <1>10, <1>11,
       <1>12, <1>13 DEF Next, Fetch

(* The cache grows only by the rename, of a temp dir that is complete.         *)
LEMMA Hits ==
    ASSUME IndInv, [Next]_vars
    PROVE  HitIsComplete'
PROOF
  <1> USE DEF IndInv
  <1>1. ASSUME NEW k \in Keys, Upload(k)  PROVE HitIsComplete'
    BY <1>1 DEF HitIsComplete, CacheHit, WasUploaded, Upload
  <1>2. ASSUME NEW k \in Keys, Delete(k)  PROVE HitIsComplete'
    BY <1>2 DEF HitIsComplete, CacheHit, Delete
  <1>3. ASSUME NEW f \in Fetchers, Start(f)  PROVE HitIsComplete'
    BY <1>3 DEF HitIsComplete, CacheHit, Start
  <1>4. ASSUME NEW f \in Fetchers, List(f)  PROVE HitIsComplete'
    BY <1>4 DEF HitIsComplete, CacheHit, List
  <1>5. ASSUME NEW f \in Fetchers, Download(f)  PROVE HitIsComplete'
    BY <1>5 DEF HitIsComplete, CacheHit, DownloadKey, disk, Download
  <1>6. ASSUME NEW f \in Fetchers, GetFails(f)  PROVE HitIsComplete'
    BY <1>6 DEF HitIsComplete, CacheHit, GetFails
  <1>7. ASSUME NEW f \in Fetchers, ListFails(f)  PROVE HitIsComplete'
    BY <1>7 DEF HitIsComplete, CacheHit, ListFails
  <1>8. ASSUME NEW f \in Fetchers, KeepTheirs(f)  PROVE HitIsComplete'
    BY <1>8 DEF HitIsComplete, CacheHit, KeepTheirs
  <1>9. ASSUME NEW f \in Fetchers, Publish(f)  PROVE HitIsComplete'
    BY <1>9 DEF HitIsComplete, CacheHit, Publish
  <1>10. ASSUME NEW f \in Fetchers, Rename(f)  PROVE HitIsComplete'
    BY <1>10 DEF HitIsComplete, CacheHit, Complete, HeldIsComplete, AllFetched,
       Held, Rename
  <1>11. CASE Crash
    BY <1>11 DEF HitIsComplete, CacheHit, Crash
  <1>12. CASE UNCHANGED vars
    BY <1>12 DEF HitIsComplete, CacheHit, vars
  <1>13. ASSUME NEW f \in Fetchers, PublishFails(f)  PROVE HitIsComplete'
    BY <1>13 DEF HitIsComplete, CacheHit, PublishFails
  <1> QED
    BY <1>1, <1>2, <1>3, <1>4, <1>5, <1>6, <1>7, <1>8, <1>9, <1>10, <1>11,
       <1>12, <1>13 DEF Next, Fetch

(* A refused URI is not fetched.                                               *)
LEMMA Wanted ==
    ASSUME IndInv, [Next]_vars
    PROVE  FetchesAPrefix'
PROOF
  <1> USE DEF IndInv
  <1>1. ASSUME NEW k \in Keys, Upload(k)  PROVE FetchesAPrefix'
    BY <1>1 DEF FetchesAPrefix, Upload
  <1>2. ASSUME NEW k \in Keys, Delete(k)  PROVE FetchesAPrefix'
    BY <1>2 DEF FetchesAPrefix, Delete
  <1>3. ASSUME NEW f \in Fetchers, Start(f)  PROVE FetchesAPrefix'
    BY <1>3 DEF FetchesAPrefix, Busy, TypeOK, Start
  <1>4. ASSUME NEW f \in Fetchers, List(f)  PROVE FetchesAPrefix'
    BY <1>4 DEF FetchesAPrefix, Busy, List
  <1>5. ASSUME NEW f \in Fetchers, Download(f)  PROVE FetchesAPrefix'
    BY <1>5 DEF FetchesAPrefix, Busy, Download
  <1>6. ASSUME NEW f \in Fetchers, GetFails(f)  PROVE FetchesAPrefix'
    BY <1>6 DEF FetchesAPrefix, Busy, GetFails
  <1>7. ASSUME NEW f \in Fetchers, ListFails(f)  PROVE FetchesAPrefix'
    BY <1>7 DEF FetchesAPrefix, Busy, ListFails
  <1>8. ASSUME NEW f \in Fetchers, KeepTheirs(f)  PROVE FetchesAPrefix'
    BY <1>8 DEF FetchesAPrefix, TypeOK, KeepTheirs
  <1>9. ASSUME NEW f \in Fetchers, Publish(f)  PROVE FetchesAPrefix'
    BY <1>9 DEF FetchesAPrefix, Busy, Publish
  <1>10. ASSUME NEW f \in Fetchers, Rename(f)  PROVE FetchesAPrefix'
    BY <1>10 DEF FetchesAPrefix, Busy, Rename
  <1>11. CASE Crash
    BY <1>11 DEF FetchesAPrefix, Busy, Crash
  <1>12. CASE UNCHANGED vars
    BY <1>12 DEF FetchesAPrefix, vars
  <1>13. ASSUME NEW f \in Fetchers, PublishFails(f)  PROVE FetchesAPrefix'
    BY <1>13 DEF FetchesAPrefix, Busy, PublishFails
  <1> QED
    BY <1>1, <1>2, <1>3, <1>4, <1>5, <1>6, <1>7, <1>8, <1>9, <1>10, <1>11,
       <1>12, <1>13 DEF Next, Fetch

(* Whether the manifest was there at the start stays true of the past.         *)
LEMMA Seen ==
    ASSUME IndInv, [Next]_vars
    PROVE  SeenAtStart'
PROOF
  <1> USE DEF IndInv
  <1>1. ASSUME NEW k \in Keys, Upload(k)  PROVE SeenAtStart'
    BY <1>1 DEF SeenAtStart, Upload
  <1>2. ASSUME NEW k \in Keys, Delete(k)  PROVE SeenAtStart'
    BY <1>2 DEF SeenAtStart, Delete
  <1>3. ASSUME NEW f \in Fetchers, Start(f)  PROVE SeenAtStart'
    BY <1>3 DEF SeenAtStart, TypeOK, Load, disk, DownloadKey, Start
  <1>4. ASSUME NEW f \in Fetchers, List(f)  PROVE SeenAtStart'
    BY <1>4 DEF SeenAtStart, List
  <1>5. ASSUME NEW f \in Fetchers, Download(f)  PROVE SeenAtStart'
    BY <1>5 DEF SeenAtStart, Download
  <1>6. ASSUME NEW f \in Fetchers, GetFails(f)  PROVE SeenAtStart'
    BY <1>6 DEF SeenAtStart, GetFails
  <1>7. ASSUME NEW f \in Fetchers, ListFails(f)  PROVE SeenAtStart'
    BY <1>7 DEF SeenAtStart, ListFails
  <1>8. ASSUME NEW f \in Fetchers, KeepTheirs(f)  PROVE SeenAtStart'
    BY <1>8 DEF SeenAtStart, KeepTheirs
  <1>9. ASSUME NEW f \in Fetchers, Publish(f)  PROVE SeenAtStart'
    BY <1>9 DEF SeenAtStart, Publish
  <1>10. ASSUME NEW f \in Fetchers, Rename(f)  PROVE SeenAtStart'
    BY <1>10 DEF SeenAtStart, Rename
  <1>11. CASE Crash
    BY <1>11 DEF SeenAtStart, Crash
  <1>12. CASE UNCHANGED vars
    BY <1>12 DEF SeenAtStart, vars
  <1>13. ASSUME NEW f \in Fetchers, PublishFails(f)  PROVE SeenAtStart'
    BY <1>13 DEF SeenAtStart, PublishFails
  <1> QED
    BY <1>1, <1>2, <1>3, <1>4, <1>5, <1>6, <1>7, <1>8, <1>9, <1>10, <1>11,
       <1>12, <1>13 DEF Next, Fetch

(* An unnested template is downloaded only if its own manifest was listed.     *)
LEMMA HasOwnManifest ==
    ASSUME IndInv, [Next]_vars
    PROVE  AloneHasManifest'
PROOF
  <1> USE DEF IndInv
  <1>1. ASSUME NEW k \in Keys, Upload(k)  PROVE AloneHasManifest'
    BY <1>1 DEF AloneHasManifest, Held, Upload
  <1>2. ASSUME NEW k \in Keys, Delete(k)  PROVE AloneHasManifest'
    BY <1>2 DEF AloneHasManifest, Held, Delete
  <1>3. ASSUME NEW f \in Fetchers, Start(f)  PROVE AloneHasManifest'
    BY <1>3 DEF AloneHasManifest, Held, Busy, Load, Start
  <1>4. ASSUME NEW f \in Fetchers, List(f)  PROVE AloneHasManifest'
    <2>1. SUFFICES ASSUME pc'[f] = "download", Alone(want[f])
                   PROVE  Manifest(want[f]) \in Listed(want[f])
      BY <1>4 DEF AloneHasManifest, Held, Busy, TypeOK, List
    <2>2. PICK k \in Listed(want[f]) : k[2] = "manifest"
      BY <1>4, <2>1 DEF List, HasManifest
    <2>3. k = Manifest(k[1]) /\ k[1] \in Prefixes
      BY <2>2 DEF Listed, Under, Keys, Manifest
    <2>4. k[1] = want[f]
      BY <1>4, <2>1, <2>3, AloneUnder DEF Listed, FetchesAPrefix, Busy, List
    <2> QED
      BY <2>3, <2>4
  <1>5. ASSUME NEW f \in Fetchers, Download(f)  PROVE AloneHasManifest'
    BY <1>5 DEF AloneHasManifest, Held, Busy, TypeOK, DownloadKey, Download
  <1>6. ASSUME NEW f \in Fetchers, GetFails(f)  PROVE AloneHasManifest'
    BY <1>6 DEF AloneHasManifest, Held, Busy, TypeOK, Cleanup, GetFails
  <1>7. ASSUME NEW f \in Fetchers, ListFails(f)  PROVE AloneHasManifest'
    BY <1>7 DEF AloneHasManifest, Held, Busy, Cleanup, ListFails
  <1>8. ASSUME NEW f \in Fetchers, KeepTheirs(f)  PROVE AloneHasManifest'
    BY <1>8 DEF AloneHasManifest, Held, Busy, TypeOK, Load, Cleanup, KeepTheirs
  <1>9. ASSUME NEW f \in Fetchers, Publish(f)  PROVE AloneHasManifest'
    BY <1>9 DEF AloneHasManifest, Held, Busy, Publish
  <1>10. ASSUME NEW f \in Fetchers, Rename(f)  PROVE AloneHasManifest'
    BY <1>10 DEF AloneHasManifest, Held, Busy, TypeOK, Load, Cleanup, Rename
  <1>11. CASE Crash
    BY <1>11 DEF AloneHasManifest, Busy, Crash
  <1>12. CASE UNCHANGED vars
    BY <1>12 DEF AloneHasManifest, Held, vars
  <1>13. ASSUME NEW f \in Fetchers, PublishFails(f)  PROVE AloneHasManifest'
    BY <1>13 DEF AloneHasManifest, Held, Busy, TypeOK, Cleanup, PublishFails
  <1> QED
    BY <1>1, <1>2, <1>3, <1>4, <1>5, <1>6, <1>7, <1>8, <1>9, <1>10, <1>11,
       <1>12, <1>13 DEF Next, Fetch

(* Only the two steps of _publish change what is on the disk.                  *)
LEMMA DiskChanges ==
    ASSUME [Next]_vars
    PROVE  UNCHANGED <<files, dirs>> \/ \E f \in Fetchers : Publish(f) \/ Rename(f)
  BY DEF Next, Fetch, vars, disk, Upload, Delete, Start, List, Download,
         DownloadKey, GetFails, ListFails, KeepTheirs, PublishFails, Crash

(* The directory of an unnested template is made by its own rename only.       *)
LEMMA DirHasManifest ==
    ASSUME IndInv, [Next]_vars
    PROVE  AloneDirHasManifest'
PROOF
  <1>1. TypeOK /\ AloneDirHasManifest /\ AloneHasManifest /\ AllFetched /\ FetchesAPrefix
    BY DEF IndInv
  <1> SUFFICES ASSUME NEW p \in Prefixes, Alone(p), p \in dirs' \/ files' \cap Under(p) # {}
               PROVE  Manifest(p) \in files'
    BY DEF AloneDirHasManifest, Alone, Under, Within
  <1>2. p \in dirs \/ files \cap Under(p) # {} => Manifest(p) \in files
    BY <1>1 DEF AloneDirHasManifest
  <1>3. CASE UNCHANGED <<files, dirs>>
    BY <1>2, <1>3
  <1>4. ASSUME NEW f \in Fetchers, Publish(f)  PROVE Manifest(p) \in files'
    <2>1. want[f] \in Prefixes
      BY <1>1, <1>4 DEF Publish, FetchesAPrefix, Busy
    <2>2. p \notin NewDirs(want[f])
      BY <2>1 DEF NewDirs, Ancestors, Alone
    <2> QED
      BY <1>2, <1>4, <2>2 DEF Publish, MakeParents
  <1>5. ASSUME NEW f \in Fetchers, Rename(f)  PROVE Manifest(p) \in files'
    <2>1. want[f] \in Prefixes /\ files \subseteq files'
      BY <1>1, <1>5 DEF Rename, FetchesAPrefix, Busy
    <2>2. CASE p \in dirs \/ files \cap Under(p) # {}
      BY <1>2, <2>1, <2>2
    <2>3. CASE p = want[f] /\ files \cap Under(p) = {}
      <3>1. ~Occupied(p)
        BY <2>1, <2>3 DEF Occupied, Alone, TypeOK, IndInv
      <3>2. Manifest(p) \in tmp[f]
        BY <1>1, <1>5, <2>3 DEF Rename, AloneHasManifest, AllFetched, Held, Busy
      <3> QED
        BY <1>5, <2>3, <3>1, <3>2 DEF Rename
    <2>4. CASE p # want[f]
      <3>1. p \notin Within(want[f])
        BY <2>1, <2>4 DEF Within, Alone
      <3>2. tmp[f] \cap Under(p) = {}
        <4>1. \A k \in tmp[f] : k[1] \in Within(want[f]) /\ k[1] \in Prefixes
          BY <1>1 DEF TypeOK, Under, Keys
        <4>2. Within(p) = {p} /\ p \notin Within(want[f])
          BY <3>1 DEF Within, Alone
        <4> QED
          BY <4>1, <4>2 DEF Under
      <3> QED
        BY <1>2, <1>5, <2>4, <3>1, <3>2 DEF Rename
    <2> QED
      BY <2>2, <2>3, <2>4
  <1> QED
    BY <1>3, <1>4, <1>5, DiskChanges

(* So its manifest was missing at the start, did not parse, or something of    *)
(* it has been deleted.                                                        *)
LEMMA NotFounds ==
    ASSUME IndInv, [Next]_vars
    PROVE  NotFoundIsTrueIfAlone'
PROOF
  <1> USE DEF IndInv
  <1>1. ASSUME NEW k \in Keys, Upload(k)  PROVE NotFoundIsTrueIfAlone'
    BY <1>1 DEF NotFoundIsTrueIfAlone, Upload
  <1>2. ASSUME NEW k \in Keys, Delete(k)  PROVE NotFoundIsTrueIfAlone'
    BY <1>2 DEF NotFoundIsTrueIfAlone, Delete
  <1>3. ASSUME NEW f \in Fetchers, Start(f)  PROVE NotFoundIsTrueIfAlone'
    <2>1. pc'[f] = "notfound" => want[f] \in Malformed \/ want[f] \in Rejected
      BY <1>3 DEF Start, CacheHit, Load
    <2>2. want[f] \in Rejected => early'[f]
      BY <1>3, BelowAssumption DEF TypeOK, Start, Manifest, Keys
    <2> QED
      BY <1>3, <2>1, <2>2 DEF NotFoundIsTrueIfAlone, Start
  <1>4. ASSUME NEW f \in Fetchers, List(f)  PROVE NotFoundIsTrueIfAlone'
    <2>1. want[f] \in Prefixes
      BY <1>4 DEF FetchesAPrefix, Busy, List
    <2>2. pc'[f] = "notfound" => Manifest(want[f]) \notin bucket
      BY <1>4, <2>1, OwnManifest DEF List, HasManifest, Listed, Manifest
    <2>3. pc'[f] = "notfound" => early[f] \/ Manifest(want[f]) \in gone
      BY <1>4, <2>2 DEF SeenAtStart, List
    <2> QED
      BY <1>4, <2>1, <2>3, OwnManifest DEF NotFoundIsTrueIfAlone, List
  <1>5. ASSUME NEW f \in Fetchers, Download(f)  PROVE NotFoundIsTrueIfAlone'
    BY <1>5 DEF NotFoundIsTrueIfAlone, Download
  <1>6. ASSUME NEW f \in Fetchers, GetFails(f)  PROVE NotFoundIsTrueIfAlone'
    BY <1>6 DEF NotFoundIsTrueIfAlone, TypeOK, Classify, WasUploaded, Held,
       GetFails
  <1>7. ASSUME NEW f \in Fetchers, ListFails(f)  PROVE NotFoundIsTrueIfAlone'
    BY <1>7 DEF NotFoundIsTrueIfAlone, ListFails
  <1>8. ASSUME NEW f \in Fetchers, KeepTheirs(f)  PROVE NotFoundIsTrueIfAlone'
    BY <1>8 DEF NotFoundIsTrueIfAlone, TypeOK, Load, AloneDirHasManifest,
       KeepTheirs
  <1>9. ASSUME NEW f \in Fetchers, Publish(f)  PROVE NotFoundIsTrueIfAlone'
    BY <1>9 DEF NotFoundIsTrueIfAlone, Publish
  <1>10. ASSUME NEW f \in Fetchers, Rename(f)  PROVE NotFoundIsTrueIfAlone'
    <2>1. want[f] \in Prefixes
      BY <1>10 DEF FetchesAPrefix, Busy, Rename
    <2>2. SUFFICES ASSUME Alone(want[f])  PROVE Manifest(want[f]) \in files'
      BY <1>10 DEF NotFoundIsTrueIfAlone, Rename, Load
    <2>3. Manifest(want[f]) \in tmp[f]
      BY <1>10, <2>2 DEF AloneHasManifest, AllFetched, Held, Busy, Rename
    <2>4. Occupied(want[f]) => files \cap Under(want[f]) # {}
      BY <2>1, <2>2 DEF Occupied, Alone, TypeOK
    <2> QED
      BY <1>10, <2>1, <2>2, <2>3, <2>4 DEF AloneDirHasManifest, Rename
  <1>11. CASE Crash
    BY <1>11 DEF NotFoundIsTrueIfAlone, Crash
  <1>12. CASE UNCHANGED vars
    BY <1>12 DEF NotFoundIsTrueIfAlone, vars
  <1>13. ASSUME NEW f \in Fetchers, PublishFails(f)  PROVE NotFoundIsTrueIfAlone'
    BY <1>13 DEF NotFoundIsTrueIfAlone, PublishFails
  <1> QED
    BY <1>1, <1>2, <1>3, <1>4, <1>5, <1>6, <1>7, <1>8, <1>9, <1>10, <1>11,
       <1>12, <1>13 DEF Next, Fetch

(* So each step keeps the invariant.                                           *)
LEMMA NextInv == IndInv /\ [Next]_vars => IndInv'
  <1> SUFFICES ASSUME IndInv, [Next]_vars PROVE IndInv'
    OBVIOUS
  <1> QED
    BY TypeInv, TempDirs, Uploaded, HeldComplete, Fetched, Hits, Wanted, Seen,
       HasOwnManifest, DirHasManifest, NotFounds DEF IndInv

(* It holds throughout.                                                        *)
LEMMA Invariance == Spec => []IndInv
  BY InitInv, NextInv, PTL DEF Spec
-------------------------------------------------------------------------------
(* Every variable keeps its type, for any nesting of templates; a temp dir     *)
(* only ever holds keys under the prefix its fetch asked for.                  *)
THEOREM TypeCorrect == Spec => []TypeOK
  BY Invariance, PTL DEF IndInv

(* "A partial download is never observed as a complete cache entry", whatever  *)
(* the nesting of templates, the processes that share the disk, the failures   *)
(* and the crashes between the steps of _download_prefix and _publish.         *)
THEOREM HitsAreComplete == Spec => []HitIsComplete
  BY Invariance, PTL DEF IndInv

(* The finally of _download_prefix removes the temp dir on every way out but   *)
(* the death of the process.                                                   *)
THEOREM OnlyCrashesLeak == Spec => []NoLeakWithoutCrash
  BY Invariance, PTL DEF IndInv

(* A TEMPLATE_NOT_FOUND for a template stored neither below another nor above  *)
(* one is true: no race, failed fetch or crash forges it.                      *)
THEOREM AloneIsNotFoundOnlyIfAbsent == Spec => []NotFoundIsTrueIfAlone
  BY Invariance, PTL DEF IndInv

(* In a bucket without nested templates that is every fetch.  With them it is  *)
(* false: a fetch of the nested one creates the directory of the outer one.    *)
THEOREM FlatIsNotFoundOnlyIfAbsent ==
    ASSUME Below = {}
    PROVE  Spec => []NotFoundOnlyIfAbsent
  <1>1. NotFoundIsTrueIfAlone => NotFoundOnlyIfAbsent
    BY DEF NotFoundIsTrueIfAlone, NotFoundOnlyIfAbsent, Alone
  <1> QED
    BY <1>1, AloneIsNotFoundOnlyIfAbsent, PTL
===============================================================================
