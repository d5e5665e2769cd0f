-------------------------- MODULE ImageFetchProofs --------------------------
(***************************************************************************)
(* Theorems about the image cache and those who fetch through it, for all  *)
(* requests, URLs, keys, buckets and limits.                               *)
(*                                                                         *)
(* A file is either listed in the index, or someone holds its path and is  *)
(* about to list or to remove it.  The index agrees with itself, which     *)
(* DeleteBucket relies on, and only a FileStore has files, which Delete    *)
(* relies on when it removes none.                                         *)
(***************************************************************************)
EXTENDS ImageFetch, TLAPS

\* An attempt is left while the fetch has not failed, and a refetch knows of
\* which URL.
AttemptsLeft ==
    \A g \in Fetchers :
        /\ fetch[g].pc # "failed" => fetch[g].failures <= RetryCount
        /\ fetch[g].pc = "refetch" => fetch[g].image \in Images

\* The file steps belong to FileStore.
FilesOfFileStore ==
    store # "file" =>
        /\ \A p \in Paths : ~OnDisk(p)
        /\ \A g \in Fetchers : fetch[g].pc \notin {"mkdir", "write", "rename", "unlink"}

\* Goroutines run once their request has started them.
OffUntilStarted == \A g \in Fetchers : pc[g[1]] = "new" => fetch[g].pc = "off"

IInv == TypeOK /\ AttemptsLeft /\ OffUntilStarted /\ FilesOfFileStore /\ NoOrphans

IndexType ==
    /\ byKey \in [Keys -> Entries \cup {None}]
    /\ byBucket \in [Buckets -> SUBSET Keys]
    /\ IndexAgrees

\* No entry and no image is None.
LEMMA NotNone ==
    /\ \A e \in Entries : e # None /\ e.bucket \in Buckets
    /\ \A i \in Images : i # None
  BY DEF Entries, Images, None

LEMMA KeyType == \A g \in Fetchers : Key(g) \in Keys /\ g[2] \in AllUrls
  BY FetchAssumption DEF Fetchers, Key, AllUrls

\* What the operations of the index leave.
LEMMA InsertKeepsIndex ==
    ASSUME IndexType, NEW k \in Keys, NEW e \in Entries, insertOrReplace(k, e)
    PROVE  IndexType'
<1>1. byKey' \in [Keys -> Entries \cup {None}]
  BY DEF IndexType, insertOrReplace
<1>2. Unlisted(k) \in [Buckets -> SUBSET Keys]
  BY DEF IndexType, Unlisted
<1>3. byBucket' \in [Buckets -> SUBSET Keys]
  BY <1>2 DEF insertOrReplace
<1>4. ASSUME NEW b \in Buckets
      PROVE  Unlisted(k)[b] = {j \in Keys \ {k} : byKey[j] # None /\ byKey[j].bucket = b}
  BY <1>4, NotNone DEF IndexType, IndexAgrees, Unlisted
<1>5. ASSUME NEW b \in Buckets
      PROVE  byBucket'[b] = {j \in Keys : byKey'[j] # None /\ byKey'[j].bucket = b}
  <2>1. CASE e.bucket = b
    <3>1. byBucket'[b] = Unlisted(k)[b] \cup {k}
      BY <1>2, <2>1 DEF insertOrReplace
    <3> QED BY <3>1, <1>4, <2>1, NotNone DEF insertOrReplace, IndexType
  <2>2. CASE e.bucket # b
    <3>1. byBucket'[b] = Unlisted(k)[b]
      BY <1>2, <2>2 DEF insertOrReplace
    <3> QED BY <3>1, <1>4, <2>2, NotNone DEF insertOrReplace, IndexType
  <2> QED BY <2>1, <2>2
<1> QED BY <1>1, <1>3, <1>5 DEF IndexType, IndexAgrees

LEMMA DeleteKeepsIndex ==
    ASSUME IndexType, NEW k \in Keys, deleteKey(k)
    PROVE  IndexType'
<1>1. byKey' \in [Keys -> Entries \cup {None}] /\ byBucket' \in [Buckets -> SUBSET Keys]
  BY DEF IndexType, deleteKey, Unlisted
<1>2. ASSUME NEW b \in Buckets
      PROVE  byBucket'[b] = {j \in Keys : byKey'[j] # None /\ byKey'[j].bucket = b}
  BY <1>2, NotNone DEF IndexType, IndexAgrees, deleteKey, Unlisted
<1> QED BY <1>1, <1>2 DEF IndexType, IndexAgrees

LEMMA RemoveKeepsIndex ==
    ASSUME IndexType, NEW b \in Buckets, removeBucket(b)
    PROVE  IndexType'
<1>1. byKey' \in [Keys -> Entries \cup {None}] /\ byBucket' \in [Buckets -> SUBSET Keys]
  BY DEF IndexType, removeBucket
<1>2. ASSUME NEW c \in Buckets
      PROVE  byBucket'[c] = {j \in Keys : byKey'[j] # None /\ byKey'[j].bucket = c}
  BY <1>2 DEF IndexType, IndexAgrees, removeBucket
<1> QED BY <1>1, <1>2 DEF IndexType, IndexAgrees

-----------------------------------------------------------------------------
(* Steps of one goroutine.                                                 *)

FileSteps == {"mkdir", "write", "rename", "unlink"}
Holding == {"insert", "unlink"}

FetchType == fetch \in [Fetchers -> Fetches]

\* Goroutine g goes on as f does.
Becomes(g, f) ==
    /\ f \in Fetches
    /\ f.pc # "failed" => f.failures <= RetryCount
    /\ f.pc = "refetch" => f.image \in Images
    /\ store # "file" => f.pc \notin FileSteps
    /\ fetch' = [fetch EXCEPT ![g] = f]

LEMMA OthersStay ==
    ASSUME IInv, NEW g \in Fetchers, NEW f, Becomes(g, f), fetch[g].pc # "off", UNCHANGED pc
    PROVE  /\ FetchType' /\ AttemptsLeft' /\ OffUntilStarted'
           /\ store # "file" => \A h \in Fetchers : fetch'[h].pc \notin FileSteps
           /\ fetch'[g] = f
           /\ \A h \in Fetchers : h # g => fetch'[h] = fetch[h]
  BY DEF IInv, TypeOK, Becomes, FetchType, AttemptsLeft, FilesOfFileStore, FileSteps,
         OffUntilStarted

\* A step that leaves the cache alone, of a goroutine that holds no path.
LEMMA QuietStep ==
    ASSUME IInv, NEW g \in Fetchers, NEW f, Becomes(g, f),
           fetch[g].pc \notin Holding \cup {"off"}, UNCHANGED <<cache, pc, orphans>>
    PROVE  IInv'
<1>1. /\ FetchType' /\ AttemptsLeft' /\ OffUntilStarted'
      /\ store # "file" => \A h \in Fetchers : fetch'[h].pc \notin FileSteps
      /\ \A h \in Fetchers : h # g => fetch'[h] = fetch[h]
  BY OthersStay
<1>2. TypeOK'
  BY <1>1 DEF IInv, TypeOK, FetchType, IndexAgrees, cache, disk, index
<1>3. FilesOfFileStore'
  BY <1>1 DEF IInv, FilesOfFileStore, FileSteps, OnDisk, cache, disk
<1>4. ASSUME NEW p \in Paths, Tracked(p)
      PROVE  Tracked(p)'
  <2>1. Indexed(p) => Indexed(p)'
    BY DEF Indexed, PathOf, cache, index
  <2>2. Held(p) => Held(p)'
    BY <1>1 DEF Held, Holding, cache, Key
  <2> QED BY <1>4, <2>1, <2>2 DEF Tracked
<1>5. NoOrphans'
  BY <1>4 DEF IInv, NoOrphans, OnDisk, cache, disk
<1> QED BY <1>1, <1>2, <1>3, <1>5 DEF IInv

LEMMA FetchParts ==
    ASSUME IInv, NEW g \in Fetchers
    PROVE  /\ fetch[g].at \in Buckets /\ fetch[g].image \in Images \cup {None}
           /\ fetch[g].failures \in 0 .. RetryCount + 1
           /\ fetch[g].pc # "failed" => fetch[g].failures \in 0 .. RetryCount
           /\ RetryCount \in Nat
  BY FetchAssumption DEF IInv, TypeOK, Fetches, AttemptsLeft

\* A further attempt or the end of them.
LEMMA FailureStep ==
    ASSUME IInv, NEW g \in Fetchers, AttemptFails(g), fetch[g].pc # "failed"
    PROVE  \E f : Becomes(g, f)
<1> DEFINE f == [pc |-> IF fetch[g].failures < RetryCount THEN "get" ELSE "failed",
                 at |-> fetch[g].at, image |-> fetch[g].image,
                 failures |-> fetch[g].failures + 1]
<1>1. fetch[g].failures + 1 \in 0 .. RetryCount + 1
  BY FetchParts
<1>2. f \in Fetches
  BY <1>1, FetchParts DEF Fetches
<1>3. f.pc # "failed" => f.failures <= RetryCount
  BY FetchParts
<1>4. f.pc \notin FileSteps \cup {"refetch"}
  BY DEF FileSteps
<1>5. fetch' = [fetch EXCEPT ![g] = f]
  BY DEF AttemptFails
<1> HIDE DEF f
<1>6. Becomes(g, f)
  BY <1>2, <1>3, <1>4, <1>5 DEF Becomes
<1> QED BY <1>6

\* A goroutine that has not failed moves on to another place.
LEMMA MoveStep ==
    ASSUME IInv, NEW g \in Fetchers, fetch[g].pc # "failed",
           NEW place, NEW i \in Images \cup {None}, NEW b \in Buckets,
           place \in {"off", "get", "read", "purge", "refetch", "http", "mkdir", "write",
                      "rename", "insert", "unlink", "ok"},
           store # "file" => place \notin FileSteps,
           place = "refetch" => i \in Images,
           fetch' = [fetch EXCEPT ![g] = Fetching(g, place, b, i)]
    PROVE  Becomes(g, Fetching(g, place, b, i))
<1>1. Fetching(g, place, b, i) \in Fetches
  BY FetchParts DEF Fetches, Fetching
<1>2. Fetching(g, place, b, i).failures <= RetryCount
  BY FetchParts DEF Fetching
<1> QED BY <1>1, <1>2 DEF Becomes, Fetching

LEMMA GoesOn ==
    ASSUME IInv, NEW g \in Fetchers, fetch[g].pc # "failed", NEW place, Goes(g, place),
           place \in {"off", "get", "read", "purge", "http", "mkdir", "write",
                      "rename", "insert", "unlink", "ok"},
           store # "file" => place \notin FileSteps
    PROVE  Becomes(g, Fetching(g, place, fetch[g].at, fetch[g].image))
<1>1. place # "refetch"
  OBVIOUS
<1> QED BY <1>1, FetchParts, MoveStep DEF Goes

LEMMA HasIt ==
    ASSUME IInv, NEW g \in Fetchers, fetch[g].pc # "failed", NEW i \in Images \cup {None},
           Has(g, i, "ok")
    PROVE  Becomes(g, Fetching(g, "ok", fetch[g].at, i))
  BY FetchParts, MoveStep DEF Has, FileSteps

LEMMA LookupStep ==
    ASSUME IInv, NEW g \in Fetchers, Lookup(g)
    PROVE  IInv'
<1> DEFINE entry == byKey[Key(g)]
<1>1. fetch[g].pc = "get" /\ fetch[g].pc \notin Holding \cup {"off"} /\ UNCHANGED <<cache, pc, orphans>>
  BY DEF Lookup, Holding
<1>2. CASE store = "none" \/ entry = None
  <2>1. Goes(g, "http")
    BY <1>2 DEF Lookup
  <2>2. \E f : Becomes(g, f)
    BY <1>1, <2>1, GoesOn DEF FileSteps
  <2> QED BY <1>1, <2>2, QuietStep
<1>3. CASE ~(store = "none" \/ entry = None)
  <2> DEFINE place == IF store = "file" THEN "read" ELSE "refetch"
             image == IF store = "file" THEN None ELSE Image(entry.url, 0)
  <2>1. entry \in Entries
    BY <1>3, KeyType DEF IInv, TypeOK
  <2>2. image \in Images \cup {None} /\ (place = "refetch" => image \in Images)
    BY <2>1 DEF Image, Images, Entries
  <2>3. fetch' = [fetch EXCEPT ![g] = Fetching(g, place, entry.bucket, image)]
    BY <1>3 DEF Lookup
  <2>4. entry.bucket \in Buckets
    BY <2>1 DEF Entries
  <2>5. place \in {"read", "refetch"}
    OBVIOUS
  <2> HIDE DEF place, image, entry
  <2>6. \E f : Becomes(g, f)
    BY <1>1, <2>2, <2>3, <2>4, <2>5, MoveStep DEF FileSteps
  <2> QED BY <1>1, <2>6, QuietStep
<1> QED BY <1>2, <1>3

LEMMA ReadFileStep ==
    ASSUME IInv, NEW g \in Fetchers, ReadFile(g)
    PROVE  IInv'
<1> DEFINE path == <<fetch[g].at, Key(g)>>
<1>1. fetch[g].pc = "read" /\ fetch[g].pc \notin Holding \cup {"off"} /\ UNCHANGED <<cache, pc, orphans>>
  BY DEF ReadFile, Holding
<1>2. file[path] \in Images \cup {None}
  BY FetchParts, KeyType DEF IInv, TypeOK, Paths
<1>3. Has(g, file[path], "ok") \/ Goes(g, "purge")
  BY DEF ReadFile
<1> HIDE DEF path
<1>4. \E f : Becomes(g, f)
  BY <1>1, <1>2, <1>3, HasIt, GoesOn DEF FileSteps
<1> QED BY <1>1, <1>4, QuietStep

LEMMA FailingStep ==
    ASSUME IInv, NEW g \in Fetchers, ReadFails(g) \/ DownloadFails(g)
    PROVE  IInv'
<1>1. /\ fetch[g].pc \in {"read", "http", "refetch"} /\ AttemptFails(g)
      /\ UNCHANGED <<cache, pc, orphans>>
  BY DEF ReadFails, DownloadFails
<1>2. \E f : Becomes(g, f)
  BY <1>1, FailureStep
<1> QED BY <1>1, <1>2, QuietStep DEF Holding

LEMMA RefetchStep ==
    ASSUME IInv, NEW g \in Fetchers, NEW size \in Sizes, Refetch(g, size)
    PROVE  IInv'
<1>1. fetch[g].pc = "refetch" /\ fetch[g].pc \notin Holding \cup {"off"} /\ UNCHANGED <<cache, pc, orphans>>
  BY DEF Refetch, Holding
<1>2. Image(fetch[g].image.url, size) \in Images
  BY <1>1, FetchAssumption DEF IInv, AttemptsLeft, Image, Images
<1>3. AttemptFails(g) \/ Has(g, Image(fetch[g].image.url, size), "ok")
  BY DEF Refetch
<1>4. \E f : Becomes(g, f)
  BY <1>1, <1>2, <1>3, FailureStep, HasIt
<1> QED BY <1>1, <1>4, QuietStep

LEMMA DownloadStep ==
    ASSUME IInv, NEW g \in Fetchers, NEW size \in Sizes, Download(g, size)
    PROVE  IInv'
<1> DEFINE image == Image(g[2], size)
<1>1. fetch[g].pc = "http" /\ fetch[g].pc \notin Holding \cup {"off"} /\ UNCHANGED <<cache, pc, orphans>>
  BY DEF Download, Holding
<1>2. image \in Images /\ bucket \in Buckets
  BY KeyType, FetchAssumption DEF IInv, TypeOK, Image, Images
<1>3. CASE AttemptFails(g)
  BY <1>1, <1>3, FailureStep, QuietStep
<1>4. CASE ~AttemptFails(g)
  <2>1. fetch' = [fetch EXCEPT ![g] = Fetching(g, AfterDownload, bucket, image)]
    BY <1>4 DEF Download
  <2>2. /\ AfterDownload \in {"ok", "mkdir", "insert"}
        /\ store # "file" => AfterDownload \notin FileSteps
    BY DEF AfterDownload, FileSteps
  <2> HIDE DEF image
  <2>3. \E f : Becomes(g, f)
    BY <1>1, <1>2, <2>1, <2>2, MoveStep
  <2> QED BY <1>1, <2>3, QuietStep
<1> QED BY <1>3, <1>4

-----------------------------------------------------------------------------
(* Steps that change the disk or the index.                                *)

\* What is left to show of a step of g on the cache.
LEMMA CacheStep ==
    ASSUME IInv, NEW g \in Fetchers, NEW f, Becomes(g, f), fetch[g].pc # "off",
           UNCHANGED <<store, bucket, sweep, pc>>,
           file' \in [Paths -> Images \cup {None}], dirs' \subseteq Buckets,
           temps' \subseteq Buckets \X Fetchers, IndexType', orphans' \subseteq Paths,
           store # "file" => \A p \in Paths : ~OnDisk(p)',
           NoOrphans'
    PROVE  IInv'
<1>1. /\ FetchType' /\ AttemptsLeft' /\ OffUntilStarted'
      /\ store # "file" => \A h \in Fetchers : fetch'[h].pc \notin FileSteps
  BY OthersStay
<1>2. TypeOK'
  BY <1>1 DEF IInv, TypeOK, FetchType, IndexType
<1>3. FilesOfFileStore'
  BY <1>1 DEF FilesOfFileStore, FileSteps
<1> QED BY <1>1, <1>2, <1>3 DEF IInv

LEMMA CacheTypes ==
    ASSUME IInv
    PROVE  /\ file \in [Paths -> Images \cup {None}] /\ dirs \subseteq Buckets
           /\ temps \subseteq Buckets \X Fetchers /\ IndexType /\ orphans \subseteq Paths
           /\ store # "file" => \A p \in Paths : ~OnDisk(p)
           /\ NoOrphans
  BY DEF IInv, TypeOK, IndexType, FilesOfFileStore

\* Making a directory or a temporary file, or giving up a Put: files and index
\* stay as they are.
LEMMA TemporaryStep ==
    ASSUME IInv, NEW g \in Fetchers, MakeDirectory(g) \/ WriteTemporary(g) \/ PutFails(g)
    PROVE  IInv'
<1>1. /\ fetch[g].pc \in {"mkdir", "write", "rename"}
      /\ UNCHANGED <<store, bucket, file, index, sweep, pc, orphans>>
      /\ Goes(g, "write") \/ Goes(g, "rename") \/ Goes(g, "ok")
  BY DEF MakeDirectory, WriteTemporary, PutFails
<1>2. store = "file"
  BY <1>1 DEF IInv, FilesOfFileStore
<1>3. PICK place \in {"write", "rename", "ok"} : Goes(g, place)
  BY <1>1
<1> DEFINE f == Fetching(g, place, fetch[g].at, fetch[g].image)
<1>4. Becomes(g, f)
  BY <1>1, <1>2, <1>3, GoesOn
<1>5. \A h \in Fetchers : h # g => fetch'[h] = fetch[h]
  BY <1>1, <1>4, OthersStay
<1>6. dirs' \subseteq Buckets /\ temps' \subseteq Buckets \X Fetchers
  BY CacheTypes, FetchParts DEF MakeDirectory, WriteTemporary, PutFails, MkdirAll
<1>7. IndexType'
  BY <1>1, CacheTypes DEF IndexType, IndexAgrees, index
<1>8. NoOrphans'
  <2>1. ASSUME NEW p \in Paths, Tracked(p)
        PROVE  Tracked(p)'
    <3>1. Indexed(p) => Indexed(p)'
      BY <1>1 DEF Indexed, PathOf, index
    <3>2. Held(p) => Held(p)'
      BY <1>1, <1>5 DEF Held, Key
    <3> QED BY <2>1, <3>1, <3>2 DEF Tracked
  <2> QED BY <1>1, <2>1, CacheTypes DEF NoOrphans, OnDisk
<1> QED BY <1>1, <1>2, <1>4, <1>6, <1>7, <1>8, CacheTypes, CacheStep DEF OnDisk

\* The file that appears is in the hands of g, which inserts its entry next.
LEMMA RenameStep ==
    ASSUME IInv, NEW g \in Fetchers, RenameTemporary(g)
    PROVE  IInv'
<1> DEFINE path == <<fetch[g].at, Key(g)>>
           f == Fetching(g, "insert", fetch[g].at, fetch[g].image)
<1>1. /\ fetch[g].pc = "rename" /\ Goes(g, "insert")
      /\ UNCHANGED <<store, bucket, dirs, index, sweep, pc, orphans>>
      /\ file' = [file EXCEPT ![path] = fetch[g].image]
      /\ temps' = temps \ {<<fetch[g].at, g>>}
  BY DEF RenameTemporary, Rename
<1>2. store = "file"
  BY <1>1 DEF IInv, FilesOfFileStore
<1>3. Becomes(g, f)
  BY <1>1, <1>2, GoesOn
<1>4. fetch'[g] = f /\ \A h \in Fetchers : h # g => fetch'[h] = fetch[h]
  BY <1>1, <1>3, OthersStay
<1>5. path \in Paths
  BY KeyType, FetchParts DEF Paths
<1>6. file' \in [Paths -> Images \cup {None}]
  BY <1>1, <1>5, CacheTypes, FetchParts
<1>7. IndexType'
  BY <1>1, CacheTypes DEF IndexType, IndexAgrees, index
<1>8. NoOrphans'
  <2>1. ASSUME NEW p \in Paths, p = path
        PROVE  Held(p)'
    BY <1>4, <2>1 DEF Held, Fetching, Key
  <2>2. ASSUME NEW p \in Paths, Tracked(p)
        PROVE  Tracked(p)'
    <3>1. Indexed(p) => Indexed(p)'
      BY <1>1 DEF Indexed, PathOf, index
    <3>2. Held(p) => Held(p)'
      BY <1>1, <1>4 DEF Held, Key
    <3> QED BY <2>2, <3>1, <3>2 DEF Tracked
  <2>3. ASSUME NEW p \in Paths, p # path
        PROVE  OnDisk(p)' <=> OnDisk(p)
    BY <1>1, <1>5, <2>3, CacheTypes DEF OnDisk
  <2> HIDE DEF path
  <2>4. ASSUME NEW p \in Paths, OnDisk(p)'
        PROVE  Tracked(p)' \/ p \in orphans'
    <3>1. CASE p = path
      BY <2>1, <3>1 DEF Tracked
    <3>2. CASE p # path
      BY <1>1, <2>2, <2>3, <2>4, <3>2, CacheTypes DEF NoOrphans
    <3> QED BY <3>1, <3>2
  <2> QED BY <2>4 DEF NoOrphans
<1> QED BY <1>1, <1>2, <1>3, <1>6, <1>7, <1>8, CacheTypes, CacheStep

\* The path of the entry becomes listed; that of the entry before it is either
\* the same or in the hands of g, which removes the file next.
LEMMA InsertStep ==
    ASSUME IInv, NEW g \in Fetchers, Insert(g)
    PROVE  IInv'
<1> DEFINE k == Key(g)
           entry == [bucket |-> fetch[g].at, url |-> g[2]]
           old == byKey[k]
           stale == store = "file" /\ old # None /\ old.bucket # fetch[g].at
           f == IF stale THEN Fetching(g, "unlink", old.bucket, fetch[g].image)
                ELSE Fetching(g, "ok", fetch[g].at, fetch[g].image)
<1>1. /\ fetch[g].pc = "insert" /\ insertOrReplace(k, entry)
      /\ UNCHANGED <<store, bucket, disk, sweep, pc, orphans>>
      /\ fetch' = [fetch EXCEPT ![g] = f]
  BY DEF Insert, Goes
<1>2. k \in Keys /\ entry \in Entries
  BY KeyType, FetchParts DEF Entries
<1>3. old # None => old.bucket \in Buckets
  BY <1>2, NotNone, CacheTypes DEF IndexType
<1>4. Becomes(g, f)
  <2>1. CASE stale
    <3>1. fetch' = [fetch EXCEPT ![g] = Fetching(g, "unlink", old.bucket, fetch[g].image)]
      BY <1>1, <2>1
    <3>2. Becomes(g, Fetching(g, "unlink", old.bucket, fetch[g].image))
      BY <1>1, <1>3, <2>1, <3>1, FetchParts, MoveStep
    <3> QED BY <2>1, <3>2
  <2>2. CASE ~stale
    <3>1. fetch' = [fetch EXCEPT ![g] = Fetching(g, "ok", fetch[g].at, fetch[g].image)]
      BY <1>1, <2>2
    <3>2. Becomes(g, Fetching(g, "ok", fetch[g].at, fetch[g].image))
      BY <1>1, <3>1, FetchParts, MoveStep DEF FileSteps
    <3> QED BY <2>2, <3>2
  <2> QED BY <2>1, <2>2
<1>5. fetch'[g] = f /\ \A h \in Fetchers : h # g => fetch'[h] = fetch[h]
  BY <1>1, <1>4, OthersStay
<1>6. IndexType'
  BY <1>1, <1>2, CacheTypes, InsertKeepsIndex
<1>7. byKey' = [byKey EXCEPT ![k] = entry] /\ byKey'[k] = entry
  BY <1>1, <1>2, CacheTypes DEF insertOrReplace, IndexType
<1>8. ASSUME NEW p \in Paths, OnDisk(p)'
      PROVE  Tracked(p)' \/ p \in orphans'
  <2>1. store = "file" /\ OnDisk(p)
    BY <1>1, <1>8, CacheTypes DEF OnDisk, disk
  <2>2. CASE p = <<fetch[g].at, k>>
    <3>1. Indexed(p)'
      BY <1>2, <1>7, <2>2, NotNone DEF Indexed, PathOf
    <3> QED BY <3>1 DEF Tracked
  <2>3. CASE p # <<fetch[g].at, k>> /\ Indexed(p)
    <3>1. p[2] \in Keys /\ p = <<p[1], p[2]>> /\ byKey[p[2]] # None /\ byKey[p[2]].bucket = p[1]
      BY <2>3 DEF Paths, Indexed, PathOf
    <3>2. CASE p[2] = k
      <4>1. stale /\ p = <<old.bucket, k>>
        BY <2>1, <2>3, <3>1, <3>2
      <4>2. fetch'[g].pc = "unlink" /\ p = <<fetch'[g].at, Key(g)>>
        BY <1>5, <4>1 DEF Fetching
      <4>3. Held(p)'
        BY <4>2 DEF Held, Key
      <4> QED BY <4>3 DEF Tracked
    <3>3. CASE p[2] # k
      <4>1. Indexed(p)'
        BY <1>7, <2>3, <3>1, <3>3 DEF Indexed, PathOf
      <4> QED BY <4>1 DEF Tracked
    <3> QED BY <3>2, <3>3
  <2>4. CASE p # <<fetch[g].at, k>> /\ Held(p)
    <3>1. Held(p)'
      BY <1>1, <1>5, <2>4 DEF Held, Key
    <3> QED BY <3>1 DEF Tracked
  <2>5. CASE p \in orphans
    BY <1>1, <2>5
  <2> QED BY <2>1, <2>2, <2>3, <2>4, <2>5, CacheTypes DEF NoOrphans, Tracked
<1>9. NoOrphans'
  BY <1>8 DEF NoOrphans
<1> HIDE DEF f
<1> QED BY <1>1, <1>4, <1>6, <1>9, CacheTypes, CacheStep DEF disk, OnDisk

\* The path that g lets go of has no file any more.
LEMMA RemoveOldStep ==
    ASSUME IInv, NEW g \in Fetchers, RemoveOld(g)
    PROVE  IInv'
<1> DEFINE path == <<fetch[g].at, Key(g)>>
<1>1. /\ fetch[g].pc = "unlink" /\ Goes(g, "ok")
      /\ UNCHANGED <<store, bucket, dirs, temps, index, sweep, pc, orphans>>
      /\ file' = [file EXCEPT ![path] = None]
  BY DEF RemoveOld, Unlink
<1>2. Becomes(g, Fetching(g, "ok", fetch[g].at, fetch[g].image))
  BY <1>1, GoesOn DEF FileSteps
<1>3. \A h \in Fetchers : h # g => fetch'[h] = fetch[h]
  BY <1>1, <1>2, OthersStay
<1>4. path \in Paths
  BY KeyType, FetchParts DEF Paths
<1>5. file' \in [Paths -> Images \cup {None}]
  BY <1>1, <1>4, CacheTypes
<1>6. IndexType'
  BY <1>1, CacheTypes DEF IndexType, IndexAgrees, index
<1>7. ASSUME NEW p \in Paths, OnDisk(p)'
      PROVE  OnDisk(p) /\ (Tracked(p)' \/ p \in orphans')
  <2>1. p # path /\ OnDisk(p)
    BY <1>1, <1>4, <1>7, CacheTypes DEF OnDisk
  <2>2. Indexed(p) => Indexed(p)'
    BY <1>1 DEF Indexed, PathOf, index
  <2>3. Held(p) => Held(p)'
    BY <1>1, <1>3, <2>1 DEF Held, Key
  <2> QED BY <1>1, <2>1, <2>2, <2>3, CacheTypes DEF NoOrphans, Tracked
<1>8. NoOrphans'
  BY <1>7 DEF NoOrphans
<1> HIDE DEF path
<1> QED BY <1>1, <1>2, <1>5, <1>6, <1>7, <1>8, CacheTypes, CacheStep

\* Only the path of the entry that is removed may lose its tracking, and then
\* it is remembered.
LEMMA PurgeStep ==
    ASSUME IInv, NEW g \in Fetchers, Purge(g)
    PROVE  IInv'
<1> DEFINE k == Key(g)
<1>1. /\ fetch[g].pc = "purge" /\ Goes(g, "http") /\ deleteKey(k)
      /\ UNCHANGED <<store, bucket, disk, sweep, pc>>
  BY DEF Purge
<1>2. k \in Keys
  BY KeyType
<1>3. Becomes(g, Fetching(g, "http", fetch[g].at, fetch[g].image))
  BY <1>1, GoesOn DEF FileSteps
<1>4. \A h \in Fetchers : h # g => fetch'[h] = fetch[h]
  BY <1>1, <1>3, OthersStay
<1>5. IndexType'
  BY <1>1, <1>2, CacheTypes, DeleteKeepsIndex
<1>6. orphans' \subseteq Paths /\ orphans \subseteq orphans'
  BY <1>2, NotNone, CacheTypes DEF Purge, PathOf, Paths, IndexType
<1>7. ASSUME NEW p \in Paths, OnDisk(p)'
      PROVE  OnDisk(p) /\ (Tracked(p)' \/ p \in orphans')
  <2>1. OnDisk(p)
    BY <1>1, <1>7 DEF OnDisk, disk
  <2>2. CASE Indexed(p) /\ p[2] = k
    BY <2>1, <2>2 DEF Purge, Indexed
  <2>3. CASE Indexed(p) /\ p[2] # k
    <3>1. Indexed(p)'
      BY <1>1, <2>3 DEF Indexed, PathOf, deleteKey, Paths
    <3> QED BY <2>1, <3>1 DEF Tracked
  <2>4. CASE Held(p)
    <3>1. Held(p)'
      BY <1>1, <1>4, <2>4 DEF Held, Key
    <3> QED BY <2>1, <3>1 DEF Tracked
  <2>5. CASE p \in orphans
    BY <1>6, <2>1, <2>5
  <2> QED BY <2>1, <2>2, <2>3, <2>4, <2>5, CacheTypes DEF NoOrphans, Tracked
<1>8. NoOrphans'
  BY <1>7 DEF NoOrphans
<1> QED BY <1>1, <1>3, <1>5, <1>6, <1>7, <1>8, CacheTypes, CacheStep DEF disk

-----------------------------------------------------------------------------
(* The sweeper, time, and Process.                                         *)

SweepType == sweep \in [paths : SUBSET Paths, bucket : Buckets \cup {NoBucket},
                        left : 0 .. MaxSweeps]

\* What is left to show of a step that no fetch takes.
LEMMA SweepStep ==
    ASSUME IInv, UNCHANGED <<store, bucket, temps, pc, fetch, orphans>>,
           dirs' \subseteq Buckets, file' \in [Paths -> Images \cup {None}], SweepType', IndexType',
           \A p \in Paths : OnDisk(p)' => OnDisk(p),
           \A p \in Paths : OnDisk(p)' /\ Indexed(p) => Indexed(p)' \/ p \in sweep'.paths,
           \A p \in Paths : OnDisk(p)' /\ p \in sweep.paths => p \in sweep'.paths
    PROVE  IInv'
<1>1. TypeOK'
  BY DEF IInv, TypeOK, SweepType, IndexType
<1>2. AttemptsLeft' /\ OffUntilStarted' /\ FilesOfFileStore'
  BY DEF IInv, AttemptsLeft, OffUntilStarted, FilesOfFileStore
<1>3. ASSUME NEW p \in Paths, OnDisk(p)'
      PROVE  Tracked(p)' \/ p \in orphans'
  <2>1. Held(p) => Held(p)'
    BY <1>3 DEF Held, Key
  <2>2. p \in sweep'.paths => Held(p)'
    BY DEF Held
  <2> QED BY <1>3, <2>1, <2>2 DEF IInv, NoOrphans, Tracked
<1> QED BY <1>1, <1>2, <1>3 DEF IInv, NoOrphans

LEMMA DeleteStep ==
    ASSUME IInv, NEW k \in Keys, Delete(k), UNCHANGED <<pc, fetch, orphans>>
    PROVE  IInv'
<1> DEFINE old == IF byKey[k] = None THEN {} ELSE {PathOf(k, byKey[k])}
<1>1. /\ sweep.paths = {} /\ sweep.left > 0 /\ deleteKey(k)
      /\ UNCHANGED <<store, bucket, disk>>
      /\ sweep' = [sweep EXCEPT !.left = @ - 1, !.paths = ToUnlink(old)]
  BY DEF Delete, SweeperIdle
<1>2. IndexType'
  BY <1>1, CacheTypes, DeleteKeepsIndex
<1>3. old \subseteq Paths
  BY NotNone, CacheTypes DEF IndexType, PathOf, Paths
<1>4. ToUnlink(old) \subseteq Paths
  BY <1>3 DEF ToUnlink
<1>5. sweep'.paths = ToUnlink(old)
  BY <1>1 DEF IInv, TypeOK
<1>6. SweepType'
  <2>1. sweep.left - 1 \in 0 .. MaxSweeps
    BY <1>1, CacheAssumption DEF IInv, TypeOK
  <2> HIDE DEF old
  <2> QED BY <1>1, <1>4, <2>1 DEF IInv, TypeOK, SweepType
<1>7. ASSUME NEW p \in Paths, OnDisk(p)'
      PROVE  OnDisk(p) /\ (Indexed(p) => Indexed(p)' \/ p \in sweep'.paths)
  <2>1. OnDisk(p) /\ store = "file"
    BY <1>1, <1>7, CacheTypes DEF OnDisk, disk
  <2>2. CASE Indexed(p) /\ p[2] = k
    BY <1>5, <2>1, <2>2 DEF Indexed, ToUnlink
  <2>3. CASE Indexed(p) /\ p[2] # k
    BY <1>1, <2>1, <2>3 DEF Indexed, PathOf, deleteKey, Paths
  <2> QED BY <2>1, <2>2, <2>3
<1> HIDE DEF old
<1> QED BY <1>1, <1>2, <1>6, <1>7, CacheTypes, SweepStep DEF disk

\* Here the index has to agree with itself: the keys listed in the bucket are
\* all that have an entry in it.
LEMMA DeleteBucketStep ==
    ASSUME IInv, NEW b \in Buckets, DeleteBucket(b), UNCHANGED <<pc, fetch, orphans>>
    PROVE  IInv'
<1> DEFINE listed == {<<b, k>> : k \in byBucket[b]}
           place == IF store = "file" THEN b ELSE NoBucket
<1>1. /\ sweep.paths = {} /\ sweep.left > 0 /\ removeBucket(b)
      /\ UNCHANGED <<store, bucket, disk>>
      /\ sweep' = [sweep EXCEPT !.left = @ - 1, !.paths = ToUnlink(listed), !.bucket = place]
  BY DEF DeleteBucket, SweeperIdle
<1>2. IndexType'
  BY <1>1, CacheTypes, RemoveKeepsIndex
<1>3. listed \subseteq Paths
  BY CacheTypes DEF IndexType, Paths
<1>4. ToUnlink(listed) \subseteq Paths /\ place \in Buckets \cup {NoBucket}
  BY <1>3 DEF ToUnlink
<1>5. sweep'.paths = ToUnlink(listed)
  BY <1>1 DEF IInv, TypeOK
<1>6. SweepType'
  <2>1. sweep.left - 1 \in 0 .. MaxSweeps
    BY <1>1, CacheAssumption DEF IInv, TypeOK
  <2> HIDE DEF listed, place
  <2> QED BY <1>1, <1>4, <2>1 DEF IInv, TypeOK, SweepType
<1>7. ASSUME NEW p \in Paths, OnDisk(p)'
      PROVE  OnDisk(p) /\ (Indexed(p) => Indexed(p)' \/ p \in sweep'.paths)
  <2>1. OnDisk(p) /\ store = "file"
    BY <1>1, <1>7, CacheTypes DEF OnDisk, disk
  <2>2. p[1] \in Buckets /\ p[2] \in Keys /\ p = <<p[1], p[2]>>
    BY DEF Paths
  <2>3. Indexed(p) => byKey[p[2]] # None /\ byKey[p[2]].bucket = p[1]
    BY <2>2 DEF Indexed, PathOf
  <2>4. CASE Indexed(p) /\ p[2] \in byBucket[b]
    <3>1. p[1] = b
      BY <2>2, <2>3, <2>4, CacheTypes DEF IndexType, IndexAgrees
    <3>2. p \in listed
      BY <2>2, <2>4, <3>1
    <3> QED BY <1>5, <2>1, <3>2 DEF ToUnlink
  <2>5. CASE Indexed(p) /\ p[2] \notin byBucket[b]
    BY <1>1, <2>1, <2>2, <2>5 DEF Indexed, PathOf, removeBucket
  <2> QED BY <2>1, <2>4, <2>5
<1> HIDE DEF listed, place
<1> QED BY <1>1, <1>2, <1>6, <1>7, CacheTypes, SweepStep DEF disk

LEMMA SweepFileStep ==
    ASSUME IInv, SweepFile, UNCHANGED <<pc, fetch, orphans>>
    PROVE  IInv'
<1>1. PICK q \in sweep.paths :
        /\ file' = [file EXCEPT ![q] = None]
        /\ sweep' = [sweep EXCEPT !.paths = @ \ {q}]
        /\ UNCHANGED <<store, bucket, dirs, temps, index>>
  BY DEF SweepFile, Unlink
<1>2. q \in Paths /\ SweepType' /\ sweep'.paths = sweep.paths \ {q}
  BY <1>1 DEF IInv, TypeOK, SweepType
<1>3. file' \in [Paths -> Images \cup {None}]
  BY <1>1, CacheTypes
<1>4. IndexType'
  BY <1>1, CacheTypes DEF IndexType, IndexAgrees, index
<1>5. \A p \in Paths : OnDisk(p)' => OnDisk(p) /\ p # q
  BY <1>1, <1>2, CacheTypes DEF OnDisk
<1>6. \A p \in Paths : Indexed(p) => Indexed(p)'
  BY <1>1 DEF Indexed, PathOf, index
<1> QED BY <1>1, <1>2, <1>3, <1>4, <1>5, <1>6, CacheTypes, SweepStep

LEMMA SweepDirectoryStep ==
    ASSUME IInv, SweepDirectory, UNCHANGED <<pc, fetch, orphans>>
    PROVE  IInv'
<1>1. /\ sweep' = [sweep EXCEPT !.bucket = NoBucket] /\ dirs' \subseteq Buckets
      /\ UNCHANGED <<store, bucket, file, temps, index>>
  BY CacheTypes DEF SweepDirectory
<1>2. SweepType' /\ sweep'.paths = sweep.paths
  BY <1>1 DEF IInv, TypeOK, SweepType
<1>3. IndexType'
  BY <1>1, CacheTypes DEF IndexType, IndexAgrees, index
<1>4. \A p \in Paths : (OnDisk(p)' <=> OnDisk(p)) /\ (Indexed(p) => Indexed(p)')
  BY <1>1 DEF OnDisk, Indexed, PathOf, index
<1> QED BY <1>1, <1>2, <1>3, <1>4, CacheTypes, SweepStep

LEMMA BucketStep ==
    ASSUME IInv, NextBucket, UNCHANGED <<pc, fetch, orphans>>
    PROVE  IInv'
<1>1. bucket' \in Buckets /\ UNCHANGED <<store, disk, index, sweep>>
  BY CacheAssumption DEF IInv, TypeOK, NextBucket, Buckets
<1>2. TypeOK' /\ AttemptsLeft' /\ OffUntilStarted' /\ FilesOfFileStore'
  BY <1>1 DEF IInv, TypeOK, AttemptsLeft, OffUntilStarted, FilesOfFileStore, disk, index,
              IndexAgrees, OnDisk
<1>3. NoOrphans'
  BY <1>1 DEF IInv, NoOrphans, Tracked, Indexed, PathOf, Held, Key, OnDisk, disk, index
<1> QED BY <1>2, <1>3 DEF IInv

\* The goroutines of r held nothing before they were started.
LEMMA StartStep ==
    ASSUME IInv, NEW r \in Requests, Start(r)
    PROVE  IInv'
<1> DEFINE f == [pc |-> "get", at |-> 0, image |-> None, failures |-> 0]
<1>1. /\ pc[r] = "new" /\ pc' = [pc EXCEPT ![r] = "waiting"] /\ UNCHANGED <<cache, orphans>>
      /\ fetch' = [g \in Fetchers |-> IF g \in Of(r) THEN f ELSE fetch[g]]
  BY DEF Start, NewFetch
<1>2. f \in Fetches
  BY CacheAssumption, FetchAssumption DEF Fetches, Buckets
<1>3. \A g \in Fetchers : fetch'[g] = IF g[1] = r THEN f ELSE fetch[g]
  BY <1>1 DEF Of
<1>4. TypeOK'
  BY <1>1, <1>2 DEF IInv, TypeOK, cache, disk, index, IndexAgrees
<1>5. AttemptsLeft'
  BY <1>3, FetchAssumption DEF IInv, AttemptsLeft
<1>6. OffUntilStarted'
  BY <1>1, <1>3 DEF IInv, TypeOK, OffUntilStarted, Fetchers
<1>7. FilesOfFileStore'
  BY <1>1, <1>3 DEF IInv, FilesOfFileStore, OnDisk, cache, disk
<1>8. \A g \in Fetchers : fetch[g].pc # "off" => fetch'[g] = fetch[g]
  BY <1>1, <1>3 DEF IInv, OffUntilStarted
<1>9. ASSUME NEW p \in Paths, Tracked(p)
      PROVE  Tracked(p)'
  <2>1. Indexed(p) => Indexed(p)'
    BY <1>1 DEF Indexed, PathOf, cache, index
  <2>2. Held(p) => Held(p)'
    BY <1>1, <1>8 DEF Held, Key, cache
  <2> QED BY <1>9, <2>1, <2>2 DEF Tracked
<1>10. NoOrphans'
  BY <1>1, <1>9 DEF IInv, NoOrphans, OnDisk, cache, disk
<1> QED BY <1>4, <1>5, <1>6, <1>7, <1>10 DEF IInv

LEMMA FinishStep ==
    ASSUME IInv, NEW r \in Requests, Finish(r)
    PROVE  IInv'
<1>1. /\ pc' = [pc EXCEPT ![r] = IF Refused(r) THEN "refused" ELSE "forwarded"]
      /\ UNCHANGED <<cache, fetch, orphans>>
  BY DEF Finish
<1>2. TypeOK' /\ OffUntilStarted'
  BY <1>1 DEF IInv, TypeOK, OffUntilStarted, cache, disk, index, IndexAgrees, Fetchers
<1>3. AttemptsLeft' /\ FilesOfFileStore'
  BY <1>1 DEF IInv, AttemptsLeft, FilesOfFileStore, OnDisk, cache, disk
<1>4. NoOrphans'
  BY <1>1 DEF IInv, NoOrphans, Tracked, Indexed, PathOf, Held, Key, OnDisk, cache, disk, index
<1> QED BY <1>2, <1>3, <1>4 DEF IInv

LEMMA StutterStep == ASSUME IInv, UNCHANGED vars PROVE IInv'
<1>1. TypeOK' /\ OffUntilStarted'
  BY DEF IInv, TypeOK, OffUntilStarted, vars, cache, disk, index, IndexAgrees
<1>2. AttemptsLeft' /\ FilesOfFileStore'
  BY DEF IInv, AttemptsLeft, FilesOfFileStore, OnDisk, vars, cache, disk
<1>3. NoOrphans'
  BY DEF IInv, NoOrphans, Tracked, Indexed, PathOf, Held, Key, OnDisk, vars, cache, disk, index
<1> QED BY <1>1, <1>2, <1>3 DEF IInv

-----------------------------------------------------------------------------

LEMMA InitIInv == Init => IInv
<1> SUFFICES ASSUME Init PROVE IInv
  OBVIOUS
<1>1. 0 \in Buckets /\ NewFetch \in Fetches
  BY CacheAssumption, FetchAssumption DEF Buckets, NewFetch, Fetches
<1>2. IndexType
  BY DEF Init, InitCache, IndexType, IndexAgrees
<1>3. TypeOK
  BY <1>1, <1>2, CacheAssumption DEF Init, InitCache, TypeOK, IndexType
<1>4. AttemptsLeft /\ OffUntilStarted
  BY FetchAssumption DEF Init, AttemptsLeft, OffUntilStarted, NewFetch
<1>5. FilesOfFileStore /\ NoOrphans
  BY DEF Init, InitCache, FilesOfFileStore, NoOrphans, OnDisk, NewFetch
<1> QED BY <1>3, <1>4, <1>5 DEF IInv

LEMMA NextIInv == IInv /\ [Next]_vars => IInv'
<1> SUFFICES ASSUME IInv, [Next]_vars PROVE IInv'
  OBVIOUS
<1>1. CASE \E r \in Requests : Start(r) \/ Finish(r)
  BY <1>1, StartStep, FinishStep
<1>2. CASE \E g \in Fetchers : Get(g)
  BY <1>2, LookupStep, ReadFileStep, FailingStep, PurgeStep, RefetchStep DEF Get
<1>3. CASE \E g \in Fetchers : Put(g)
  BY <1>3, TemporaryStep, RenameStep, InsertStep, RemoveOldStep DEF Put
<1>4. CASE \E g \in Fetchers : Fetch(g) \/ DownloadFails(g)
  BY <1>4, DownloadStep, FailingStep DEF Fetch
<1>5. CASE Sweep /\ UNCHANGED <<pc, fetch, orphans>>
  <2>1. 0 .. bucket \subseteq Buckets
    BY CacheAssumption DEF IInv, TypeOK, Buckets
  <2> QED BY <1>5, <2>1, DeleteStep, DeleteBucketStep, SweepFileStep, SweepDirectoryStep DEF Sweep
<1>6. CASE NextBucket /\ UNCHANGED <<pc, fetch, orphans>>
  BY <1>6, BucketStep
<1>7. CASE AllAnswered \/ UNCHANGED vars
  BY <1>7, StutterStep DEF AllAnswered
<1> QED BY <1>1, <1>2, <1>3, <1>4, <1>5, <1>6, <1>7 DEF Next

LEMMA Invariance == Spec => []IInv
  BY InitIInv, NextIInv, PTL DEF Spec

\* Every reachable state has the declared types, and the two maps of the index
\* agree (memory_index.go).
THEOREM TypeCorrect == Spec => []TypeOK
<1>1. IInv => TypeOK
  BY DEF IInv
<1> QED BY <1>1, Invariance, PTL

\* No file is left without an entry, in whatever order Get, Put, Delete and
\* DeleteBucket run (file_store.go), but for those whose entry a Get removed
\* although it had not looked at it.
THEOREM OnlyGetsLoseFiles == Spec => []NoOrphans
<1>1. IInv => NoOrphans
  BY DEF IInv
<1> QED BY <1>1, Invariance, PTL

-----------------------------------------------------------------------------
(* Where the images come from: each file and each entry of a key was made  *)
(* for a URL of that key, and no image gets past the limit on the way.     *)

GoodImage(i, k) ==
    /\ i # None /\ KeyOf[i.url] = k
    /\ i.size \in Sizes /\ ~Exceeds(i.size, MaxBytesPerURL)

FilesGood == \A b \in Buckets, k \in Keys : OnDisk(<<b, k>>) => GoodImage(file[<<b, k>>], k)
EntriesGood == \A k \in Keys : byKey[k] # None => KeyOf[byKey[k].url] = k

HasImage == FileSteps \cup {"insert", "ok"}

\* A goroutine with place and image i may be at key k.
GoodFetch(f, k) ==
    /\ f.pc \in HasImage => GoodImage(f.image, k)
    /\ f.pc = "refetch" => KeyOf[f.image.url] = k

FetchesGood == \A g \in Fetchers : GoodFetch(fetch[g], Key(g))

\* Goroutines of a request that went on have ended, with images that fit.
ForwardedGood ==
    \A r \in Requests : pc[r] = "forwarded" =>
        /\ \A g \in Of(r) : fetch[g].pc = "ok"
        /\ ~Exceeds(SumDecoded(r), MaxBytesPerRequest)

Provenance == FilesGood /\ EntriesGood /\ FetchesGood /\ ForwardedGood

\* A step of one goroutine that has not ended.
LEMMA FetchKeepsGood ==
    ASSUME IInv, Provenance, NEW g \in Fetchers, NEW f, GoodFetch(f, Key(g)),
           fetch' = [fetch EXCEPT ![g] = f], UNCHANGED pc, ~Ended(g)
    PROVE  FetchesGood' /\ ForwardedGood'
<1>1. fetch'[g] = f /\ \A h \in Fetchers : h # g => fetch'[h] = fetch[h]
  BY DEF IInv, TypeOK
<1>2. FetchesGood'
  BY <1>1 DEF Provenance, FetchesGood, Key
<1>3. ASSUME NEW r \in Requests, pc'[r] = "forwarded"
      PROVE  (\A h \in Of(r) : fetch'[h].pc = "ok") /\ ~Exceeds(SumDecoded(r)', MaxBytesPerRequest)
  <2>1. (\A h \in Of(r) : fetch[h].pc = "ok") /\ ~Exceeds(SumDecoded(r), MaxBytesPerRequest)
    BY <1>3 DEF Provenance, ForwardedGood
  <2>2. g \notin Of(r) /\ Of(r) \subseteq Fetchers
    BY <2>1 DEF Ended, Of
  <2>3. \A h \in Of(r) : fetch'[h] = fetch[h]
    BY <1>1, <2>2
  <2>4. [h \in Of(r) |-> fetch'[h].image.size] = [h \in Of(r) |-> fetch[h].image.size]
    BY <2>3
  <2>5. SumDecoded(r)' = SumDecoded(r)
    BY <2>4 DEF SumDecoded, Of, Fetchers
  <2> QED BY <2>1, <2>3, <2>5
<1> QED BY <1>2, <1>3 DEF ForwardedGood, Of, Fetchers, Exceeds

\* Files and entries may go, and goroutines stay as they are.
LEMMA CacheKeepsGood ==
    ASSUME Provenance, UNCHANGED <<pc, fetch>>,
           \A p \in Paths : file'[p] \in {None, file[p]},
           \A k \in Keys : byKey'[k] \in {None, byKey[k]}
    PROVE  Provenance'
<1>1. FilesGood'
  BY DEF Provenance, FilesGood, OnDisk, Paths, GoodImage, Exceeds
<1>2. EntriesGood'
  BY DEF Provenance, EntriesGood
<1>3. FetchesGood'
  BY DEF Provenance, FetchesGood, GoodFetch, GoodImage, Exceeds, Key
<1>4. ForwardedGood'
  BY DEF Provenance, ForwardedGood, SumDecoded, Of, Exceeds
<1> QED BY <1>1, <1>2, <1>3, <1>4 DEF Provenance

\* Files and entries stay as they are.
LEMMA SameCacheGood ==
    ASSUME Provenance, UNCHANGED <<file, byKey>>
    PROVE  FilesGood' /\ EntriesGood'
  BY DEF Provenance, FilesGood, EntriesGood, OnDisk, GoodImage, Exceeds

\* Goroutines move on with the image that they have.
LEMMA GoingKeepsGood ==
    ASSUME IInv, Provenance, NEW g \in Fetchers, UNCHANGED pc,
           \/ \E place : /\ Goes(g, place) /\ ~Ended(g) /\ place # "refetch"
                         /\ place \in HasImage => fetch[g].pc \in HasImage
           \/ AttemptFails(g) /\ ~Ended(g)
    PROVE  FetchesGood' /\ ForwardedGood'
<1>1. GoodFetch(fetch[g], Key(g))
  BY DEF Provenance, FetchesGood
<1>2. ASSUME NEW place, Goes(g, place), ~Ended(g), place # "refetch",
             place \in HasImage => fetch[g].pc \in HasImage
      PROVE  FetchesGood' /\ ForwardedGood'
  <2> DEFINE f == Fetching(g, place, fetch[g].at, fetch[g].image)
  <2>1. GoodFetch(f, Key(g)) /\ fetch' = [fetch EXCEPT ![g] = f]
    BY <1>1, <1>2 DEF GoodFetch, Goes, Fetching
  <2> HIDE DEF f
  <2> QED BY <1>2, <2>1, FetchKeepsGood
<1>3. ASSUME AttemptFails(g), ~Ended(g)
      PROVE  FetchesGood' /\ ForwardedGood'
  <2> DEFINE f == [pc |-> IF fetch[g].failures < RetryCount THEN "get" ELSE "failed",
                   at |-> fetch[g].at, image |-> fetch[g].image,
                   failures |-> fetch[g].failures + 1]
  <2>1. f.pc \notin HasImage \cup {"refetch"}
    BY DEF HasImage, FileSteps
  <2>2. GoodFetch(f, Key(g)) /\ fetch' = [fetch EXCEPT ![g] = f]
    BY <1>3, <2>1 DEF GoodFetch, AttemptFails
  <2> HIDE DEF f
  <2> QED BY <1>3, <2>2, FetchKeepsGood
<1> QED BY <1>2, <1>3

LEMMA GetGood ==
    ASSUME IInv, Provenance, NEW g \in Fetchers, Get(g)
    PROVE  Provenance'
<1> USE DEF HasImage, FileSteps, Ended
<1>1. CASE Lookup(g)
  <2> DEFINE entry == byKey[Key(g)]
  <2>1. fetch[g].pc = "get" /\ UNCHANGED <<file, byKey, pc>>
    BY <1>1 DEF Lookup, cache, disk, index
  <2>2. CASE Goes(g, "http")
    BY <2>1, <2>2, GoingKeepsGood, SameCacheGood DEF Provenance
  <2>3. CASE ~Goes(g, "http")
    <3> DEFINE f == IF store = "file" THEN Fetching(g, "read", entry.bucket, None)
                    ELSE Fetching(g, "refetch", entry.bucket, Image(entry.url, 0))
    <3>1. fetch' = [fetch EXCEPT ![g] = f] /\ entry # None
      BY <1>1, <2>3 DEF Lookup
    <3>2. KeyOf[entry.url] = Key(g)
      BY <3>1, KeyType DEF Provenance, EntriesGood
    <3>3. GoodFetch(f, Key(g))
      BY <3>2 DEF GoodFetch, Fetching, Image
    <3> HIDE DEF f
    <3> QED BY <2>1, <3>1, <3>3, FetchKeepsGood, SameCacheGood DEF Provenance
  <2> QED BY <2>2, <2>3
<1>2. CASE ReadFile(g)
  <2>1. fetch[g].pc = "read" /\ UNCHANGED <<file, byKey, pc>>
    BY <1>2 DEF ReadFile, cache, disk, index
  <2>2. CASE Goes(g, "purge")
    BY <2>1, <2>2, GoingKeepsGood, SameCacheGood DEF Provenance
  <2>3. CASE ~Goes(g, "purge")
    <3> DEFINE f == Fetching(g, "ok", fetch[g].at, file[<<fetch[g].at, Key(g)>>])
    <3>1. fetch' = [fetch EXCEPT ![g] = f] /\ OnDisk(<<fetch[g].at, Key(g)>>)
      BY <1>2, <2>3 DEF ReadFile, Has
    <3>2. fetch[g].at \in Buckets /\ Key(g) \in Keys
      BY FetchParts, KeyType
    <3>3. GoodFetch(f, Key(g))
      BY <3>1, <3>2 DEF Provenance, FilesGood, GoodFetch, Fetching
    <3> HIDE DEF f
    <3> QED BY <2>1, <3>1, <3>3, FetchKeepsGood, SameCacheGood DEF Provenance
  <2> QED BY <2>2, <2>3
<1>3. CASE ReadFails(g)
  <2>1. fetch[g].pc = "read" /\ UNCHANGED <<file, byKey, pc>> /\ AttemptFails(g)
    BY <1>3 DEF ReadFails, cache, disk, index
  <2> QED BY <2>1, GoingKeepsGood, SameCacheGood DEF Provenance
<1>4. CASE Purge(g)
  <2>1. fetch[g].pc = "purge" /\ UNCHANGED <<file, pc>> /\ Goes(g, "http")
    BY <1>4 DEF Purge, disk
  <2>2. \A k \in Keys : byKey'[k] \in {None, byKey[k]}
    BY <1>4 DEF Purge, deleteKey, IInv, TypeOK
  <2>3. FilesGood' /\ EntriesGood'
    BY <2>1, <2>2 DEF Provenance, FilesGood, EntriesGood, OnDisk, GoodImage, Exceeds
  <2> QED BY <2>1, <2>3, GoingKeepsGood DEF Provenance
<1>5. ASSUME NEW size \in Sizes, Refetch(g, size) PROVE Provenance'
  <2>1. fetch[g].pc = "refetch" /\ UNCHANGED <<file, byKey, pc>>
    BY <1>5 DEF Refetch, cache, disk, index
  <2>2. CASE AttemptFails(g)
    BY <2>1, <2>2, GoingKeepsGood, SameCacheGood DEF Provenance
  <2>3. CASE ~AttemptFails(g)
    <3> DEFINE f == Fetching(g, "ok", fetch[g].at, Image(fetch[g].image.url, size))
    <3>1. fetch' = [fetch EXCEPT ![g] = f] /\ ~Exceeds(size, MaxBytesPerURL)
      BY <1>5, <2>3 DEF Refetch, Has
    <3>2. KeyOf[fetch[g].image.url] = Key(g)
      BY <2>1 DEF Provenance, FetchesGood, GoodFetch
    <3>3. GoodFetch(f, Key(g))
      BY <3>1, <3>2 DEF GoodFetch, GoodImage, Fetching, Image, None
    <3> HIDE DEF f
    <3> QED BY <2>1, <3>1, <3>3, FetchKeepsGood, SameCacheGood DEF Provenance
  <2> QED BY <2>2, <2>3
<1> QED BY <1>1, <1>2, <1>3, <1>4, <1>5 DEF Get

LEMMA DownloadGood ==
    ASSUME IInv, Provenance, NEW g \in Fetchers, Fetch(g) \/ DownloadFails(g)
    PROVE  Provenance'
<1>1. ~Ended(g) /\ UNCHANGED <<file, byKey, pc>>
  BY DEF Fetch, Download, DownloadFails, Ended, cache, disk, index
<1>2. CASE AttemptFails(g)
  BY <1>1, <1>2, GoingKeepsGood, SameCacheGood DEF Provenance
<1>3. CASE ~AttemptFails(g)
  <2>1. PICK size \in Sizes : Download(g, size)
    BY <1>3 DEF Fetch, DownloadFails
  <2> DEFINE f == Fetching(g, AfterDownload, bucket, Image(g[2], size))
  <2>2. fetch' = [fetch EXCEPT ![g] = f] /\ ~Exceeds(size, MaxBytesPerURL)
    BY <1>3, <2>1 DEF Download
  <2>3. GoodFetch(f, Key(g))
    BY <2>2 DEF GoodFetch, GoodImage, Fetching, Image, None, Key, AfterDownload
  <2> HIDE DEF f
  <2> QED BY <1>1, <2>2, <2>3, FetchKeepsGood, SameCacheGood DEF Provenance
<1> QED BY <1>2, <1>3

LEMMA PutGood ==
    ASSUME IInv, Provenance, NEW g \in Fetchers, Put(g)
    PROVE  Provenance'
<1> USE DEF HasImage, FileSteps, Ended
<1>1. CASE MakeDirectory(g) \/ WriteTemporary(g) \/ PutFails(g)
  <2>1. /\ fetch[g].pc \in {"mkdir", "write", "rename"} /\ UNCHANGED <<file, byKey, pc>>
        /\ Goes(g, "write") \/ Goes(g, "rename") \/ Goes(g, "ok")
    BY <1>1 DEF MakeDirectory, WriteTemporary, PutFails, index
  <2> QED BY <2>1, GoingKeepsGood, SameCacheGood DEF Provenance
<1>2. CASE RenameTemporary(g)
  <2> DEFINE path == <<fetch[g].at, Key(g)>>
  <2>1. /\ fetch[g].pc = "rename" /\ UNCHANGED <<byKey, pc>> /\ Goes(g, "insert")
        /\ file' = [file EXCEPT ![path] = fetch[g].image]
    BY <1>2 DEF RenameTemporary, Rename, index
  <2>2. GoodImage(fetch[g].image, Key(g))
    BY <2>1 DEF Provenance, FetchesGood, GoodFetch
  <2>3. ASSUME NEW b \in Buckets, NEW k \in Keys, OnDisk(<<b, k>>)'
        PROVE  GoodImage(file[<<b, k>>], k)'
    <3>1. CASE <<b, k>> = path
      <4>1. file'[<<b, k>>] = fetch[g].image /\ k = Key(g)
        BY <2>1, <3>1 DEF IInv, TypeOK, Paths
      <4> QED BY <2>2, <4>1 DEF GoodImage, Exceeds
    <3>2. CASE <<b, k>> # path
      <4>1. file'[<<b, k>>] = file[<<b, k>>]
        BY <2>1, <3>2 DEF IInv, TypeOK, Paths
      <4> QED BY <2>3, <4>1 DEF Provenance, FilesGood, OnDisk, GoodImage, Exceeds
    <3> QED BY <3>1, <3>2
  <2>4. FilesGood' /\ EntriesGood'
    BY <2>1, <2>3 DEF FilesGood, Provenance, EntriesGood
  <2> QED BY <2>1, <2>4, GoingKeepsGood DEF Provenance
<1>3. CASE Insert(g)
  <2> DEFINE old == byKey[Key(g)]
             entry == [bucket |-> fetch[g].at, url |-> g[2]]
  <2>1. /\ fetch[g].pc = "insert" /\ UNCHANGED <<file, pc>>
        /\ byKey' = [byKey EXCEPT ![Key(g)] = entry]
    BY <1>3 DEF Insert, insertOrReplace, disk
  <2>2. \A k \in Keys : byKey'[k] = IF k = Key(g) THEN entry ELSE byKey[k]
    <3> HIDE DEF entry
    <3> QED BY <2>1 DEF IInv, TypeOK
  <2>3. FilesGood' /\ EntriesGood'
    BY <2>1, <2>2 DEF Provenance, FilesGood, EntriesGood, OnDisk, GoodImage, Exceeds, Key
  <2>4. CASE Goes(g, "ok")
    BY <2>1, <2>3, <2>4, GoingKeepsGood DEF Provenance
  <2>5. CASE ~Goes(g, "ok")
    <3> DEFINE f == Fetching(g, "unlink", old.bucket, fetch[g].image)
    <3>1. fetch' = [fetch EXCEPT ![g] = f]
      BY <1>3, <2>5 DEF Insert
    <3>2. GoodFetch(f, Key(g))
      BY <2>1 DEF Provenance, FetchesGood, GoodFetch, Fetching
    <3> HIDE DEF f
    <3> QED BY <2>1, <2>3, <3>1, <3>2, FetchKeepsGood DEF Provenance
  <2> QED BY <2>4, <2>5
<1>4. CASE RemoveOld(g)
  <2>1. /\ fetch[g].pc = "unlink" /\ UNCHANGED <<byKey, pc>> /\ Goes(g, "ok")
        /\ file' = [file EXCEPT ![<<fetch[g].at, Key(g)>>] = None]
    BY <1>4 DEF RemoveOld, Unlink, index
  <2>2. \A p \in Paths : file'[p] \in {None, file[p]}
    BY <2>1 DEF IInv, TypeOK
  <2>3. FilesGood' /\ EntriesGood'
    BY <2>1, <2>2 DEF Provenance, FilesGood, EntriesGood, OnDisk, GoodImage, Exceeds, Paths
  <2> QED BY <2>1, <2>3, GoingKeepsGood DEF Provenance
<1> QED BY <1>1, <1>2, <1>3, <1>4 DEF Put

LEMMA SweepGood ==
    ASSUME IInv, Provenance, Sweep \/ NextBucket, UNCHANGED <<pc, fetch>>
    PROVE  Provenance'
<1>1. \A p \in Paths : file'[p] \in {None, file[p]}
  BY DEF Sweep, Delete, DeleteBucket, SweepFile, SweepDirectory, NextBucket, Unlink, disk, IInv, TypeOK
<1>2. \A k \in Keys : byKey'[k] \in {None, byKey[k]}
  BY DEF Sweep, Delete, DeleteBucket, SweepFile, SweepDirectory, NextBucket, deleteKey,
         removeBucket, index, IInv, TypeOK
<1> QED BY <1>1, <1>2, CacheKeepsGood

LEMMA StartGood ==
    ASSUME IInv, Provenance, NEW r \in Requests, Start(r)
    PROVE  Provenance'
<1> DEFINE f == [pc |-> "get", at |-> 0, image |-> None, failures |-> 0]
<1>1. /\ pc[r] = "new" /\ pc' = [pc EXCEPT ![r] = "waiting"] /\ UNCHANGED <<file, byKey>>
      /\ fetch' = [g \in Fetchers |-> IF g \in Of(r) THEN f ELSE fetch[g]]
  BY DEF Start, NewFetch, cache, disk, index
<1>2. FetchesGood'
  <2>1. \A g \in Fetchers : fetch'[g] \in {f, fetch[g]}
    BY <1>1
  <2>2. \A k \in Keys : GoodFetch(f, k)
    BY DEF GoodFetch, HasImage, FileSteps
  <2> HIDE DEF f
  <2> QED BY <2>1, <2>2, KeyType DEF Provenance, FetchesGood, Key
<1>3. ASSUME NEW q \in Requests, pc'[q] = "forwarded"
      PROVE  (\A h \in Of(q) : fetch'[h].pc = "ok") /\ ~Exceeds(SumDecoded(q)', MaxBytesPerRequest)
  <2>1. q # r /\ pc[q] = "forwarded"
    BY <1>1, <1>3 DEF IInv, TypeOK
  <2>2. (\A h \in Of(q) : fetch[h].pc = "ok") /\ ~Exceeds(SumDecoded(q), MaxBytesPerRequest)
    BY <2>1 DEF Provenance, ForwardedGood
  <2>3. \A h \in Of(q) : fetch'[h] = fetch[h]
    BY <1>1, <2>1 DEF Of
  <2>4. [h \in Of(q) |-> fetch'[h].image.size] = [h \in Of(q) |-> fetch[h].image.size]
    BY <2>3
  <2>5. SumDecoded(q)' = SumDecoded(q)
    BY <2>4 DEF SumDecoded, Of, Fetchers
  <2> QED BY <2>2, <2>3, <2>5
<1> QED BY <1>1, <1>2, <1>3, SameCacheGood DEF Provenance, ForwardedGood, Of, Fetchers, Exceeds

\* Process measures the images before it lets the request go on.
LEMMA FinishGood ==
    ASSUME IInv, Provenance, NEW r \in Requests, Finish(r)
    PROVE  Provenance'
<1>1. /\ \A g \in Of(r) : Ended(g)
      /\ pc' = [pc EXCEPT ![r] = IF Refused(r) THEN "refused" ELSE "forwarded"]
      /\ UNCHANGED <<file, byKey, fetch>>
  BY DEF Finish, cache, disk, index
<1>2. FetchesGood'
  BY <1>1 DEF Provenance, FetchesGood, GoodFetch, GoodImage, Exceeds, Key
<1>3. ASSUME NEW q \in Requests, pc'[q] = "forwarded"
      PROVE  (\A h \in Of(q) : fetch[h].pc = "ok") /\ ~Exceeds(SumDecoded(q), MaxBytesPerRequest)
  <2>1. CASE q = r
    <3>1. ~Refused(r)
      BY <1>1, <1>3, <2>1 DEF IInv, TypeOK
    <3> QED BY <1>1, <2>1, <3>1 DEF Refused, Ended
  <2>2. CASE q # r
    <3>1. pc[q] = "forwarded"
      BY <1>1, <1>3, <2>2 DEF IInv, TypeOK
    <3> QED BY <3>1 DEF Provenance, ForwardedGood
  <2> QED BY <2>1, <2>2
<1>4. ForwardedGood'
  BY <1>1, <1>3 DEF ForwardedGood, SumDecoded, Of, Exceeds
<1> QED BY <1>1, <1>2, <1>4, SameCacheGood DEF Provenance

LEMMA InitProvenance == Init => Provenance
<1> SUFFICES ASSUME Init PROVE Provenance
  OBVIOUS
<1>1. FilesGood /\ EntriesGood
  BY DEF Init, InitCache, FilesGood, EntriesGood, OnDisk, Paths
<1>2. FetchesGood
  BY DEF Init, FetchesGood, GoodFetch, NewFetch, HasImage, FileSteps
<1>3. ForwardedGood
  BY DEF Init, ForwardedGood
<1> QED BY <1>1, <1>2, <1>3 DEF Provenance

LEMMA NextProvenance == IInv /\ Provenance /\ [Next]_vars => Provenance'
<1> SUFFICES ASSUME IInv, Provenance, [Next]_vars PROVE Provenance'
  OBVIOUS
<1>1. CASE \E r \in Requests : Start(r) \/ Finish(r)
  BY <1>1, StartGood, FinishGood
<1>2. CASE \E g \in Fetchers : Get(g) \/ Put(g) \/ Fetch(g) \/ DownloadFails(g)
  BY <1>2, GetGood, PutGood, DownloadGood
<1>3. CASE (Sweep \/ NextBucket) /\ UNCHANGED <<pc, fetch, orphans>>
  BY <1>3, SweepGood
<1>4. CASE AllAnswered \/ UNCHANGED vars
  <2>1. UNCHANGED <<file, byKey, pc, fetch>>
    BY <1>4 DEF AllAnswered, vars, cache, disk, index
  <2> QED BY <2>1, CacheKeepsGood
<1> QED BY <1>1, <1>2, <1>3, <1>4 DEF Next

\* ImageURLFetchEngine lets a request go on only with a whole image for every
\* URL, that was sent for this URL or one of the same key, each within its
\* limit and all within theirs, whatever the cache and the servers do.
THEOREM OnlyFitImages == Spec => []ForwardedFit
<1>1. IInv /\ Provenance => ForwardedFit
  BY DEF Provenance, FetchesGood, GoodFetch, GoodImage, HasImage, ForwardedGood, ForwardedFit, Fits, Of
<1>2. Init /\ [][Next]_vars => []Provenance
  BY InitProvenance, InitIInv, NextIInv, NextProvenance, PTL
<1> QED BY <1>1, <1>2, Invariance, PTL DEF Spec
=============================================================================
