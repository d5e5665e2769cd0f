----------------------------- MODULE ImageFetch -----------------------------
(* ImageURLFetchEngine: a request is held until the images it names are    *)
(* downloaded or found in the cache, one goroutine for each URL, and goes  *)
(* on with the images in the place of the URLs.  An image is known by the  *)
(* URL that was asked for it and its size.                                 *)
EXTENDS ImageCache, Functions

CONSTANTS
    Requests,
    Urls,               \* the distinct remote URLs of each request
    KeyOf,              \* cacheKeyForURL: rules give several URLs one key
    Sizes,              \* bound: the sizes of images that servers send
    MaxBytesPerURL,     \* 0: no limit
    MaxBytesPerRequest, \* 0: no limit
    RetryCount          \* attempts after the first

AllUrls == UNION {Urls[r] : r \in Requests}

ASSUME FetchAssumption ==
    /\ \A r \in Requests : IsFiniteSet(Urls[r]) /\ Urls[r] # {}
    /\ KeyOf \in [AllUrls -> Keys]
    /\ Sizes \subseteq Nat \ {0}
    /\ {MaxBytesPerURL, MaxBytesPerRequest, RetryCount} \subseteq Nat

VARIABLES
    pc,      \* where each request is
    fetch,   \* its goroutines, by request and URL
    orphans  \* history: the paths whose entry a Get removed after it had changed

vars == <<cache, pc, fetch, orphans>>

Fetchers == {g \in Requests \X AllUrls : g[2] \in Urls[g[1]]}
Of(r) == {g \in Fetchers : g[1] = r}
Key(g) == KeyOf[g[2]]

Image(url, size) == [url |-> url, size |-> size]
Exceeds(n, limit) == limit > 0 /\ n > limit

\* at: the bucket of the entry a Get looks at, then of the file a Put writes,
\* then of the file it removes.
NewFetch == [pc |-> "off", at |-> 0, image |-> None, failures |-> 0]
Ended(g) == fetch[g].pc \in {"ok", "failed"}

Init ==
    /\ InitCache
    /\ pc = [r \in Requests |-> "new"]
    /\ fetch = [g \in Fetchers |-> NewFetch]
    /\ orphans = {}

\* The goroutine with its place, bucket and image.
Fetching(g, place, b, image) ==
    [pc |-> place, at |-> b, image |-> image, failures |-> fetch[g].failures]
Goes(g, place) ==
    fetch' = [fetch EXCEPT ![g] = Fetching(g, place, fetch[g].at, fetch[g].image)]
Has(g, image, place) ==
    fetch' = [fetch EXCEPT ![g] = Fetching(g, place, fetch[g].at, image)]

\* fetchRemoteImage: another attempt, if there is one left.
AttemptFails(g) ==
    fetch' = [fetch EXCEPT ![g] =
                [pc |-> IF fetch[g].failures < RetryCount THEN "get" ELSE "failed",
                 at |-> fetch[g].at, image |-> fetch[g].image,
                 failures |-> fetch[g].failures + 1]]

-----------------------------------------------------------------------------
(* Process                                                                 *)

\* One goroutine for every distinct URL.
Start(r) ==
    /\ pc[r] = "new"
    /\ pc' = [pc EXCEPT ![r] = "waiting"]
    /\ fetch' = [g \in Fetchers |-> IF g \in Of(r) THEN [NewFetch EXCEPT !.pc = "get"]
                                    ELSE fetch[g]]
    /\ UNCHANGED <<cache, orphans>>

SumDecoded(r) == SumFunction([g \in Of(r) |-> fetch[g].image.size])

\* After wg.Wait: an image that could not be had, or too much in all.
Refused(r) ==
    \/ \E g \in Of(r) : fetch[g].pc = "failed"
    \/ Exceeds(SumDecoded(r), MaxBytesPerRequest)

Finish(r) ==
    /\ pc[r] = "waiting"
    /\ \A g \in Of(r) : Ended(g)
    /\ pc' = [pc EXCEPT ![r] = IF Refused(r) THEN "refused" ELSE "forwarded"]
    /\ UNCHANGED <<cache, fetch, orphans>>

-----------------------------------------------------------------------------
(* fetchRemoteImageOnce: store.Get                                         *)

\* The snapshot of the entry, if there is one.
Lookup(g) ==
    LET entry == byKey[Key(g)]
    IN  /\ fetch[g].pc = "get"
        /\ IF store = "none" \/ entry = None THEN Goes(g, "http")
           ELSE fetch' = [fetch EXCEPT ![g] =
                            IF store = "file" THEN Fetching(g, "read", entry.bucket, None)
                            ELSE Fetching(g, "refetch", entry.bucket, Image(entry.url, 0))]
        /\ UNCHANGED <<cache, pc, orphans>>

\* FileStore: a file that is gone is a miss, another error fails the attempt.
\* A hit is not measured against MaxBytesPerURL again.
ReadFile(g) ==
    LET path == <<fetch[g].at, Key(g)>>
    IN  /\ fetch[g].pc = "read"
        /\ IF OnDisk(path) THEN Has(g, file[path], "ok") ELSE Goes(g, "purge")
        /\ UNCHANGED <<cache, pc, orphans>>
ReadFails(g) ==
    /\ fetch[g].pc = "read"
    /\ OnDisk(<<fetch[g].at, Key(g)>>)
    /\ AttemptFails(g)
    /\ UNCHANGED <<cache, pc, orphans>>

\* The entry is removed by its key, whatever it is by now.
Purge(g) ==
    LET entry == byKey[Key(g)]
    IN  /\ fetch[g].pc = "purge"
        /\ deleteKey(Key(g))
        /\ orphans' = IF entry # None /\ OnDisk(PathOf(Key(g), entry))
                      THEN orphans \cup {PathOf(Key(g), entry)} ELSE orphans
        /\ Goes(g, "http")
        /\ UNCHANGED <<store, bucket, disk, sweep, pc>>

\* IndexHTTPStore: the URL of the entry is fetched again. What goes wrong fails
\* the attempt, without a fetch of the URL at hand.
Refetch(g, size) ==
    /\ fetch[g].pc = "refetch"
    /\ IF Exceeds(size, MaxBytesPerURL) THEN AttemptFails(g)
       ELSE Has(g, Image(fetch[g].image.url, size), "ok")
    /\ UNCHANGED <<cache, pc, orphans>>

-----------------------------------------------------------------------------
(* fetchRemoteImageOnce: the download, and store.Put                       *)

\* No answer in time, a status that is not 200, a body that breaks off.
DownloadFails(g) ==
    /\ fetch[g].pc \in {"http", "refetch"}
    /\ AttemptFails(g)
    /\ UNCHANGED <<cache, pc, orphans>>

AfterDownload == IF store = "none" THEN "ok" ELSE IF store = "file" THEN "mkdir" ELSE "insert"

\* The bucket of a Put is that of the time at its start.
Download(g, size) ==
    /\ fetch[g].pc = "http"
    /\ IF Exceeds(size, MaxBytesPerURL) THEN AttemptFails(g)
       ELSE fetch' = [fetch EXCEPT ![g] =
                        Fetching(g, AfterDownload, bucket, Image(g[2], size))]
    /\ UNCHANGED <<cache, pc, orphans>>

\* A Put that fails is logged: the image is at hand.
MakeDirectory(g) ==
    /\ fetch[g].pc = "mkdir"
    /\ MkdirAll(fetch[g].at)
    /\ Goes(g, "write")
    /\ UNCHANGED <<store, bucket, file, temps, index, sweep, pc, orphans>>

\* Altered: the data go to the file of the key at once, and are there in part
\* before they are there in whole.
WriteInPlace(g) ==
    /\ fetch[g].pc = "write"
    /\ fetch[g].at \in dirs
    /\ temps' = temps \cup {<<fetch[g].at, g>>}
    /\ file' = [file EXCEPT ![<<fetch[g].at, Key(g)>>] = Image(g[2], 0)]
    /\ Goes(g, "rename")
    /\ UNCHANGED <<store, bucket, dirs, index, sweep, pc, orphans>>
\* The directory may have been swept since it was made.
WriteTemporary(g) ==
    /\ fetch[g].pc = "write"
    /\ fetch[g].at \in dirs
    /\ temps' = temps \cup {<<fetch[g].at, g>>}
    /\ Goes(g, "rename")
    /\ UNCHANGED <<store, bucket, file, dirs, index, sweep, pc, orphans>>

\* Whatever fails before the rename, the temporary file is removed.
PutFails(g) ==
    /\ fetch[g].pc \in {"mkdir", "write", "rename"}
    /\ temps' = temps \ {<<fetch[g].at, g>>}
    /\ Goes(g, "ok")
    /\ UNCHANGED <<store, bucket, file, dirs, index, sweep, pc, orphans>>

RenameTemporary(g) ==
    /\ fetch[g].pc = "rename"
    /\ Rename(g, <<fetch[g].at, Key(g)>>, fetch[g].image)
    /\ Goes(g, "insert")
    /\ UNCHANGED <<store, bucket, dirs, index, sweep, pc, orphans>>

\* Altered: the file of the entry that is replaced stays.
InsertAndForget(g) ==
    /\ fetch[g].pc = "insert"
    /\ insertOrReplace(Key(g), [bucket |-> fetch[g].at, url |-> g[2]])
    /\ Goes(g, "ok")
    /\ UNCHANGED <<store, bucket, disk, sweep, pc, orphans>>
\* An entry of the same key in another bucket is replaced, and its file has to
\* go.
Insert(g) ==
    LET old == byKey[Key(g)]
        stale == store = "file" /\ old # None /\ old.bucket # fetch[g].at
    IN  /\ fetch[g].pc = "insert"
        /\ insertOrReplace(Key(g), [bucket |-> fetch[g].at, url |-> g[2]])
        /\ IF stale THEN fetch' = [fetch EXCEPT ![g] =
                                 Fetching(g, "unlink", old.bucket, fetch[g].image)]
           ELSE Goes(g, "ok")
        /\ UNCHANGED <<store, bucket, disk, sweep, pc, orphans>>

RemoveOld(g) ==
    /\ fetch[g].pc = "unlink"
    /\ Unlink(<<fetch[g].at, Key(g)>>)
    /\ Goes(g, "ok")
    /\ UNCHANGED <<store, bucket, dirs, temps, index, sweep, pc, orphans>>

-----------------------------------------------------------------------------

Get(g) ==
    \/ Lookup(g) \/ ReadFile(g) \/ ReadFails(g) \/ Purge(g)
    \/ \E size \in Sizes : Refetch(g, size)
Put(g) ==
    \/ MakeDirectory(g) \/ WriteTemporary(g) \/ RenameTemporary(g) \/ PutFails(g)
    \/ Insert(g) \/ RemoveOld(g)
Fetch(g) == \E size \in Sizes : Download(g, size)

AllAnswered ==
    /\ \A r \in Requests : pc[r] \in {"refused", "forwarded"}
    /\ UNCHANGED vars

Next ==
    \/ \E r \in Requests : Start(r) \/ Finish(r)
    \/ \E g \in Fetchers : Get(g) \/ Put(g) \/ Fetch(g) \/ DownloadFails(g)
    \/ (Sweep \/ NextBucket) /\ UNCHANGED <<pc, fetch, orphans>>
    \/ AllAnswered

Spec == Init /\ [][Next]_vars

-----------------------------------------------------------------------------
(* Properties.                                                             *)

Entries == [bucket : Buckets, url : AllUrls]
Images == [url : AllUrls, size : Nat]
Fetches ==
    [pc : {"off", "get", "read", "purge", "refetch", "http", "mkdir", "write", "rename",
           "insert", "unlink", "ok", "failed"},
     at : Buckets, image : Images \cup {None}, failures : 0 .. RetryCount + 1]

IndexAgrees ==
    \A b \in Buckets : byBucket[b] = {k \in Keys : byKey[k] # None /\ byKey[k].bucket = b}

TypeOK ==
    /\ store \in {"none", "file", "index"} /\ bucket \in Buckets
    /\ file \in [Paths -> Images \cup {None}]
    /\ dirs \subseteq Buckets /\ temps \subseteq Buckets \X Fetchers
    /\ byKey \in [Keys -> Entries \cup {None}]
    /\ byBucket \in [Buckets -> SUBSET Keys]
    /\ IndexAgrees
    /\ sweep \in [paths : SUBSET Paths, bucket : Buckets \cup {NoBucket}, left : 0 .. MaxSweeps]
    /\ pc \in [Requests -> {"new", "waiting", "refused", "forwarded"}]
    /\ fetch \in [Fetchers -> Fetches]
    /\ orphans \subseteq Paths

\* A request goes on only with an image for every URL: one that was sent for
\* that URL, or another of the same key, in whole, within the limit for one
\* image although hits are not measured, and all of them within the limit for
\* a request (Process, after wg.Wait).
Fits(g) ==
    LET image == fetch[g].image
    IN  /\ image # None
        /\ KeyOf[image.url] = Key(g)
        /\ image.size \in Sizes /\ ~Exceeds(image.size, MaxBytesPerURL)
ForwardedFit ==
    \A r \in Requests : pc[r] = "forwarded" =>
        /\ \A g \in Of(r) : Fits(g)
        /\ ~Exceeds(SumDecoded(r), MaxBytesPerRequest)

\* Whoever holds a path is about to insert its entry or to remove its file.
Held(path) ==
    \/ path \in sweep.paths
    \/ \E g \in Fetchers :
          /\ fetch[g].pc \in {"insert", "unlink"}
          /\ path = <<fetch[g].at, Key(g)>>
Tracked(path) == Indexed(path) \/ Held(path)

\* A file without an entry could never be removed by Delete or DeleteBucket.
\* Puts, deletions and sweeps of the same key and bucket in any order leave
\* none, except where a Get removed an entry that it had not looked at.
NoOrphans == \A p \in Paths : OnDisk(p) => Tracked(p) \/ p \in orphans
=============================================================================
