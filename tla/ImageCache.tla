----------------------------- MODULE ImageCache -----------------------------
(* The stores of downloaded images: FileStore, with a file per key and time *)
(* bucket and an index in memory, and IndexHTTPStore, which keeps only the  *)
(* index and fetches again.  The index is under a lock, so each of its      *)
(* operations is one step; the files are changed apart from it.  The        *)
(* sweeper stands for the caller, whose task Delete and DeleteBucket are.   *)
EXTENDS Integers, FiniteSets

CONSTANTS
    Keys,        \* hashes of image URLs
    MaxBucket,   \* bound: time buckets 0 .. MaxBucket
    MaxSweeps    \* bound: calls of Delete and DeleteBucket

ASSUME CacheAssumption == {MaxBucket, MaxSweeps} \subseteq Nat

VARIABLES
    store,     \* which store the engine has: "none", "file" or "index"
    bucket,    \* the time bucket of now
    file,      \* the images on disk, by path
    dirs,      \* the directories of buckets on disk
    temps,     \* temporary files, as pairs of a bucket and who writes it
    byKey,     \* the index: an entry or None
    byBucket,  \* the index: the keys of each bucket
    sweep      \* the sweeper: the paths and the bucket to remove, sweeps left

index == <<byKey, byBucket>>
disk == <<file, dirs, temps>>
cache == <<store, bucket, disk, index, sweep>>

None == [absent |-> TRUE]
Buckets == 0 .. MaxBucket
NoBucket == -1
Paths == Buckets \X Keys

\* The path of the file of an entry.
PathOf(k, entry) == <<entry.bucket, k>>
Indexed(path) == byKey[path[2]] # None /\ PathOf(path[2], byKey[path[2]]) = path
OnDisk(path) == file[path] # None

InitCache ==
    /\ store \in {"none", "file", "index"}
    /\ bucket = 0
    /\ file = [p \in Paths |-> None] /\ dirs = {} /\ temps = {}
    /\ byKey = [k \in Keys |-> None] /\ byBucket = [b \in Buckets |-> {}]
    /\ sweep = [paths |-> {}, bucket |-> NoBucket, left |-> MaxSweeps]

-----------------------------------------------------------------------------
(* The index, memory_index.go.  Each operation holds its lock.             *)

Unlisted(k) ==
    IF byKey[k] = None THEN byBucket
    ELSE [byBucket EXCEPT ![byKey[k].bucket] = @ \ {k}]

deleteKey(k) ==
    /\ byKey' = [byKey EXCEPT ![k] = None]
    /\ byBucket' = Unlisted(k)

\* The caller reads the entry that is replaced before the step.
insertOrReplace(k, entry) ==
    /\ byKey' = [byKey EXCEPT ![k] = entry]
    /\ byBucket' = [Unlisted(k) EXCEPT ![entry.bucket] = @ \cup {k}]

removeBucket(b) ==
    /\ byKey' = [k \in Keys |-> IF k \in byBucket[b] THEN None ELSE byKey[k]]
    /\ byBucket' = [byBucket EXCEPT ![b] = {}]

-----------------------------------------------------------------------------
(* Files.  os.Remove ignores a file that is not there, and a directory     *)
(* that is not empty.                                                      *)

Unlink(path) == file' = [file EXCEPT ![path] = None]

MkdirAll(b) == dirs' = dirs \cup {b}

Empty(b) ==
    /\ \A k \in Keys : ~OnDisk(<<b, k>>)
    /\ \A t \in temps : t[1] # b

\* A temporary file becomes the file of its path: no reader sees a part of it.
Rename(writer, path, image) ==
    /\ file' = [file EXCEPT ![path] = image]
    /\ temps' = temps \ {<<path[1], writer>>}

-----------------------------------------------------------------------------
(* The sweeper: one call of Delete or DeleteBucket after the other.        *)

SweeperIdle == sweep.paths = {} /\ sweep.bucket = NoBucket

\* Only FileStore has files to remove; IndexHTTPStore changes its index alone.
ToUnlink(paths) == IF store = "file" THEN paths ELSE {}

Delete(k) ==
    /\ SweeperIdle /\ sweep.left > 0 /\ store # "none"
    /\ sweep' = [sweep EXCEPT !.left = @ - 1,
                   !.paths = ToUnlink(IF byKey[k] = None THEN {}
                                      ELSE {PathOf(k, byKey[k])})]
    /\ deleteKey(k)
    /\ UNCHANGED <<store, bucket, disk>>

DeleteBucket(b) ==
    /\ SweeperIdle /\ sweep.left > 0 /\ store # "none"
    /\ sweep' = [sweep EXCEPT !.left = @ - 1,
                   !.paths = ToUnlink({<<b, k>> : k \in byBucket[b]}),
                   !.bucket = IF store = "file" THEN b ELSE NoBucket]
    /\ removeBucket(b)
    /\ UNCHANGED <<store, bucket, disk>>

SweepFile ==
    \E p \in sweep.paths :
        /\ Unlink(p)
        /\ sweep' = [sweep EXCEPT !.paths = @ \ {p}]
        /\ UNCHANGED <<store, bucket, dirs, temps, index>>

SweepDirectory ==
    /\ sweep.paths = {} /\ sweep.bucket # NoBucket
    /\ dirs' = IF Empty(sweep.bucket) THEN dirs \ {sweep.bucket} ELSE dirs
    /\ sweep' = [sweep EXCEPT !.bucket = NoBucket]
    /\ UNCHANGED <<store, bucket, file, temps, index>>

Sweep ==
    \/ \E k \in Keys : Delete(k)
    \/ \E b \in 0 .. bucket : DeleteBucket(b)
    \/ SweepFile
    \/ SweepDirectory

NextBucket ==
    /\ bucket < MaxBucket
    /\ bucket' = bucket + 1
    /\ UNCHANGED <<store, disk, index, sweep>>
=============================================================================
