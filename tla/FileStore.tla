----------------------------- MODULE FileStore -----------------------------
(***************************************************************************)
(* One file in the S3 store (internal/filestore/s3.go): an object with the *)
(* data and an object with the metadata, written and removed one after the *)
(* other.  Users upload straight to S3 (internal/filehttp/handler.go): the *)
(* file is created as pending with a URL, the client puts the data there,  *)
(* and a third request completes it.  Bots and plugins store a file        *)
(* themselves.  A loop removes what has expired (cmd/bot/bootstrap.go),    *)
(* and a plugin reads chunks until the end (wasm/hostapi/host_file.go).    *)
(*                                                                         *)
(* Every request of S3 is a step and may fail.  Sizes are small numbers;   *)
(* 0 stands for a size the client did not announce.                        *)
(***************************************************************************)
EXTENDS Naturals, FiniteSets

CONSTANTS
    Jobs,          \* goroutines: requests, and the cleanup loop
    Sizes,         \* sizes of the data a client puts
    MaxFileSize,   \* maxFileSize of the handler
    MaxChunk,      \* MaxFileChunkSize
    MaxPuts,       \* times a client puts data
    MaxFailures    \* requests of S3 that fail, and crashes

VARIABLES
    data,          \* the data object: its size, or Missing
    meta,          \* the metadata object, or NoMeta
    url,           \* the upload URL: none, valid, or used by a PUT under way
    expired,       \* whether ExpiresAt is over
    filejobs,      \* what each goroutine is doing
    reader,        \* the plugin that reads the file
    torn,          \* whether the two objects were separated; see FilesWhole
    puts,
    failures

fileVars == <<data, meta, url, expired, filejobs, reader, torn, puts, failures>>

\* The size of an object that does not exist.
Missing == 99

ASSUME FileAssumption ==
    /\ Sizes \subseteq Nat \ {Missing}
    /\ MaxFileSize \in Nat /\ MaxChunk \in Nat \ {0}

NoMeta == [state |-> "none", owned |-> FALSE, size |-> 0, expected |-> 0, expires |-> FALSE]

NoFileJob == [pc |-> "idle", seen |-> NoMeta, size |-> 0]

NotReading == [pc |-> "idle", off |-> 0, of |-> 0, changed |-> FALSE]

FileInit ==
    /\ data = Missing
    /\ meta = NoMeta
    /\ url = "none"
    /\ expired = FALSE
    /\ filejobs = [j \in Jobs |-> NoFileJob]
    /\ reader = NotReading
    /\ torn = FALSE
    /\ puts = 0
    /\ failures = 0

Fails == failures < MaxFailures /\ failures' = failures + 1

FileGoes(j, pc) == filejobs' = [filejobs EXCEPT ![j].pc = pc]

FileEnds(j) == filejobs' = [filejobs EXCEPT ![j] = NoFileJob]

\* The data changes under a plugin that is reading it.
Disturbed == [reader EXCEPT !.changed = TRUE]

-----------------------------------------------------------------------------
(* Creating a file *)

\* The metadata is written, and then the URL is signed.
CreateDirectUpload(n) ==
    /\ meta' = [state |-> "pending", owned |-> TRUE, size |-> n, expected |-> n, expires |-> TRUE]
    /\ url' = "valid"

\* Of the owner: the announced size is within the limit.
HandleInit ==
    /\ meta = NoMeta
    /\ data = Missing
    /\ url = "none"
    /\ \E n \in 0..MaxFileSize : CreateDirectUpload(n)
    /\ UNCHANGED <<data, expired, filejobs, reader, torn, puts, failures>>

\* The client starts to put data while the URL is valid, and S3 has it later.
PutBegins ==
    /\ url = "valid"
    /\ puts < MaxPuts
    /\ puts' = puts + 1
    /\ url' = "used"
    /\ UNCHANGED <<data, meta, expired, filejobs, reader, torn, failures>>

PutEnds ==
    /\ url = "used"
    /\ url' = IF expired THEN "over" ELSE "valid"
    /\ data' \in Sizes
    /\ reader' = Disturbed
    /\ torn' = (torn \/ meta.state # "pending" \/ \E j \in Jobs : filejobs[j].pc = "deleteMeta")
    /\ UNCHANGED <<meta, expired, filejobs, puts, failures>>

UploadData == data' \in Sizes

\* A plugin or a bot stores a file under a new id: Store, first the data,
StoreData(j) ==
    /\ filejobs[j].pc = "idle"
    /\ meta = NoMeta /\ data = Missing /\ url = "none"
    /\ UploadData
    /\ url' = "over"
    /\ FileGoes(j, "storeMeta")
    /\ UNCHANGED <<meta, expired, reader, torn, puts, failures>>

\* then the metadata; the data of a file without metadata is removed again.
StoreMeta(j) ==
    /\ filejobs[j].pc = "storeMeta"
    /\ \/ /\ \E ttl \in BOOLEAN : 
               meta' = [state |-> "ready", owned |-> FALSE, size |-> data, expected |-> 0, expires |-> ttl]
          /\ FileEnds(j)
          /\ UNCHANGED failures
       \/ /\ Fails
          /\ FileGoes(j, "undoData")
          /\ UNCHANGED meta
    /\ UNCHANGED <<data, url, expired, reader, torn, puts>>

Expires ==
    /\ meta.expires
    /\ ~expired
    /\ expired' = TRUE
    /\ url' = IF url = "valid" THEN "over" ELSE url
    /\ UNCHANGED <<data, meta, filejobs, reader, torn, puts, failures>>

-----------------------------------------------------------------------------
(* handleComplete and CompleteDirectUpload *)

\* authorizePendingUpload: of the owner, ready or pending and not expired.
Completable == meta.state = "ready" \/ (meta.state = "pending" /\ ~expired)

\* The handler reads the metadata,
HandleComplete(j) ==
    /\ filejobs[j].pc = "idle"
    /\ meta.owned /\ Completable
    /\ filejobs' = [filejobs EXCEPT ![j] = [pc |-> "load", seen |-> meta, size |-> 0]]
    /\ UNCHANGED <<data, meta, url, expired, reader, torn, puts, failures>>

\* the store reads it again: a ready file is returned as it is,
LoadMeta(j) ==
    /\ filejobs[j].pc = "load"
    /\ \/ /\ meta.state = "ready"
          /\ filejobs' = [filejobs EXCEPT ![j].pc = "check", ![j].size = meta.size]
       \/ /\ meta.state = "pending" /\ ~expired
          /\ FileGoes(j, "head")
       \/ /\ ~Completable
          /\ FileEnds(j)
    /\ UNCHANGED <<data, meta, url, expired, reader, torn, puts, failures>>

\* asks S3 for the data,
HeadObject(j) ==
    /\ filejobs[j].pc = "head"
    /\ IF data = Missing THEN FileEnds(j)
       ELSE filejobs' = [filejobs EXCEPT ![j].pc = "putMeta", ![j].size = data]
    /\ UNCHANGED <<data, meta, url, expired, reader, torn, puts, failures>>

\* and makes the file ready, without an expiry; the answer may be an error with
\* or without effect.
PutMeta(j) ==
    LET ready == [filejobs[j].seen EXCEPT !.state = "ready", !.size = filejobs[j].size, !.expires = FALSE] IN
    /\ filejobs[j].pc = "putMeta"
    /\ \/ /\ meta' = ready
          /\ torn' = (torn \/ data # filejobs[j].size)
          /\ FileGoes(j, "check")
          /\ UNCHANGED failures
       \/ /\ Fails
          /\ meta' \in {meta, ready}
          /\ torn' = (torn \/ meta' # meta)
          /\ FileEnds(j)
    /\ reader' = IF meta' # meta THEN Disturbed ELSE reader
    /\ UNCHANGED <<data, url, expired, puts>>

\* Variant for the mutants: only the limit is checked.
OnlyTooLarge(job) == job.size > MaxFileSize

\* Only then the size is compared with the limit and with what was announced.
SizeRefused(job) ==
    job.size > MaxFileSize \/ (job.seen.expected > 0 /\ job.size # job.seen.expected)

CheckSize(j) ==
    /\ filejobs[j].pc = "check"
    /\ IF SizeRefused(filejobs[j]) THEN FileGoes(j, "deleteData") ELSE FileEnds(j)
    /\ UNCHANGED <<data, meta, url, expired, reader, torn, puts, failures>>

-----------------------------------------------------------------------------
(* Delete: the data, then the metadata; errors are ignored. *)

\* handleDelete, by the owner; a valid URL can still put data afterwards.
HandleDelete(j) ==
    /\ filejobs[j].pc = "idle"
    /\ meta.owned
    /\ filejobs' = [filejobs EXCEPT ![j] = [NoFileJob EXCEPT !.pc = "deleteData"]]
    /\ UNCHANGED <<data, meta, url, expired, reader, torn, puts, failures>>

\* Cleanup finds metadata that has expired.
Cleanup(j) ==
    /\ filejobs[j].pc = "idle"
    /\ meta.expires /\ expired
    /\ filejobs' = [filejobs EXCEPT ![j] = [NoFileJob EXCEPT !.pc = "deleteData"]]
    /\ UNCHANGED <<data, meta, url, expired, reader, torn, puts, failures>>

DeleteData(j) ==
    /\ filejobs[j].pc \in {"deleteData", "undoData"}
    /\ \/ /\ data' = Missing
          /\ reader' = Disturbed
          /\ UNCHANGED <<failures, torn>>
       \/ /\ Fails
          /\ torn' = TRUE
          /\ UNCHANGED <<data, reader>>
    /\ IF filejobs[j].pc = "undoData" THEN FileEnds(j) ELSE FileGoes(j, "deleteMeta")
    /\ UNCHANGED <<meta, url, expired, puts>>

DeleteMeta(j) ==
    /\ filejobs[j].pc = "deleteMeta"
    /\ \/ meta' = NoMeta /\ UNCHANGED <<failures, torn>>
       \/ Fails /\ torn' = TRUE /\ UNCHANGED meta
    /\ FileEnds(j)
    /\ reader' = Disturbed
    /\ UNCHANGED <<data, url, expired, puts>>

\* The process stops between two requests of an operation.
Crash ==
    /\ \E j \in Jobs : filejobs[j].pc # "idle"
    /\ Fails
    /\ filejobs' = [j \in Jobs |-> NoFileJob]
    /\ torn' = (torn \/ \E j \in Jobs : filejobs[j].pc \notin {"idle", "load", "head", "putMeta"})
    /\ UNCHANGED <<data, meta, url, expired, reader, puts>>

-----------------------------------------------------------------------------
(* file_read and file_read_into *)

LesserOf(m, n) == IF m < n THEN m ELSE n

\* readFileChunk: a length that is not given or too long is the maximum.
ReadLen(length) == IF length = 0 \/ length > MaxChunk THEN MaxChunk ELSE length

\* GetRange: nothing past the recorded end, else the bytes the object has there;
\* S3 refuses a range that begins past the end of the object.
GetRange(off, length) == LesserOf(length, LesserOf(meta.size, data) - off)

Refused(off) == off < meta.size /\ (data = Missing \/ data <= off)

\* io.ReadFull: a chunk that is not full is the last one.
AtEnd(n, length) == n < ReadLen(length)

\* authorizeFileAccess: a pending file is not available.
Available == meta.state = "ready"

\* The plugin reads on from where it is; where S3 refuses, it gets an error.
FileRead ==
    /\ reader.pc \in {"idle", "reading"}
    /\ \/ /\ Available /\ ~Refused(reader.off)
          /\ \E length \in 0..(MaxChunk + 1) :
               LET n == IF reader.off >= meta.size THEN 0 ELSE GetRange(reader.off, ReadLen(length)) IN
               reader' = [pc |-> IF AtEnd(n, length) THEN "eof" ELSE "reading",
                          off |-> reader.off + n,
                          of |-> IF reader.pc = "idle" THEN meta.size ELSE reader.of,
                          changed |-> IF reader.pc = "idle" THEN torn ELSE reader.changed]
       \/ /\ ~Available \/ Refused(reader.off)
          /\ reader.pc = "reading"
          /\ reader' = [reader EXCEPT !.pc = "error"]
    /\ UNCHANGED <<data, meta, url, expired, filejobs, torn, puts, failures>>

FileNext ==
    \/ HandleInit \/ PutBegins \/ PutEnds \/ Expires \/ Crash \/ FileRead
    \/ \E j \in Jobs :
         \/ StoreData(j) \/ StoreMeta(j)
         \/ HandleComplete(j) \/ LoadMeta(j) \/ HeadObject(j) \/ PutMeta(j) \/ CheckSize(j)
         \/ HandleDelete(j) \/ Cleanup(j) \/ DeleteData(j) \/ DeleteMeta(j)

FileSpec == FileInit /\ [][FileNext]_fileVars

\* However requests, the cleanup and a reading plugin interleave: when no
\* operation is under way, a file that is ready has its data, of the recorded
\* size, an uploaded one within the limit and as announced; data without
\* metadata does not stay behind; and a plugin that reads to the end has read
\* every byte once, unless the file changed while it read.
\* The code does not promise this once the objects are torn apart, which takes
\* data put when the file was already completed or being removed, metadata
\* completed for data that is gone by then, a failed removal, or a crash between
\* the requests that store, check or remove a file.
FilesWhole ==
    /\ (\A j \in Jobs : filejobs[j].pc = "idle") /\ ~torn =>
          /\ meta.state = "ready" => data = meta.size
          /\ meta.state = "ready" /\ meta.owned =>
                data <= MaxFileSize /\ meta.expected \in {0, data}
          /\ meta = NoMeta => data = Missing
    /\ reader.pc = "eof" /\ ~reader.changed => reader.off = reader.of

=============================================================================
