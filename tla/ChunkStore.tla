------------------------------ MODULE ChunkStore ------------------------------
(***************************************************************************)
(* The chunked objects of one organisation (data/chunks.py) and the        *)
(* resumable uploads built on them (data/uploads.py).                      *)
(*                                                                         *)
(* One action is one database transaction; check_write's lock on the       *)
(* organisation keeps the writing ones apart.  complete spans many: a      *)
(* transaction that looks at the upload, one for each chunk it hashes, and *)
(* one that seals.  Requests of any number of clients come in between, in  *)
(* any order and any number of times.  A request that is refused or        *)
(* answered with what is already there changes nothing and is no step.     *)
(*                                                                         *)
(* The digest of a sequence of chunks is the sequence itself (SHA-256      *)
(* without collisions).                                                    *)
(***************************************************************************)
EXTENDS Naturals, Sequences, FiniteSets

CONSTANTS
  Objects,         \* identifiers new_object may draw
  Requests,        \* complete requests served at a time
  Data,            \* what chunks of one size may hold
  Files,           \* the files clients upload, cut into chunks
  ChunkBytes,      \* bytes in a chunk (4 MiB)
  MaxUploadBytes,  \* declared size of an upload (1 GiB)
  MaxObjectBytes,  \* size of a derived object (8 GiB)
  OrgBytes,        \* storage of the organisation (20 GiB)
  UploadChunks,    \* chunks of an upload (1024)
  DerivedChunks,   \* chunks of a derived object (4096)
  OpenUploads,     \* uploads open at a time (3)
  DatasetLimit     \* datasets of the organisation

Content == [bytes : 1..ChunkBytes, data : Data]

ASSUME LimitsAssumption ==
  /\ {ChunkBytes, MaxUploadBytes, MaxObjectBytes, OrgBytes} \subseteq Nat \ {0}
  /\ {UploadChunks, DerivedChunks, OpenUploads, DatasetLimit} \subseteq Nat \ {0}
  /\ \A f \in Files : f \in Seq(Content)
  /\ Objects # {} /\ IsFiniteSet(Objects)

VARIABLES
  object,      \* the rows of data_objects with their data_chunks
  datasets,    \* the datasets whose original is a chunked object, oldest first
  file,        \* client memory: the file an upload was started for
  writing,     \* worker memory: what a derived object was written from so far
  request      \* API memory: what a complete request carries between transactions

vars == <<object, datasets, file, writing, request>>

NoObject == [kind |-> "UPLOAD", status |-> "NONE", expected |-> 0, received |-> 0,
             chunks |-> <<>>, hash |-> <<>>]
NoRequest == [busy |-> FALSE, of |-> CHOOSE o \in Objects : TRUE, received |-> 0,
              count |-> 0, read |-> <<>>]

Init ==
  /\ object = [o \in Objects |-> NoObject]
  /\ datasets = <<>>
  /\ file = [o \in Objects |-> <<>>]
  /\ writing = [o \in Objects |-> <<>>]
  /\ request = [r \in Requests |-> NoRequest]
-------------------------------------------------------------------------------
Larger(m, n) == IF m > n THEN m ELSE n

\* the bytes of a sequence of chunks, counted one by one
Size(chunks) == Cardinality(UNION {{i} \X (1..chunks[i].bytes) : i \in 1..Len(chunks)})

\* greatest(received_bytes, expected_bytes)
Footprint(o) == Larger(object[o].received, object[o].expected)

Live == {o \in Objects : object[o].status # "CANCELLED"}

OpenUpload(o) == object[o].kind = "UPLOAD" /\ object[o].status = "OPEN"

(* The operators named "Mistaken..." are plausible mistakes in the         *)
(* definition that follows them; no definition uses them.                  *)
MistakenReserved == Cardinality(UNION {{o} \X (1..object[o].received) : o \in Live})

\* the bytes new_object and append_chunk count against the organisation, object by object
Reserved == Cardinality(UNION {{o} \X (1..Footprint(o)) : o \in Live})

\* new_object
New(o, kind, expected) ==
  /\ object[o].status = "NONE"
  /\ Reserved + expected <= OrgBytes
  /\ object' = [object EXCEPT ![o] = [NoObject EXCEPT !.kind = kind, !.status = "OPEN",
                                                     !.expected = expected]]

Fits(o, c) ==
  LET row == object[o]
      total == row.received + c.bytes
  IN  /\ total <= IF row.kind = "UPLOAD" THEN row.expected ELSE MaxObjectBytes
      /\ Reserved + Larger(total, row.expected) - Footprint(o) <= OrgBytes

\* append_chunk counts the chunks of an object, too
RoomForChunk(o) ==
  Len(object[o].chunks) < IF object[o].kind = "UPLOAD" THEN UploadChunks ELSE DerivedChunks

MistakenIsNext(o, n) == n <= Len(object[o].chunks)

IsNext(o, n) == n = Len(object[o].chunks)

\* append_chunk of chunk n; an ordinal already stored is answered, never stored again
Accepts(o, n, c) ==
  object[o].status = "OPEN" /\ IsNext(o, n) /\ RoomForChunk(o) /\ Fits(o, c)

AppendChunk(o, n, c) ==
  /\ Accepts(o, n, c)
  /\ object' = [object EXCEPT ![o].chunks = Append(@, c), ![o].received = @ + c.bytes]

MistakenSealable(o) == object[o].status \in {"OPEN", "SEALED"}

Sealable(o) == object[o].status = "OPEN"

\* seal_blob
Seal(o, hash) ==
  /\ Sealable(o)
  /\ object' = [object EXCEPT ![o].status = "SEALED", ![o].hash = hash]

Discardable(o) == object[o].status = "OPEN"

\* cancel_object
Discard(o) ==
  /\ Discardable(o)
  /\ object' = [object EXCEPT ![o].status = "CANCELLED", ![o].received = 0,
                              ![o].chunks = <<>>]

AddDataset(o, hash, bytes) ==
  /\ Len(datasets) < DatasetLimit
  /\ datasets' = Append(datasets, [object |-> o, hash |-> hash, bytes |-> bytes])
-------------------------------------------------------------------------------
(* Clients.  Every client that knows an upload has the whole file and may  *)
(* send any of its chunks, again or too early, until the upload is closed. *)

\* start
Start(o, f) ==
  /\ Size(f) \in 1..MaxUploadBytes
  /\ Cardinality({p \in Objects : OpenUpload(p)}) < OpenUploads
  /\ Len(datasets) < DatasetLimit
  /\ New(o, "UPLOAD", Size(f))
  /\ file' = [file EXCEPT ![o] = f]
  /\ UNCHANGED <<datasets, writing, request>>

\* chunk
SendChunk(o, n) ==
  /\ object[o].kind = "UPLOAD"
  /\ n < Len(file[o])
  /\ AppendChunk(o, n, file[o][n + 1])
  /\ UNCHANGED <<datasets, file, writing, request>>

\* cancel
CancelUpload(o) ==
  /\ object[o].kind = "UPLOAD"
  /\ Discard(o)
  /\ UNCHANGED <<datasets, file, writing, request>>

MistakenComplete(o) == OpenUpload(o)

Complete(o) == OpenUpload(o) /\ object[o].received = object[o].expected

\* the first transaction of complete
BeginComplete(r, o) ==
  /\ ~request[r].busy
  /\ Complete(o)
  /\ request' = [request EXCEPT ![r] = [busy |-> TRUE, of |-> o,
                                        received |-> object[o].received,
                                        count |-> Len(object[o].chunks),
                                        read |-> <<>>]]
  /\ UNCHANGED <<object, datasets, file, writing>>

\* hash_object reads the next chunk; without one the request fails (EndRequest)
HashChunk(r) ==
  LET q == request[r]
      n == Len(q.read) + 1
  IN  /\ q.busy
      /\ n <= q.count /\ n <= Len(object[q.of].chunks)
      /\ request' = [request EXCEPT ![r].read = Append(@, object[q.of].chunks[n])]
      /\ UNCHANGED <<object, datasets, file, writing>>

\* the last transaction of complete; if another request has sealed the upload, its
\* job is returned (EndRequest)
FinishComplete(r) ==
  LET q == request[r]
  IN  /\ q.busy
      /\ Len(q.read) = q.count
      /\ Seal(q.of, q.read)
      /\ AddDataset(q.of, q.read, q.received)
      /\ request' = [request EXCEPT ![r] = NoRequest]
      /\ UNCHANGED <<file, writing>>

\* the existing job is returned, check_write or a quota refuses, a chunk is gone, or
\* the API process dies
EndRequest(r) ==
  /\ request[r].busy
  /\ request' = [request EXCEPT ![r] = NoRequest]
  /\ UNCHANGED <<object, datasets, file, writing>>
-------------------------------------------------------------------------------
(* Workers stage the results of jobs and the snapshots of source tasks.    *)

\* save, and the staging of a snapshot
Stage(o) ==
  /\ New(o, "DERIVED", 0)
  /\ UNCHANGED <<datasets, file, writing, request>>

WriteChunk(o, c) ==
  /\ object[o].kind = "DERIVED"
  /\ AppendChunk(o, Len(writing[o]), c)
  /\ writing' = [writing EXCEPT ![o] = Append(@, c)]
  /\ UNCHANGED <<datasets, file, request>>

\* a part of a job's result
SealResult(o) ==
  /\ object[o].kind = "DERIVED"
  /\ Seal(o, writing[o])
  /\ UNCHANGED <<datasets, file, writing, request>>

\* a snapshot becomes the original of a dataset
PublishSnapshot(o) ==
  /\ object[o].kind = "DERIVED"
  /\ Seal(o, writing[o])
  /\ AddDataset(o, writing[o], object[o].received)
  /\ UNCHANGED <<file, writing, request>>

\* the finally block of a run
DiscardStaged(o) ==
  /\ object[o].kind = "DERIVED"
  /\ Discard(o)
  /\ UNCHANGED <<datasets, file, writing, request>>
-------------------------------------------------------------------------------
ObjectStep(o) ==
  \/ \E f \in Files : Start(o, f)
  \/ \E n \in 0..UploadChunks : SendChunk(o, n)
  \/ CancelUpload(o)
  \/ Stage(o)
  \/ \E c \in Content : WriteChunk(o, c)
  \/ SealResult(o)
  \/ PublishSnapshot(o)
  \/ DiscardStaged(o)

RequestStep(r) ==
  \/ \E o \in Objects : BeginComplete(r, o)
  \/ HashChunk(r)
  \/ FinishComplete(r)
  \/ EndRequest(r)

Next == (\E o \in Objects : ObjectStep(o)) \/ (\E r \in Requests : RequestStep(r))

Spec == Init /\ [][Next]_vars
-------------------------------------------------------------------------------
ObjectRow == [kind : {"UPLOAD", "DERIVED"},
              status : {"NONE", "OPEN", "SEALED", "CANCELLED"},
              expected : 0..MaxUploadBytes, received : 0..Larger(MaxUploadBytes, MaxObjectBytes),
              chunks : Seq(Content), hash : Seq(Content)]

DatasetRow == [object : Objects, hash : Seq(Content), bytes : Nat]

RequestRow == [busy : BOOLEAN, of : Objects, received : Nat, count : Nat,
               read : Seq(Content)]

(* Every variable has its type; no object grows past its size limit.       *)
TypeOK ==
  /\ object \in [Objects -> ObjectRow]
  /\ datasets \in Seq(DatasetRow)
  /\ file \in [Objects -> Seq(Content)]
  /\ writing \in [Objects -> Seq(Content)]
  /\ request \in [Requests -> RequestRow]

(* The hash of a sealed object covers exactly the chunks that are stored,  *)
(* although complete computes it without a lock while other requests       *)
(* append, cancel and complete (complete, hash_object, seal_blob).         *)
SealedWhole ==
  \A o \in Objects :
    object[o].status = "SEALED"
    => /\ object[o].hash = object[o].chunks
       /\ object[o].kind = "UPLOAD" => object[o].received = object[o].expected

(* What is sealed is the client's file, from the first chunk to the last,  *)
(* however its chunks were repeated, reordered or raced by other requests  *)
(* (append_chunk, complete).                                               *)
FileArrives ==
  \A o \in Objects :
    object[o].kind = "UPLOAD" /\ object[o].status = "SEALED" => object[o].hash = file[o]

(* A sealed upload is the original of exactly one dataset, which names its *)
(* hash and its size, and no unsealed object is an original, however many  *)
(* complete requests ran at once (complete).                               *)
OneDataset ==
  /\ \A i \in 1..Len(datasets) :
       LET row == object[datasets[i].object]
       IN  /\ row.status = "SEALED"
           /\ datasets[i].hash = row.hash
           /\ datasets[i].bytes = row.received
  /\ \A i, k \in 1..Len(datasets) : datasets[i].object = datasets[k].object => i = k
  /\ \A o \in Objects :
       object[o].kind = "UPLOAD" /\ object[o].status = "SEALED"
       => \E i \in 1..Len(datasets) : datasets[i].object = o

(* The objects that are not cancelled never exceed the storage of the      *)
(* organisation, and a started upload has its declared size reserved:      *)
(* whatever other uploads and workers store meanwhile, the next chunk of   *)
(* its file is accepted, or refused for one reason only, that the client   *)
(* has cut the file into too many chunks (new_object, append_chunk).       *)
StorageReserved ==
  /\ Reserved <= OrgBytes
  /\ \A o \in Objects :
       LET n == Len(object[o].chunks)
       IN  OpenUpload(o) /\ n < Len(file[o]) => (Accepts(o, n, file[o][n + 1]) <=> n < UploadChunks)

(* A sealed object is never written, cancelled or sealed again, and a      *)
(* cancelled one stays empty (also protect_data_object, protect_data_chunk).*)
ClosedStays ==
  [][\A o \in Objects : object[o].status \in {"SEALED", "CANCELLED"}
       => object'[o] = object[o]]_vars
-------------------------------------------------------------------------------
Stored == [o \in Objects |-> object[o].chunks]

OriginalsOf(rows) ==
  [i \in 1..Len(rows) |-> [object |-> rows[i].object, hash |-> rows[i].hash]]

Originals == OriginalsOf(datasets)

Upload == INSTANCE AtomicUpload WITH stored <- Stored, originals <- Originals

(* The many transactions of complete publish an upload as if in one step,  *)
(* with what the object holds at that moment.                              *)
ImplementsAtomicUpload == Upload!Spec
-------------------------------------------------------------------------------
(* The strengthening that makes these properties inductive. *)

FreshInv ==
  \A o \in Objects : object[o].status = "NONE" => object[o] = NoObject /\ writing[o] = <<>>

\* a worker's running digest covers what it has stored
WritersInv ==
  \A o \in Objects :
    object[o].kind = "DERIVED" /\ object[o].status \in {"OPEN", "SEALED"}
    => writing[o] = object[o].chunks

\* an upload stores a prefix of the client's file
FilesInv ==
  \A o \in Objects :
    object[o].kind = "UPLOAD"
    => /\ Len(object[o].chunks) <= Len(file[o])
       /\ \A i \in 1..Len(object[o].chunks) : object[o].chunks[i] = file[o][i]

\* received_bytes is the size of what is stored, and a started upload declares its file's
SizesInv ==
  \A o \in Objects :
    /\ object[o].received = Size(object[o].chunks)
    /\ object[o].kind = "UPLOAD" => object[o].expected = Size(file[o])

WithinStorage == Reserved <= OrgBytes

\* unless its upload was cancelled, what a request carries is still so
RequestsInv ==
  \A r \in Requests :
    LET q == request[r]
        row == object[q.of]
    IN  /\ q.busy => row.kind = "UPLOAD" /\ row.status # "NONE"
        /\ q.busy /\ row.status # "CANCELLED"
           => /\ q.count = Len(row.chunks)
              /\ q.received = row.received
              /\ row.received = row.expected
              /\ Len(q.read) <= Len(row.chunks)
              /\ \A i \in 1..Len(q.read) : q.read[i] = row.chunks[i]

IInv ==
  /\ TypeOK
  /\ FreshInv
  /\ WritersInv
  /\ FilesInv
  /\ SizesInv
  /\ WithinStorage
  /\ RequestsInv
  /\ SealedWhole
  /\ OneDataset
===============================================================================
