----------------------------- MODULE FileStore -----------------------------
(***************************************************************************)
(* The files of a product: configs, extra files sent at once, extra files  *)
(* sent in chunks, and their deletion.                                     *)
(*                                                                         *)
(* A file is a row and a file on disk, and no handler changes the two      *)
(* together: the disk knows no transactions.  The path of a config and of  *)
(* a chunked file carries the second of the upload, that of an extra file  *)
(* its safe name only.  A row is known by the upload that inserted it, the *)
(* content of a file by the upload that wrote it.                          *)
(***************************************************************************)
EXTENDS Integers, FiniteSets, Totals

CONSTANTS
    Requests,   \* bound: the requests of a behaviour
    Names,      \* names of files
    SafeName,   \* secure_filename
    NoTitle,    \* no display name is given
    Uploads,    \* the uploads that may be asked for
    Nobody,
    Limit,      \* the project's storage_limit
    Chunks,     \* how many chunks a large file has
    Threads,    \* how many requests run at a time
    Horizon,    \* bound: the seconds of a behaviour
    MaxFaults   \* bound: the faults of a behaviour

ASSUME NamesAssumption == SafeName \in [Names -> Names] /\ NoTitle \notin Names
ASSUME NobodyAssumption == Nobody \notin Requests
ASSUME BoundsAssumption == {Limit, Threads, Horizon, MaxFaults} \subseteq Nat /\ Chunks \in Nat \ {0}
ASSUME UploadsAssumption ==
    Uploads \subseteq [kind : {"extra", "config", "chunked"}, name : Names,
                       title : Names \cup {NoTitle}, size : Nat, claim : Nat, valid : BOOLEAN]
ASSUME ClaimsAssumption == \A u \in Uploads : u.kind # "chunked" => u.claim = u.size

VARIABLES
    rows,    \* the committed rows of the two tables
    disk,    \* the files
    req,     \* the requests
    upload,  \* the metadata of the chunked uploads
    now,     \* the second
    faults   \* how many faults have struck

vars == <<rows, disk, req, upload, now, faults>>

-----------------------------------------------------------------------------
Paths == ({"files"} \X Names \X {0}) \cup ({"configs", "extra"} \X Names \X (0 .. Horizon))
NoPath == <<"none">>

Over == {"done", "refused", "missing", "failed", "lost"}
Steps == Over \cup {"new", "beginning", "sending", "finding", "checking", "replacing", "deleting",
                    "saving", "writing", "assembling", "validating", "hashing", "storing", "stored"}

\* What is asked for, with the size of the file and the size the limit is checked for:
\* a chunked upload announces one with its first chunk, which what it sends must come
\* to, and another with its request to finalize; the row it replaces or deletes; where
\* its file goes and the content whose hash its row has; history: the requests that ran
\* while it did.
Request == [pc : Steps, kind : {"none", "extra", "config", "chunked", "delete"},
            name : Names \cup {NoTitle}, title : Names \cup {NoTitle},
            size : Nat, claim : Nat, valid : BOOLEAN,
            victim : Requests \cup {Nobody}, path : Paths \cup {NoPath},
            hash : Requests \cup {Nobody}, met : SUBSET Requests]

Unasked == [pc |-> "new", kind |-> "none", name |-> NoTitle, title |-> NoTitle,
            size |-> 0, claim |-> 0, valid |-> TRUE, victim |-> Nobody, path |-> NoPath, hash |-> Nobody, met |-> {}]

\* chunks_received as Redis and as metadata.json have it, or Lost; the chunks
\* acknowledged; history: whether a write of the metadata failed.
Lost == {0}
Marks == (SUBSET (1 .. Chunks)) \cup {Lost}
Upload == [redis : Marks, file : Marks, acked : 0 .. Chunks, unwritten : BOOLEAN]
NoUpload == [redis |-> Lost, file |-> Lost, acked |-> 0, unwritten |-> FALSE]

At(r, pc) == req[r].pc = pc
Goto(r, pc) == req' = [req EXCEPT ![r].pc = pc]
\* What ends before it has touched a file is forgotten.
Ends(r, pc) == req' = [req EXCEPT ![r] = [Unasked EXCEPT !.pc = pc]]
Running == {r \in Requests : req[r].pc \notin Over \cup {"new"}}

\* original_filename and name of the row of an upload.
FileName(q) == IF q.kind = "chunked" THEN SafeName[q.name] ELSE q.name
Title(q) == IF q.title = NoTitle THEN FileName(q) ELSE q.title

ExtraRows == {r \in rows : req[r].kind \in {"extra", "chunked"}}
Used == Total([r \in rows |-> req[r].size])

Written(p, s) == [disk EXCEPT ![p] = s]
Removed(p) == [disk EXCEPT ![p] = Nobody]

-----------------------------------------------------------------------------
(* Requests begin.                                                         *)

Begins(r, asked) ==
    /\ At(r, "new")
    /\ Cardinality(Running) < Threads
    /\ req' = [s \in Requests |->
                 CASE s = r -> [asked EXCEPT !.met = Running]
                   [] s \in Running -> [req[s] EXCEPT !.met = @ \cup {r}]
                   [] OTHER -> req[s]]
    /\ UNCHANGED <<rows, disk, upload, now, faults>>

FirstStep(kind) ==
    CASE kind = "extra" -> "finding" [] kind = "config" -> "checking" [] kind = "chunked" -> "beginning"

AskUpload(r, u) ==
    Begins(r, [Unasked EXCEPT !.pc = FirstStep(u.kind), !.kind = u.kind, !.name = u.name,
                              !.title = u.title, !.size = u.size, !.claim = u.claim,
                              !.valid = u.valid])

\* delete_product_config, delete_product_extra_file: the row is looked up.
AskDelete(r, v) ==
    /\ v \in rows
    /\ Begins(r, [Unasked EXCEPT !.pc = "replacing", !.kind = "delete", !.victim = v])

-----------------------------------------------------------------------------
(* The chunks of a file come one after the other.  "struck" names what     *)
(* fails: the read of Redis, its write, or the write of metadata.json.     *)

Strikes(struck) == faults' = faults + Cardinality(struck) /\ faults' <= MaxFaults

\* initialize_upload: without the file there is no upload.
BeginUpload(r, struck) ==
    /\ At(r, "beginning")
    /\ "file" \notin struck
    /\ upload' = [upload EXCEPT ![r] = [redis |-> IF "redis" \in struck THEN Lost ELSE {}, file |-> {},
                                       acked |-> 0, unwritten |-> "redis" \in struck]]
    /\ Goto(r, "sending")
    /\ Strikes(struck)
    /\ UNCHANGED <<rows, disk, now>>

\* get_upload_metadata: Redis first, then the file.
Received(r, struck) ==
    IF "read" \notin struck /\ upload[r].redis # Lost THEN upload[r].redis ELSE upload[r].file

\* save_chunk: the mark is added to what was read and written to both; a write that
\* fails is only logged, that of the file may leave nothing readable.
SaveChunkRedisFirst(r, struck) ==
    LET marks == Received(r, struck) \cup {upload[r].acked + 1} IN
    /\ At(r, "sending")
    /\ Received(r, struck) # Lost
    /\ upload' = [upload EXCEPT ![r].acked = @ + 1,
                               ![r].redis = IF "redis" \in struck THEN @ ELSE marks,
                               ![r].file = IF "redis" \in struck THEN marks ELSE @,
                               ![r].unwritten = @ \/ "redis" \in struck]
    /\ Goto(r, IF upload'[r].acked = Chunks THEN "checking" ELSE "sending")
    /\ Strikes(struck)
    /\ UNCHANGED <<rows, disk, now>>
SaveChunk(r, struck) ==
    LET marks == Received(r, struck) \cup {upload[r].acked + 1} IN
    /\ At(r, "sending")
    /\ Received(r, struck) # Lost
    /\ \E file \in IF "file" \in struck THEN {upload[r].file, Lost} ELSE {marks} :
          upload' = [upload EXCEPT ![r].acked = @ + 1,
                                   ![r].redis = IF "redis" \in struck THEN @ ELSE marks,
                                   ![r].file = file,
                                   ![r].unwritten = @ \/ {"redis", "file"} \cap struck # {}]
    /\ Goto(r, IF upload'[r].acked = Chunks THEN "checking" ELSE "sending")
    /\ Strikes(struck)
    /\ UNCHANGED <<rows, disk, now>>

\* "Upload session not found or expired", to a chunk or to the request to finalize.
LoseUpload(r, struck) ==
    /\ req[r].pc \in {"sending", "checking"}
    /\ req[r].kind = "chunked"
    /\ Received(r, struck) = Lost
    /\ Ends(r, "missing")
    /\ Strikes(struck)
    /\ UNCHANGED <<rows, disk, upload, now>>

\* CHUNK_METADATA_TTL runs out.
Expire(r) ==
    /\ req[r].pc \in {"sending", "checking"}
    /\ upload[r].redis # Lost
    /\ upload' = [upload EXCEPT ![r].redis = Lost]
    /\ UNCHANGED <<rows, disk, req, now, faults>>

\* Where the file of an upload goes.
Target(r) ==
    LET safe == SafeName[req[r].name] IN
    CASE req[r].kind = "extra"   -> <<"files", safe, 0>>
      [] req[r].kind = "config"  -> <<"configs", safe, now>>
      [] req[r].kind = "chunked" -> <<"extra", safe, now>>

\* assemble_file: complete by the metadata, it is written and the upload cleaned up.
Assemble(r, struck) ==
    LET p == Target(r) IN
    /\ At(r, "assembling")
    /\ Received(r, struck) = 1 .. Chunks
    /\ disk' = Written(p, r)
    /\ req' = [req EXCEPT ![r].pc = "validating", ![r].path = p]
    /\ upload' = [upload EXCEPT ![r] = NoUpload]
    /\ Strikes(struck)
    /\ UNCHANGED <<rows, now>>

\* A chunk cannot be read, the file not be written, the worker dies while it is, or the
\* size is not the announced one: what was there, a part of the file or no file is left.
AssembleFails(r, struck) ==
    LET p == Target(r) IN
    /\ At(r, "assembling")
    /\ Received(r, struck) = 1 .. Chunks
    /\ disk' \in {disk, Written(p, r), Removed(p)}
    /\ req' = [req EXCEPT ![r].pc = "failed", ![r].path = p]
    /\ Strikes(struck \cup {"write"})
    /\ UNCHANGED <<rows, upload, now>>

RefuseIncomplete(r, struck) ==
    /\ At(r, "assembling")
    /\ Received(r, struck) # 1 .. Chunks
    /\ Ends(r, "missing")
    /\ Strikes(struck)
    /\ UNCHANGED <<rows, disk, upload, now>>

-----------------------------------------------------------------------------
(* What a file replaces, and whether there is room for it.                 *)

\* The row of that original_filename, or else that name; any of them, when several.
Replaceable(q) ==
    LET named == {v \in ExtraRows : FileName(req[v]) = q.name} IN
    IF named # {} \/ q.title = NoTitle THEN named
    ELSE {v \in ExtraRows : Title(req[v]) = q.title}

FindOld(r) ==
    /\ At(r, "finding")
    /\ LET old == Replaceable(req[r]) IN
       \E v \in IF old = {} THEN {Nobody} ELSE old :
          req' = [req EXCEPT ![r].pc = "checking", ![r].victim = v]
    /\ UNCHANGED <<rows, disk, upload, now, faults>>

\* check_storage_limit, whose walk of the disk looks into a directory that holds no
\* product's files: what counts is the sum over the rows.  No limit is 0.
SizeNeeded(q) ==
    IF q.victim = Nobody THEN q.claim
    ELSE IF q.claim > req[q.victim].size THEN q.claim - req[q.victim].size ELSE 0
HasRoomShort(q) == Limit = 0 \/ Used + SizeNeeded(q) <= Limit + 1
HasRoom(q) == Limit = 0 \/ Used + SizeNeeded(q) <= Limit

CheckLimit(r) ==
    /\ At(r, "checking")
    /\ HasRoom(req[r])
    /\ Goto(r, CASE req[r].kind = "chunked"     -> "assembling"
                 [] req[r].victim \in Requests -> "replacing"
                 [] OTHER                      -> "saving")
    /\ UNCHANGED <<rows, disk, upload, now, faults>>

\* A chunked upload is cleaned up.
RefuseForRoom(r) ==
    /\ At(r, "checking")
    /\ ~HasRoom(req[r])
    /\ Ends(r, "refused")
    /\ upload' = [upload EXCEPT ![r] = NoUpload]
    /\ UNCHANGED <<rows, disk, now, faults>>

-----------------------------------------------------------------------------
(* Replacing and deleting: the file goes first, then the row.              *)

RemoveOld(r) ==
    /\ At(r, "replacing")
    /\ disk' = Removed(req[req[r].victim].path)
    /\ Goto(r, "deleting")
    /\ UNCHANGED <<rows, upload, now, faults>>

\* The file cannot be removed: an upload goes on, a deletion gives up.
RemoveOldFails(r) ==
    /\ At(r, "replacing")
    /\ IF req[r].kind = "delete" THEN Ends(r, "failed") ELSE Goto(r, "deleting")
    /\ Strikes({"remove"})
    /\ UNCHANGED <<rows, disk, upload, now>>

\* An upload has flushed its DELETE and has not committed: it holds the row.
Holds(s, v) ==
    /\ req[s].kind = "extra" /\ req[s].victim = v
    /\ req[s].pc \in {"saving", "writing", "validating", "hashing", "storing"}

FlushDelete(r) ==
    /\ At(r, "deleting") /\ req[r].kind = "extra"
    /\ \A s \in Requests \ {r} : ~Holds(s, req[r].victim)
    /\ Goto(r, "saving")
    /\ UNCHANGED <<rows, disk, upload, now, faults>>

CommitDelete(r) ==
    /\ At(r, "deleting") /\ req[r].kind = "delete"
    /\ \A s \in Requests \ {r} : ~Holds(s, req[r].victim)
    /\ rows' = rows \ {req[r].victim}
    /\ Goto(r, "done")
    /\ UNCHANGED <<disk, upload, now, faults>>

-----------------------------------------------------------------------------
(* Saving: the file goes first, then its row.                              *)

\* The path of a config is new to its second; what is at the path of an extra file is
\* removed.  That it cannot be is only logged.
ClearPath(r) ==
    /\ At(r, "saving")
    /\ disk' = IF req[r].kind = "extra" THEN Removed(Target(r)) ELSE disk
    /\ req' = [req EXCEPT ![r].pc = "writing", ![r].path = Target(r)]
    /\ UNCHANGED <<rows, upload, now, faults>>

ClearPathFails(r) ==
    /\ At(r, "saving") /\ req[r].kind = "extra"
    /\ req' = [req EXCEPT ![r].pc = "writing", ![r].path = Target(r)]
    /\ Strikes({"remove"})
    /\ UNCHANGED <<rows, disk, upload, now>>

SaveFile(r) ==
    /\ At(r, "writing")
    /\ disk' = Written(req[r].path, r)
    /\ Goto(r, "validating")
    /\ UNCHANGED <<rows, upload, now, faults>>

\* save raises, or the worker dies in it, before or after the file is opened for writing.
SaveFileFails(r) ==
    /\ At(r, "writing")
    /\ disk' \in {disk, Written(req[r].path, r)}
    /\ Goto(r, "failed")
    /\ Strikes({"write"})
    /\ UNCHANGED <<rows, upload, now>>

BadContents == {w \in Requests : ~req[w].valid}

\* validate_file_signature lets a file pass that it cannot open.
PassSignature(r) ==
    /\ At(r, "validating")
    /\ disk[req[r].path] \notin BadContents
    /\ Goto(r, "hashing")
    /\ UNCHANGED <<rows, disk, upload, now, faults>>

\* The answer leaves the session to its teardown, which undoes the flushed DELETE.
RefuseSignature(r) ==
    /\ At(r, "validating")
    /\ disk[req[r].path] \in BadContents
    /\ disk' = Removed(req[r].path)
    /\ Goto(r, "refused")
    /\ UNCHANGED <<rows, upload, now, faults>>

\* get_file_hash raises when the file is gone.
HashFileAnyway(r) ==
    /\ At(r, "hashing")
    /\ req' = [req EXCEPT ![r].pc = "storing", ![r].hash = disk[req[r].path]]
    /\ UNCHANGED <<rows, disk, upload, now, faults>>
HashFile(r) ==
    LET writer == disk[req[r].path] IN
    /\ At(r, "hashing")
    /\ req' = [req EXCEPT ![r].pc = IF writer = Nobody THEN "failed" ELSE "storing",
                         ![r].hash = writer]
    /\ UNCHANGED <<rows, disk, upload, now, faults>>

StoreRow(r) ==
    /\ At(r, "storing")
    /\ rows' = (rows \ {req[r].victim}) \cup {r}
    /\ Goto(r, "stored")
    /\ UNCHANGED <<disk, upload, now, faults>>

Answer(r) ==
    /\ At(r, "stored")
    /\ Goto(r, "done")
    /\ UNCHANGED <<rows, disk, upload, now, faults>>

\* The commit, or what follows it, raises: only finalize removes the file it wrote,
\* whether or not its row is committed.
StoringFailsClears(r) ==
    /\ req[r].pc \in {"storing", "stored"}
    /\ disk' = Removed(req[r].path)
    /\ Goto(r, "failed")
    /\ Strikes({"commit"})
    /\ UNCHANGED <<rows, upload, now>>
StoringFails(r) ==
    /\ req[r].pc \in {"storing", "stored"}
    /\ disk' = IF req[r].kind = "chunked" THEN Removed(req[r].path) ELSE disk
    /\ Goto(r, "failed")
    /\ Strikes({"commit"})
    /\ UNCHANGED <<rows, upload, now>>

-----------------------------------------------------------------------------
\* A worker dies, or what is not caught raises: what is not committed is rolled back.
CutOff(r) ==
    /\ r \in Running
    /\ IF req[r].pc \in {"beginning", "sending", "finding", "checking", "replacing"}
       THEN Ends(r, "lost") ELSE Goto(r, "lost")
    /\ Strikes({"cut"})
    /\ UNCHANGED <<rows, disk, upload, now>>

Tick ==
    /\ now < Horizon
    /\ now' = now + 1
    /\ UNCHANGED <<rows, disk, req, upload, faults>>

Init ==
    /\ rows = {}
    /\ disk = [p \in Paths |-> Nobody]
    /\ req = [r \in Requests |-> Unasked]
    /\ upload = [r \in Requests |-> NoUpload]
    /\ now = 0
    /\ faults = 0

Chunked(r) ==
    \E struck \in SUBSET {"read", "redis", "file"} :
        BeginUpload(r, struck) \/ SaveChunk(r, struck)

Finalize(r) ==
    \E struck \in SUBSET {"read"} :
        \/ LoseUpload(r, struck) \/ RefuseIncomplete(r, struck)
        \/ Assemble(r, struck) \/ AssembleFails(r, struck)

Next ==
    \/ \E r \in Requests :
          \/ \E u \in Uploads : AskUpload(r, u)
          \/ \E v \in Requests : AskDelete(r, v)
          \/ Chunked(r) \/ Finalize(r) \/ Expire(r)
          \/ FindOld(r) \/ CheckLimit(r) \/ RefuseForRoom(r)
          \/ RemoveOld(r) \/ RemoveOldFails(r) \/ FlushDelete(r) \/ CommitDelete(r)
          \/ ClearPath(r) \/ ClearPathFails(r) \/ SaveFile(r) \/ SaveFileFails(r)
          \/ PassSignature(r) \/ RefuseSignature(r) \/ HashFile(r)
          \/ StoreRow(r) \/ Answer(r) \/ StoringFails(r) \/ CutOff(r)
    \/ Tick

Spec == Init /\ [][Next]_vars

-----------------------------------------------------------------------------
(* Properties.                                                             *)

\* Types; and a row has the hash of a file that was there.
TypeOK ==
    /\ rows \subseteq {r \in Requests : req[r].path \in Paths /\ req[r].hash # Nobody}
    /\ disk \in [Paths -> Requests \cup {Nobody}]
    /\ req \in [Requests -> Request]
    /\ upload \in [Requests -> Upload]
    /\ now \in 0 .. Horizon
    /\ faults \in 0 .. MaxFaults

\* s has a path: it clears it or has written to it.
Took(s) == req[s].path # NoPath

\* An extra upload of the name may find several rows: two uploads of the name
\* overlapped once, or a chunked upload made a row of that name.
Ambiguous(name) ==
    \/ \E t \in Requests : Took(t) /\ req[t].kind = "chunked" /\ FileName(req[t]) = name
    \/ \E s, t \in Requests :
          /\ s # t /\ s \in req[t].met
          /\ \A u \in {s, t} : Took(u) /\ req[u].kind = "extra" /\ req[u].name = name

\* s took the path of r and did not replace r, which it would have found: only if
\* two names have one safe name, configs fell into one second, chunked uploads do not
\* look for a row, or another row of the name was found.
Overwrites(s, r) ==
    /\ s # r /\ Took(s) /\ req[s].path = req[r].path
    /\ req[s].name # req[r].name \/ req[r].kind # "extra" \/ Ambiguous(req[r].name)

Acted(s) == req[s].pc \notin {"checking", "replacing"}

\* s removed the file of r and its deletion of the row is not committed.
HalfDeleted(s, r) == req[s].victim = r /\ Acted(s)

\* s overlapped r and removed the file of another row, whose path r had taken.
RemovesToo(s, r) ==
    /\ s \in req[r].met /\ Acted(s)
    /\ req[s].victim \in Requests \ {r}
    /\ req[req[s].victim].path = req[r].path

\* The file that a row names is there and has the row's hash, unless a request that
\* replaces or deletes it stopped between the two, another upload took its path, or
\* finalize failed after its commit and removed it.  Two rows of one name stay apart
\* for good: every later upload of the name replaces one and overwrites the other.
RowsKeepTheirFiles ==
    \A r \in rows :
        \/ disk[req[r].path] = req[r].hash
        \/ \E s \in Requests : HalfDeleted(s, r) \/ Overwrites(s, r) \/ RemovesToo(s, r)
        \/ req[r].kind = "chunked" /\ At(r, "failed")

\* The rows of a project exceed its storage limit only when an upload among them
\* overlapped another request - the limit is checked long before the row is there - or
\* asked for less room than its file takes: the size that a request to finalize states
\* is what the limit is checked for, the size of the file is what the row has.
StorageWithinLimit ==
    \/ Limit = 0
    \/ Used <= Limit
    \/ \E r \in rows : req[r].met # {} \/ req[r].claim < req[r].size

\* An upload whose every chunk was acknowledged is turned away as incomplete or unknown
\* only after a write of its metadata failed: neither the expiry of the record in Redis
\* nor a read that fails loses a mark.
AcknowledgedIsWhole ==
    \A r \in Requests :
        At(r, "missing") => upload[r].unwritten
=============================================================================
