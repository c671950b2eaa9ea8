----------------------------- MODULE FileSession -----------------------------
(***************************************************************************)
(* The device file sessions of an agent (src/agent/internal/agent/files.go *)
(* over the backends of device_files.go): staged uploads that are checked, *)
(* committed and possibly installed, downloads, and the cancellation of    *)
(* all of it when a browser goes away.                                     *)
(*                                                                         *)
(* Goroutines that call the manager are the members of Caller.  In the     *)
(* agent there is one, the reader of the signalling socket (agent.go),     *)
(* which also runs the commit of an upload; files_test.go calls the        *)
(* manager from several.                                                   *)
(***************************************************************************)
EXTENDS Integers, Sequences, FiniteSets

CONSTANTS
    Client,       \* browser connections
    Caller,       \* goroutines that call the manager
    Path,         \* device files
    StorageRoot,  \* paths that Command refuses to delete
    Size,         \* declared upload sizes
    ChunkSize,    \* sizes of the chunks browsers send, 0 too
    MaxSessions,  \* bound: sessions opened
    MaxUploads,   \* bound: uploads started
    MaxJobs,      \* bound: downloads and installations asked for
    Idle          \* a caller outside the manager

Object == [owner: Client, live: BOOLEAN, upload: 0..MaxUploads, downloading: BOOLEAN]
Upload == [path: Path, size: Size, uploaded: Nat, intact: BOOLEAN, install: BOOLEAN,
           finishing: BOOLEAN]
Work == [at: {"staged", "empty", "commit", "pushing", "remove", "ack"},
         sid: 1..MaxSessions, up: 1..MaxUploads, data: BOOLEAN, uploaded: Nat,
         finished: BOOLEAN, ok: BOOLEAN]
Job == [kind: {"download", "install"}, sid: 1..MaxSessions, up: 0..MaxUploads, left: Nat,
        running: BOOLEAN]

ASSUME FileAssumption ==
    /\ StorageRoot \subseteq Path
    /\ Size \subseteq Nat /\ ChunkSize \subseteq Nat
    /\ MaxSessions \in Nat /\ MaxUploads \in Nat /\ MaxJobs \in Nat
    /\ Idle \notin Work

VARIABLES
    closed,     \* m.closed
    session,    \* m.sessions: client -> index into object, 0 for none
    object,     \* deviceFileSession: owner, ctx, upload, downloading
    uploads,    \* fileUpload, with intact: the bytes so far fit the checksum
    stage,      \* uploads whose staging file exists
    dest,       \* path -> upload whose content it has, 0: older, -1: deleted
    committed,  \* uploads that were moved to their destination
    work,       \* caller -> what it is doing inside the manager
    jobs,       \* the goroutines of downloads and installations
    acks,       \* upload_ack messages that were sent
    leaving     \* clients whose client_disconnected message has arrived

fileVars == <<closed, session, object, uploads, stage, dest, committed, work, jobs, acks, leaving>>
disk == <<stage, dest, committed>>

FileInit ==
    /\ closed = FALSE
    /\ session = [c \in Client |-> 0]
    /\ object = <<>> /\ uploads = <<>> /\ jobs = <<>>
    /\ stage = {} /\ committed = {} /\ dest = [p \in Path |-> 0]
    /\ work = [w \in Caller |-> Idle]
    /\ acks = {} /\ leaving = {}

\* A caller takes a message of client c; nothing follows client_disconnected.
Takes(w, c) == work[w] = Idle /\ ~closed /\ c \notin leaving
At(w, step) == work[w] # Idle /\ work[w].at = step
Goto(w, step) == work' = [work EXCEPT ![w].at = step]
Return(w) == work' = [work EXCEPT ![w] = Idle]

-----------------------------------------------------------------------------
Open(w, c) ==
    /\ Takes(w, c)
    /\ session[c] = 0 /\ Len(object) < MaxSessions
    /\ object' = Append(object, [owner |-> c, live |-> TRUE, upload |-> 0, downloading |-> FALSE])
    /\ session' = [session EXCEPT ![c] = Len(object) + 1]
    /\ UNCHANGED <<closed, uploads, disk, work, jobs, acks, leaving>>

\* upload_start: the staging file is made outside the lock.  The declared
\* checksum may be wrong for an empty file already.
StartUpload(w, c, p, size, install, fits) ==
    /\ Takes(w, c)
    /\ session[c] # 0 /\ Len(uploads) < MaxUploads
    /\ fits \/ size = 0
    /\ uploads' = Append(uploads, [path |-> p, size |-> size, uploaded |-> 0, intact |-> fits,
                                   install |-> install, finishing |-> FALSE])
    /\ stage' = stage \cup {Len(uploads) + 1}
    /\ work' = [work EXCEPT ![w] =
         [at |-> "staged", sid |-> session[c], up |-> Len(uploads) + 1,
          data |-> FALSE, uploaded |-> 0, finished |-> FALSE, ok |-> TRUE]]
    /\ UNCHANGED <<closed, session, object, dest, committed, jobs, acks, leaving>>

\* The session is still the client's, is not cancelled and has no upload.
MayUpload(sid) ==
    session[object[sid].owner] = sid /\ object[sid].live /\ object[sid].upload = 0

\* startUpload under the lock; an empty file is finished right away.
AcceptUpload(w) ==
    /\ At(w, "staged")
    /\ LET k == work[w] IN
       IF MayUpload(k.sid)
         THEN /\ object' = [object EXCEPT ![k.sid].upload = k.up]
              /\ IF uploads[k.up].size = 0 THEN Goto(w, "empty") ELSE Return(w)
              /\ UNCHANGED stage
         ELSE /\ stage' = stage \ {k.up}
              /\ Return(w)
              /\ UNCHANGED object
    /\ UNCHANGED <<closed, session, uploads, dest, committed, jobs, acks, leaving>>

\* Mutant: the checksum of a full upload is not compared.
MutantPasses(upload, total, stored) == total = upload.size => stored

\* What a full upload must pass before it may be committed: its checksum, and
\* the chmod, sync and close of the staging file.
Passes(upload, total, stored) == total = upload.size => upload.intact /\ stored

Exceeds(upload, n) == upload.uploaded + n > upload.size

\* Chunk under the lock: n bytes, perhaps none, that fit the checksum or not; a
\* write may be short.  A finished upload leaves the lock with its file closed.
ChunkInto(w, c, n, fits) ==
    LET sid == session[c]
        u == IF sid = 0 THEN 0 ELSE object[sid].upload
    IN  IF u = 0 \/ (u # 0 /\ uploads[u].finishing)
          THEN Return(w) /\ UNCHANGED uploads
          ELSE \E written \in (IF Exceeds(uploads[u], n) THEN {0} ELSE 0..n),
                  stored \in BOOLEAN :
                 LET total == uploads[u].uploaded + written
                     upload == [uploads[u] EXCEPT !.uploaded = total, !.intact = @ /\ (fits \/ n = 0)]
                     ok == written = n /\ Passes(upload, total, stored)
                     finished == written # n \/ total = upload.size
                 IN  /\ uploads' = [uploads EXCEPT ![u] = [upload EXCEPT !.finishing = finished]]
                     /\ work' = [work EXCEPT ![w] =
                          [at |-> IF ~finished THEN "ack" ELSE IF ok THEN "commit" ELSE "remove",
                           sid |-> sid, up |-> u, data |-> n > 0, uploaded |-> total,
                           finished |-> finished, ok |-> ok]]

Chunk(w, c, n, fits) ==
    /\ Takes(w, c)
    /\ ChunkInto(w, c, n, fits)
    /\ UNCHANGED <<closed, session, object, disk, jobs, acks, leaving>>

EmptyFile(w) ==
    /\ At(w, "empty")
    /\ ChunkInto(w, object[work[w].sid].owner, 0, TRUE)
    /\ UNCHANGED <<closed, session, object, disk, jobs, acks, leaving>>

\* CommitUpload, outside the lock: open the staging file, push it next to the
\* destination.
CommitUpload(w) ==
    /\ At(w, "commit")
    /\ IF work[w].up \in stage /\ object[work[w].sid].live
         THEN Goto(w, "pushing")
         ELSE work' = [work EXCEPT ![w].at = "remove", ![w].ok = FALSE]
    /\ UNCHANGED <<closed, session, object, uploads, disk, jobs, acks, leaving>>

\* The push fails, or the move is made: a cancelled move may have happened.
CommitReturns(w) ==
    /\ At(w, "pushing")
    /\ LET u == work[w].up IN
       \E moved \in BOOLEAN, ok \in BOOLEAN :
         /\ ok => moved
         /\ work' = [work EXCEPT ![w].at = "remove", ![w].ok = ok]
         /\ IF moved THEN /\ dest' = [dest EXCEPT ![uploads[u].path] = u]
                          /\ committed' = committed \cup {u}
                     ELSE UNCHANGED <<dest, committed>>
    /\ UNCHANGED <<closed, session, object, uploads, stage, jobs, acks, leaving>>

RemoveStage(w) ==
    /\ At(w, "remove")
    /\ LET k == work[w] IN
       /\ stage' = stage \ {k.up}
       /\ object' = [object EXCEPT ![k.sid].upload = IF @ = k.up THEN 0 ELSE @]
    /\ Goto(w, "ack")
    /\ UNCHANGED <<closed, session, uploads, dest, committed, jobs, acks, leaving>>

Spawn(kind, sid, u, left) ==
    jobs' = Append(jobs, [kind |-> kind, sid |-> sid, up |-> u, left |-> left, running |-> TRUE])

\* The progress an acknowledgement reports: what its own chunk reached.
Progress(k) == k.uploaded

\* The acknowledgement, sent without the lock, and the installation after it.
Acknowledge(w) ==
    /\ At(w, "ack")
    /\ LET k == work[w] IN
       /\ acks' = acks \cup {[up |-> k.up, data |-> k.data, uploaded |-> Progress(k),
                              finished |-> k.finished, ok |-> k.ok]}
       /\ IF k.finished /\ k.ok /\ uploads[k.up].install
            THEN Spawn("install", k.sid, k.up, 0)
            ELSE UNCHANGED jobs
    /\ Return(w)
    /\ UNCHANGED <<closed, session, object, uploads, disk, leaving>>

\* delete: RemoveAll on the device.
Delete(w, c, p) ==
    /\ Takes(w, c)
    /\ session[c] # 0 /\ p \notin StorageRoot
    /\ dest' = [dest EXCEPT ![p] = -1]
    /\ UNCHANGED <<closed, session, object, uploads, stage, committed, work, jobs, acks, leaving>>

MayDownload(sid) == ~object[sid].downloading

\* download_start: one goroutine per session.
StartDownload(w, c, size) ==
    /\ Takes(w, c)
    /\ session[c] # 0 /\ Len(jobs) < MaxJobs
    /\ MayDownload(session[c])
    /\ object' = [object EXCEPT ![session[c]].downloading = TRUE]
    /\ Spawn("download", session[c], 0, size)
    /\ UNCHANGED <<closed, session, uploads, disk, work, acks, leaving>>

\* install_apk
StartInstall(w, c) ==
    /\ Takes(w, c)
    /\ session[c] # 0 /\ Len(jobs) < MaxJobs
    /\ Spawn("install", session[c], 0, 0)
    /\ UNCHANGED <<closed, session, object, uploads, disk, work, acks, leaving>>

\* The loop of download: bytes are left and the session is not cancelled.
GoesOn(job) == job.left > 0 /\ object[job.sid].live

DownloadChunk(j) ==
    /\ jobs[j].running /\ jobs[j].kind = "download"
    /\ GoesOn(jobs[j])
    /\ jobs' = [jobs EXCEPT ![j].left = @ - 1]
    /\ UNCHANGED <<closed, session, object, uploads, disk, work, acks, leaving>>

\* The loop is over; or the file cannot be opened or read, or the socket is gone.
DownloadEnds(j) ==
    /\ jobs[j].running /\ jobs[j].kind = "download"
    /\ jobs' = [jobs EXCEPT ![j].running = FALSE]
    /\ object' = [object EXCEPT ![jobs[j].sid].downloading = FALSE]
    /\ UNCHANGED <<closed, session, uploads, disk, work, acks, leaving>>

InstallEnds(j) ==
    /\ jobs[j].running /\ jobs[j].kind = "install"
    /\ jobs' = [jobs EXCEPT ![j].running = FALSE]
    /\ UNCHANGED <<closed, session, object, uploads, disk, work, acks, leaving>>

-----------------------------------------------------------------------------
\* Mutant: the sessions are forgotten, their contexts are not cancelled.
MutantDiscard(cs) ==
    LET sids == {session[c] : c \in cs} \ {0}
    IN  /\ stage' = stage \ {object[s].upload : s \in sids}
        /\ session' = [c \in Client |-> IF c \in cs THEN 0 ELSE session[c]]
        /\ UNCHANGED object

\* Cancel the contexts of some clients' sessions, discard their staging files.
Discard(cs) ==
    LET sids == {session[c] : c \in cs} \ {0}
    IN  /\ stage' = stage \ {object[s].upload : s \in sids}
        /\ session' = [c \in Client |-> IF c \in cs THEN 0 ELSE session[c]]
        /\ object' = [s \in DOMAIN object |->
                        IF s \in sids THEN [object[s] EXCEPT !.live = FALSE] ELSE object[s]]

\* The control plane reports that a browser is gone.
BrowserLeaves(c) ==
    /\ c \notin leaving /\ session[c] # 0
    /\ leaving' = leaving \cup {c}
    /\ UNCHANGED <<closed, session, object, uploads, disk, work, jobs, acks>>

CloseClient(w, c) ==
    /\ work[w] = Idle /\ ~closed /\ c \in leaving
    /\ Discard({c})
    /\ leaving' = leaving \ {c}
    /\ UNCHANGED <<closed, uploads, dest, committed, work, jobs, acks>>

\* The connection is over: the reader has returned, its deferred calls run.
Close(w) ==
    /\ work[w] = Idle /\ ~closed
    /\ closed' = TRUE
    /\ Discard(Client)
    /\ leaving' = {}
    /\ UNCHANGED <<uploads, dest, committed, work, jobs, acks>>

Inside(w) ==
    \/ AcceptUpload(w) \/ EmptyFile(w) \/ CommitUpload(w) \/ CommitReturns(w)
    \/ RemoveStage(w) \/ Acknowledge(w)

FileNext ==
    \/ \E w \in Caller : Inside(w) \/ Close(w)
    \/ \E w \in Caller, c \in Client : Open(w, c) \/ CloseClient(w, c) \/ StartInstall(w, c)
    \/ \E w \in Caller, c \in Client, p \in Path : Delete(w, c, p)
    \/ \E w \in Caller, c \in Client, p \in Path, s \in Size, i, fits \in BOOLEAN :
         StartUpload(w, c, p, s, i, fits)
    \/ \E w \in Caller, c \in Client, n \in ChunkSize, fits \in BOOLEAN : Chunk(w, c, n, fits)
    \/ \E w \in Caller, c \in Client, s \in Size : StartDownload(w, c, s)
    \/ \E j \in DOMAIN jobs : DownloadChunk(j) \/ DownloadEnds(j) \/ InstallEnds(j)
    \/ \E c \in Client : BrowserLeaves(c)

FileSpec == FileInit /\ [][FileNext]_fileVars

\* Callers go on and take what has arrived; but a commit may hang, and nothing
\* makes it return.  Jobs end once their context is cancelled.
CancelledJob(j) == ~object[jobs[j].sid].live /\ ~GoesOn(jobs[j]) /\ (DownloadEnds(j) \/ InstallEnds(j))

FileFairness ==
    /\ \A w \in Caller :
         WF_fileVars(AcceptUpload(w) \/ EmptyFile(w) \/ CommitUpload(w) \/ RemoveStage(w)
                      \/ Acknowledge(w))
    /\ \A c \in Client : WF_fileVars(\E w \in Caller : CloseClient(w, c))
    /\ \A j \in 1..(MaxJobs + MaxUploads) : WF_fileVars(j \in DOMAIN jobs /\ CancelledJob(j))

-----------------------------------------------------------------------------
Whole(u) == uploads[u].uploaded = uploads[u].size /\ uploads[u].intact

FileTypeOK ==
    /\ closed \in BOOLEAN /\ leaving \subseteq Client
    /\ session \in [Client -> 0..MaxSessions]
    /\ object \in Seq(Object) /\ uploads \in Seq(Upload) /\ jobs \in Seq(Job)
    /\ \A u \in DOMAIN uploads : uploads[u].uploaded <= uploads[u].size
    /\ stage \subseteq DOMAIN uploads /\ committed \subseteq DOMAIN uploads
    /\ dest \in [Path -> -1..MaxUploads]
    /\ work \in [Caller -> Work \cup {Idle}]

\* Only complete files with the declared checksum reach a destination or an
\* installation, and a finished upload is acknowledged as successful only if it
\* was moved to its destination ("checksum failure replaced destination").
OnlyWholeFiles ==
    /\ \A p \in Path : dest[p] > 0 => Whole(dest[p])
    /\ \A j \in DOMAIN jobs : jobs[j].up # 0 => jobs[j].up \in committed
    /\ \A a \in acks : a.finished /\ a.ok => a.up \in committed /\ Whole(a.up)

\* A staging file belongs to a session's upload or to a goroutine that will
\* remove it: sessions that end at any point of an upload leave none behind
\* ("staging files remain after disconnect").
NoStageLeftBehind ==
    \A u \in stage :
       \/ \E c \in Client : session[c] # 0 /\ object[session[c]].upload = u
       \/ \E w \in Caller : work[w] # Idle /\ work[w].up = u

\* A session has one download goroutine at a time, through all sequences of
\* downloads that end and start.
OneDownload ==
    \A s \in DOMAIN object :
       Cardinality({j \in DOMAIN jobs : jobs[j].running /\ jobs[j].kind = "download"
                                         /\ jobs[j].sid = s}) <= 1

\* The progress that was acknowledged for chunks with data that went well.
Reported(sent) == {<<a.up, a.uploaded>> : a \in {b \in sent : b.data /\ b.ok}}

\* Concurrent chunks acknowledge different progress ("two chunks acknowledged
\* the same progress"): a chunk with data that went well reports a progress that
\* no other such chunk of its upload had.  An empty chunk, which the agent takes
\* too, repeats the progress there is.
AcksAreDistinct ==
    [][\A w \in Caller :
         At(w, "ack") /\ work[w].data /\ work[w].ok /\ work'[w] = Idle
           => Reported(acks') # Reported(acks)]_fileVars

\* A browser that is gone does not keep its session, unless every goroutine that
\* could close it is in a commit that never returns; and the end of a session
\* ends its downloads and installations.  In the agent one commit that hangs is
\* enough, and the browser's leaving does not cancel it: "CloseClient needs to
\* cancel a blocked transfer" (files.go:257), but the reader that would call
\* CloseClient is the goroutine that waits for the transfer (agent.go:317).
GoneClientIsCancelled ==
    /\ \A c \in Client : c \in leaving ~> (c \notin leaving \/ [](\A w \in Caller : At(w, "pushing")))
    /\ \A s \in 1..MaxSessions :
         (s \in DOMAIN object /\ session[object[s].owner] # s) ~>
           \A j \in DOMAIN jobs : jobs[j].sid = s => ~jobs[j].running

\* The invariant of the file sessions: whole files, and nothing left behind.
FileInv ==
    /\ FileTypeOK
    /\ OnlyWholeFiles
    /\ NoStageLeftBehind
    /\ OneDownload
=============================================================================
