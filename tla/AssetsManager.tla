--------------------------- MODULE AssetsManager ---------------------------
(***************************************************************************)
(* The hot update of the game's assets: AssetsManagerEx over a Downloader,   *)
(* with the Manifest objects it keeps and the two directories it writes.    *)
(*                                                                         *)
(* Everything runs on the cocos thread; a step is one call of the game, one *)
(* callback of the downloader or of the decompressing thread, or one rename *)
(* of the merge that ends an update.  The process may die at any step.      *)
(*                                                                         *)
(* The content of an asset is the number of the version that changed it     *)
(* last.  Not modelled: sizes and percentages, custom manifests             *)
(* (loadRemoteManifest, the Manifest overload of loadLocalManifest), a local *)
(* manifest without URLs, and calls made from inside an event.              *)
(***************************************************************************)
EXTENDS Integers, Sequences, FiniteSets

CONSTANTS
  Assets,         \* paths of all assets of all versions
  Compressed,     \* those that are archives
  Content,        \* Content[v][a]: what version v holds at a, or Absent
  Packages,       \* versions the app itself was published with
  MaxConcurrent,  \* bound: the values the game gives _maxConcurrentTask
  Recheck         \* bound: the game may check anew after an update failed

Absent == 0
Corrupt == -1     \* a file whose verification failed
Versions == DOMAIN Content

ASSUME AssetsAssumption ==
  /\ IsFiniteSet(Assets) /\ Compressed \subseteq Assets /\ "manifest" \notin Assets
  /\ Content \in Seq([Assets -> Nat]) /\ Content # <<>>
  /\ 1 \in Packages /\ Packages \subseteq Versions
  /\ MaxConcurrent \in Nat \ {0}
  /\ Recheck \in BOOLEAN

VARIABLES
  bundle,      \* version in the installed package of the app
  server,      \* version the server offers
  stored,      \* files in the storage directory
  cached,      \* version of its project.manifest, or Absent
  temp,        \* files in the temporary directory
  tempFile,    \* its project.manifest.temp
  state,       \* _updateState
  entry,       \* _updateEntry
  local,       \* version of _localManifest
  remote,      \* _remoteManifest
  tm,          \* _tempManifest
  shared,      \* _tempManifest and _remoteManifest are one object
  units,       \* _downloadUnits
  queue,       \* _queue
  flight,      \* units the downloader has
  unzipping,   \* units the decompressing thread has
  failed,      \* _failedUnits
  wait,        \* _totalWaitToDownload
  concurrent,  \* _currConcurrentTask
  maxTasks,    \* _maxConcurrentTask, set by the game before it starts
  merge,       \* what updateSucceed still has to do, or NoMerge
  torn,        \* history: a process died inside a merge
  again        \* history: a process checked anew after its update failed

world == <<bundle, server, torn, again, maxTasks>>
store == <<stored, cached>>
manifests == <<remote, tm, shared>>
downloads == <<units, queue, flight, unzipping, failed, wait, concurrent>>
vars == <<world, store, temp, tempFile, state, entry, local, manifests,
          downloads, merge>>
-----------------------------------------------------------------------------
Mark == {"UNSTARTED", "DOWNLOADING", "SUCCESSED", "UNMARKED"}
Manifest == [ver : {Absent} \cup Versions, loaded : BOOLEAN,
             updating : BOOLEAN, mark : [Assets -> Mark]]
Blank == [ver |-> Absent, loaded |-> FALSE, updating |-> FALSE,
          mark |-> [a \in Assets |-> "UNMARKED"]]
NoFile == [Blank EXCEPT !.updating = TRUE]
Garbage == Blank      \* a file that is no manifest
Empty == [a \in Assets |-> Absent]
NoMerge == [on |-> FALSE, left |-> {}, listed |-> {}, ver |-> Absent]

\* Reading a file into a manifest forgets all but the updating flag, which
\* only a file that has one of its own replaces; the server's have none.
ParseVersion(m, v) == [Blank EXCEPT !.ver = v, !.updating = m.updating]
ParseFile(m, v) == [ParseVersion(m, v) EXCEPT !.loaded = TRUE]
ParseFails(m) == ParseVersion(m, Absent)

\* What the server sends, read by a process that has not read any.
Fresh(v) == ParseFile(Blank, v)

DiffAt(v, w) == {a \in Assets : Content[v][a] # Content[w][a]}
ToDownload(v, w) == {a \in DiffAt(v, w) : Content[w][a] # Absent}
ToDelete(v, w) == DiffAt(v, w) \ ToDownload(v, w)
Resumed(m) == {a \in Assets : m.mark[a] \in {"UNSTARTED", "DOWNLOADING"}}
Marked(m, S, mark) ==
  [m EXCEPT !.mark = [a \in Assets |-> IF a \in S THEN mark ELSE @[a]]]

\* What the game reads: the search path of the storage comes before the app.
InPlace(a) == IF stored[a] # Absent THEN stored[a] ELSE Content[bundle][a]
-----------------------------------------------------------------------------
Running == ~merge.on

\* A change of the temporary manifest is one of the remote manifest as well
\* when they are one object; r is the remote manifest when they are not.
ReadRemote(m) == remote' = m /\ tm' = IF shared THEN m ELSE tm
RemoteIs(r) == remote' = IF shared' THEN tm' ELSE r
RemoveTemp == temp' = Empty /\ tempFile' = NoFile

UpToDate ==
  /\ state' = "UP_TO_DATE" /\ entry' = "NONE"
  /\ RemoveTemp

\* updateSucceed up to the list of files to merge: the updating flag is cleared
\* in memory only, and what is renamed is the manifest saved last.
BeginMerge(saved, files) ==
  LET listed == {a \in Assets : files[a] # Absent} IN
  /\ merge' = [on |-> TRUE, left |-> listed \cup {"manifest"},
               listed |-> listed, ver |-> saved.ver]
  /\ tempFile' = NoFile

\* onDownloadUnitsFinished with the temporary manifest m; e is the entry
\* the events sent so far have left.
DownloadUnitsFinished(m, e) ==
  IF failed' # {}
    THEN /\ state' = "FAIL_TO_UPDATE" /\ entry' = "NONE"
         /\ tempFile' = m
         /\ UNCHANGED merge
    ELSE /\ state' = "UPDATING" /\ entry' = e
         /\ BeginMerge(m, temp')

\* How many of the queue q go to the downloader when c are there.
HandedAll(now, q, c) == now = q
Handed(now, q, c) ==
  \/ now = q /\ c + Cardinality(now) <= maxTasks
  \/ c + Cardinality(now) = maxTasks

Recorded(a) == failed \cup {a}

NoneWaitedForOrFailed(q) == wait' = 0 /\ failed' = {}
AllDone(q) == wait' = 0

\* queueDowload (sic): c units are with the downloader, q are to go there;
\* _queue is filled from a hash map, its order is arbitrary.  disk is the
\* temporary manifest in the file; the progress is saved over it whenever the
\* share of finished units has passed another tenth.
QueueDownload(q, c, m, disk, e) ==
  IF AllDone(q)
    THEN /\ queue' = q /\ concurrent' = c
         /\ tm' = m
         /\ DownloadUnitsFinished(m, e)
    ELSE \E now \in SUBSET q, save \in BOOLEAN :
           LET next == Marked(m, now, "DOWNLOADING") IN
           /\ Handed(now, q, c)
           /\ save => wait' < Cardinality(units')
           /\ queue' = q \ now
           /\ concurrent' = c + Cardinality(now)
           /\ tm' = next
           /\ tempFile' = IF save THEN next ELSE disk
           /\ state' = "UPDATING" /\ entry' = e
           /\ UNCHANGED merge

\* batchDownload of the units us.
BatchDownload(us, m, disk, e) ==
  /\ units' = us
  /\ wait' = Cardinality(us)
  /\ QueueDownload(us, concurrent, m, disk, e)
  /\ flight' = flight \cup (us \ queue')

\* prepareUpdate from parseManifest with the remote manifest r just read,
\* and startUpdate after it when the entry is DO_UPDATE.
ResumableAny(t, r) == t.loaded /\ t.updating
Resumable(t, r) == t.loaded /\ t.updating /\ t.ver = r.ver

Started(r, us) == [Marked(r, us, "UNSTARTED") EXCEPT !.updating = TRUE]

PrepareUpdate(r) ==
  LET t == IF shared THEN r ELSE tm
      resume == Resumable(t, r)
      us == IF resume THEN Resumed(t) ELSE ToDownload(local, r.ver)
      m == IF resume THEN t ELSE Started(r, us)
  IN
  /\ failed' = {}
  /\ shared' = (shared \/ ~resume)
  /\ temp' = IF resume THEN temp ELSE Empty
  /\ \/ /\ ~resume /\ DiffAt(local, r.ver) = {}
        /\ tm' = r
        /\ BeginMerge(r, Empty)
        /\ units' = {} /\ wait' = 0 /\ state' = "NEED_UPDATE"
        /\ UNCHANGED <<entry, queue, flight, concurrent>>
     \/ /\ resume \/ DiffAt(local, r.ver) # {}
        /\ entry = "CHECK_UPDATE"
        /\ tm' = m /\ tempFile' = m
        /\ units' = us /\ wait' = Cardinality(us)
        /\ state' = "READY_TO_UPDATE" /\ entry' = "NONE"
        /\ UNCHANGED <<queue, flight, concurrent, merge>>
     \/ /\ resume \/ DiffAt(local, r.ver) # {}
        /\ entry = "DO_UPDATE"
        /\ BatchDownload(us, m, m, entry)
  /\ RemoteIs(r)
-----------------------------------------------------------------------------
\* Whether the package's manifest b beats the cached one, and which is used.
NeverNewer(b) == FALSE
Newer(b) == cached # Absent /\ b > cached

PackageOnly(b, c) == b
Chosen(b, c) == IF c = Absent THEN b ELSE c

\* create: the manifest of the package against the one in the storage, then
\* initManifests.  A newer package empties the storage; a temporary manifest
\* that cannot be read empties the temporary directory.
Load(b, disk) ==
  /\ stored' = IF Newer(b) THEN Empty ELSE stored
  /\ cached' = IF Newer(b) THEN Absent ELSE cached
  /\ local' = Chosen(b, cached')
  /\ temp' = IF disk = Garbage THEN Empty ELSE temp
  /\ tempFile' = IF disk = Garbage THEN NoFile ELSE disk
  /\ tm' = IF disk.loaded THEN disk ELSE Blank
  /\ remote' = Blank /\ shared' = FALSE
  /\ state' = "UNCHECKED" /\ entry' = "NONE"
  /\ units' = {} /\ queue' = {} /\ flight' = {} /\ unzipping' = {}
  /\ failed' = {} /\ wait' = 0 /\ concurrent' = 0
  /\ merge' = NoMerge

Init ==
  /\ bundle = 1 /\ server = 1 /\ torn = FALSE /\ again = FALSE
  /\ maxTasks \in 1..MaxConcurrent
  /\ stored = Empty /\ cached = Absent
  /\ temp = Empty /\ tempFile = NoFile
  /\ state = "UNCHECKED" /\ entry = "NONE" /\ local = 1
  /\ remote = Blank /\ tm = Blank /\ shared = FALSE
  /\ units = {} /\ queue = {} /\ flight = {} /\ unzipping = {}
  /\ failed = {} /\ wait = 0 /\ concurrent = 0 /\ merge = NoMerge

\* The process dies and starts again, perhaps from a newer package.  A
\* manifest may have been written to its file and not yet be reported.
Restart ==
  \E b \in Packages \cap (bundle..server), disk \in {tempFile, Garbage, Fresh(server)} :
    /\ disk # tempFile => state = "DOWNLOADING_MANIFEST"
    /\ bundle' = b
    /\ torn' = (torn \/ merge.on)
    /\ Load(b, disk)
    /\ UNCHANGED <<server, again, maxTasks>>

Publish ==
  /\ server + 1 \in Versions
  /\ server' = server + 1
  /\ UNCHANGED <<bundle, torn, again, maxTasks, store, temp, tempFile, state, entry, local,
                 manifests, downloads, merge>>

\* checkUpdate.
CheckUpdate ==
  /\ Running /\ entry = "NONE"
  /\ state = "FAIL_TO_UPDATE" /\ shared => Recheck
  /\ again' = (again \/ (state = "FAIL_TO_UPDATE" /\ shared))
  /\ \/ /\ state \in {"UNCHECKED", "FAIL_TO_UPDATE"}
        /\ state' = "DOWNLOADING_VERSION" /\ entry' = "CHECK_UPDATE"
     \/ /\ state = "UP_TO_DATE"      \* answered at once
        /\ UNCHANGED <<state, entry>>
     \/ /\ state \notin {"UNCHECKED", "FAIL_TO_UPDATE", "UP_TO_DATE"}
        /\ entry' = "CHECK_UPDATE"   \* and nothing else
        /\ UNCHANGED state
  /\ UNCHANGED <<bundle, server, torn, maxTasks, store, temp, tempFile, local,
                 manifests, downloads, merge>>

\* update.
UpdateFirst ==
  /\ Running /\ entry = "NONE"
  /\ \/ /\ state = "UNCHECKED"
        /\ state' = "DOWNLOADING_VERSION"
     \/ /\ state \in {"FAIL_TO_UPDATE", "READY_TO_UPDATE"} /\ ~remote.loaded
        /\ state' = "DOWNLOADING_MANIFEST"
     \/ /\ state = "FAIL_TO_UPDATE" /\ remote.loaded
        /\ UNCHANGED state           \* startUpdate returns
  /\ entry' = "DO_UPDATE"
  /\ UNCHANGED <<world, store, temp, tempFile, local, manifests, downloads, merge>>

UpdateReady ==
  /\ Running /\ entry = "NONE"
  /\ state = "READY_TO_UPDATE" /\ remote.loaded
  /\ UNCHANGED <<world, store, temp, local, shared, unzipping, failed>>
  /\ BatchDownload(units, tm, tempFile, "DO_UPDATE")
  /\ RemoteIs(remote)

\* downloadFailedAssets, called with failed units after UPDATE_FAILED.
DownloadFailedAssets ==
  /\ Running
  /\ state = "FAIL_TO_UPDATE" /\ failed # {} /\ remote.loaded
  /\ UNCHANGED <<world, store, temp, local, shared, unzipping, failed>>
  /\ BatchDownload(failed, tm, tempFile, entry)
  /\ RemoteIs(remote)
-----------------------------------------------------------------------------
\* onError and onSuccess of the version file; without one the step is skipped.
VersionDone ==
  LET v == server IN
  /\ state = "DOWNLOADING_VERSION"
  /\ UNCHANGED <<world, store, local, shared, downloads, merge>>
  /\ \/ /\ ReadRemote(ParseVersion(remote, v))
        /\ local >= v
        /\ UpToDate
     \/ /\ ReadRemote(ParseVersion(remote, v))
        /\ local < v
        /\ state' = "DOWNLOADING_MANIFEST"
        /\ UNCHANGED <<entry, temp, tempFile>>
     \/ /\ \/ UNCHANGED <<remote, tm>>                       \* no file
           \/ /\ ReadRemote(ParseFails(remote))                \* no manifest
        /\ state' = "DOWNLOADING_MANIFEST"
        /\ UNCHANGED <<entry, temp, tempFile>>

ManifestFails ==
  /\ state = "DOWNLOADING_MANIFEST"
  /\ entry' = "NONE"
  /\ \/ /\ state' = "FAIL_TO_UPDATE"
        /\ UNCHANGED <<remote, tm, tempFile>>
     \/ /\ state' = "UNCHECKED" /\ tempFile' = Garbage
        /\ ReadRemote(ParseFails(remote))
  /\ UNCHANGED <<world, store, temp, local, shared, downloads, merge>>

\* parseManifest of a manifest that was downloaded to tempFile.
ManifestDone ==
  LET r == ParseFile(remote, server) IN
  /\ state = "DOWNLOADING_MANIFEST"
  /\ \/ /\ local >= server
        /\ ReadRemote(r)
        /\ UpToDate
        /\ UNCHANGED <<shared, downloads, merge>>
     \/ /\ local < server
        /\ PrepareUpdate(r)
        /\ UNCHANGED unzipping
  /\ UNCHANGED <<world, store, local>>

\* fileError: the download, the verification or the decompression failed.
\* from is what is left of flight and unzipping.
FileError(a, file) ==
  /\ temp' = [temp EXCEPT ![a] = file]
  /\ wait' = wait - 1
  /\ failed' = Recorded(a)
  /\ UNCHANGED <<world, store, local, shared, units>>
  /\ QueueDownload(queue, concurrent - 1, Marked(tm, {a}, "UNSTARTED"),
                   tempFile, "NONE")
  /\ RemoteIs(remote)

\* fileSuccess.
FileSuccess(a) ==
  /\ temp' = [temp EXCEPT ![a] = Content[remote.ver][a]]
  /\ wait' = wait - 1
  /\ failed' = failed \ {a}
  /\ UNCHANGED <<world, store, local, shared, units>>
  /\ QueueDownload(queue, concurrent - 1, Marked(tm, {a}, "SUCCESSED"),
                   tempFile, entry)
  /\ RemoteIs(remote)

UnitError(a) ==
  /\ a \in flight
  /\ \E file \in {temp[a], Corrupt} : FileError(a, file)
  /\ flight' = (flight \ {a}) \cup (queue \ queue')
  /\ UNCHANGED unzipping

UnitSuccess(a) ==
  /\ a \in flight
  /\ IF a \in Compressed
       THEN /\ unzipping' = unzipping \cup {a}
            /\ flight' = flight \ {a}
            /\ UNCHANGED <<world, store, temp, tempFile, state, entry, local,
                 manifests, units, queue, failed, wait, concurrent, merge>>
       ELSE /\ FileSuccess(a)
            /\ flight' = (flight \ {a}) \cup (queue \ queue')
            /\ UNCHANGED unzipping

\* decompressFinished: the archive is gone either way.
Unzipped(a) ==
  /\ a \in unzipping
  /\ \/ FileSuccess(a)
     \/ FileError(a, Absent)
  /\ unzipping' = unzipping \ {a}
  /\ flight' = flight \cup (queue \ queue')
-----------------------------------------------------------------------------
\* updateSucceed: one file of the temporary directory replaces the stored one.
MergeFile(f) ==
  /\ f \in merge.left
  /\ merge' = [merge EXCEPT !.left = @ \ {f}]
  /\ IF f = "manifest"
       THEN cached' = merge.ver /\ UNCHANGED <<stored, temp>>
       ELSE /\ stored' = [stored EXCEPT ![f] = temp[f]]
            /\ temp' = [temp EXCEPT ![f] = Absent]
            /\ UNCHANGED cached
  /\ UNCHANGED <<world, tempFile, state, entry, local, manifests, downloads>>

\* .. and the rest of it, once all are merged.
UpdateSucceed ==
  LET drop == ToDelete(local, remote.ver) \ merge.listed IN
  /\ merge.on /\ merge.left = {}
  /\ stored' = [a \in Assets |-> IF a \in drop THEN Absent ELSE stored[a]]
  /\ local' = remote.ver
  /\ remote' = Blank /\ tm' = Blank /\ shared' = FALSE
  /\ UpToDate
  /\ merge' = NoMerge
  /\ UNCHANGED <<world, cached, downloads>>

Next ==
  \/ Restart \/ Publish
  \/ CheckUpdate \/ UpdateFirst \/ UpdateReady \/ DownloadFailedAssets
  \/ VersionDone \/ ManifestFails \/ ManifestDone
  \/ \E a \in Assets : UnitError(a) \/ UnitSuccess(a) \/ Unzipped(a)
  \/ \E f \in Assets \cup {"manifest"} : MergeFile(f)
  \/ UpdateSucceed

Spec == Init /\ [][Next]_vars

\* Every download and decompression is reported at last, and a merge that is
\* not interrupted runs to its end.
Completions ==
  \/ VersionDone \/ ManifestFails \/ ManifestDone
  \/ \E a \in Assets : UnitError(a) \/ UnitSuccess(a) \/ Unzipped(a)
  \/ \E f \in Assets \cup {"manifest"} : MergeFile(f)
  \/ UpdateSucceed
FairSpec == Spec /\ WF_vars(Completions)
-----------------------------------------------------------------------------
States == {"UNCHECKED", "DOWNLOADING_VERSION", "DOWNLOADING_MANIFEST",
           "NEED_UPDATE", "READY_TO_UPDATE", "UPDATING", "UP_TO_DATE",
           "FAIL_TO_UPDATE"}

\* Type invariant of all the variables.
TypeOK ==
  /\ bundle \in Versions /\ server \in Versions
  /\ torn \in BOOLEAN /\ again \in BOOLEAN
  /\ maxTasks \in 1..MaxConcurrent
  /\ stored \in [Assets -> Int] /\ temp \in [Assets -> Int]
  /\ cached \in {Absent} \cup Versions /\ local \in Versions
  /\ tempFile \in Manifest /\ remote \in Manifest /\ tm \in Manifest
  /\ shared \in BOOLEAN
  /\ state \in States /\ entry \in {"NONE", "CHECK_UPDATE", "DO_UPDATE"}
  /\ units \subseteq Assets /\ queue \subseteq Assets
  /\ flight \subseteq Assets /\ unzipping \subseteq Assets
  /\ failed \subseteq Assets
  /\ wait \in Int /\ concurrent \in Int
  /\ merge \in [on : BOOLEAN, left : SUBSET (Assets \cup {"manifest"}),
                listed : SUBSET Assets, ver : {Absent} \cup Versions]

\* No package of the app lacks at a what a version before it and one after it
\* share.  An update downloads what differs from the version it began at, and a
\* package that replaces the app later is not compared again.
Steady(a) ==
  \A u, w \in Versions, p \in Packages :
    u <= p /\ p <= w /\ Content[w][a] # Absent /\ Content[u][a] = Content[w][a] =>
      Content[p][a] = Content[w][a]

\* "Every thing is correctly downloaded" (updateSucceed): outside a merge, and
\* unless the process died inside one, the game finds each steady asset of the
\* version it runs with exactly the content that version gives it.
CorrectlyDownloaded ==
  Running /\ ~torn =>
    \A a \in Assets : Steady(a) /\ Content[local][a] # Absent => InPlace(a) = Content[local][a]

\* That is so as long as no process has checked anew after its update failed.
InstalledComplete == ~again => CorrectlyDownloaded

\* An update ends when its last unit does: the count of units waited for is
\* that of the units queued, downloading or being unpacked, whatever failed
\* and was tried again, and no more are under way than allowed.  The callback
\* of a unit reads _remoteManifest, which the end of the update sets to null:
\* no unit is out by then.
CountsUnits ==
  /\ TypeOK
  /\ Running /\ state = "UPDATING" =>
       /\ wait = Cardinality(queue) + Cardinality(flight) + Cardinality(unzipping)
       /\ concurrent = Cardinality(flight) + Cardinality(unzipping)
       /\ concurrent \in 1..maxTasks
       /\ queue \cap (flight \cup unzipping) = {} /\ flight \cap unzipping = {}
       /\ \A a \in units \ (queue \cup flight \cup unzipping) :
            a \in failed <=> tm.mark[a] # "SUCCESSED"
  /\ merge.on \/ state = "UP_TO_DATE" => queue \cup flight \cup unzipping = {}

\* What a later process will not download again is there: an asset that the
\* temporary manifest on disk calls SUCCESSED is whole in the temporary
\* directory.  prepareUpdate never releases the manifest it goes on with: when
\* both pointers are one object, its updating flag makes it resume.  Again as
\* long as no process has checked anew after its update failed.
ResumeIsSafe ==
  ~again =>
    /\ \A a \in Assets : tempFile.loaded /\ tempFile.mark[a] = "SUCCESSED" =>
         temp[a] = Content[tempFile.ver][a]
    /\ shared /\ Running => tm = remote /\ tm.updating

\* The game never runs an older version than it has run before, neither after
\* an update nor after a restart at any point of one, from any package.
NoDowngrade == [][local' >= local]_vars

\* A call that was accepted comes to an end that allows the next, whatever
\* fails.  Two calls do nothing and refuse all later ones until a restart: a
\* second check when the update is ready, an update after one that failed.
DoesNothing ==
  \/ state = "READY_TO_UPDATE" /\ entry = "CHECK_UPDATE"
  \/ state = "FAIL_TO_UPDATE" /\ entry = "DO_UPDATE"
Answered == entry # "NONE" /\ ~DoesNothing ~> entry = "NONE"
=============================================================================
