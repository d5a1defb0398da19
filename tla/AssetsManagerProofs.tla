------------------------ MODULE AssetsManagerProofs ------------------------
(***************************************************************************)
(* Proofs about AssetsManager, for any assets, any number of versions, any    *)
(* packages and any limit on the tasks.  IInv says where the units are and   *)
(* which version is where; FInv says what the manifests, in memory and in    *)
(* files, have to do with the files of the two directories.                 *)
(***************************************************************************)
EXTENDS AssetsManager, TLAPS, FiniteSetTheorems, SequenceTheorems

\* Units the manager waits for.
Under == queue \cup flight \cup unzipping
Updating == Running /\ state = "UPDATING"

\* The counters and the three places of a unit.
Counting ==
  /\ wait = Cardinality(queue) + Cardinality(flight) + Cardinality(unzipping)
  /\ concurrent = Cardinality(flight) + Cardinality(unzipping)
  /\ concurrent \in 1..maxTasks
  /\ queue \cap (flight \cup unzipping) = {} /\ flight \cap unzipping = {}
  /\ \A a \in units \ Under : a \in failed <=> tm.mark[a] # "SUCCESSED"
Counts ==
  /\ Updating => Counting
  /\ ~Updating => queue = {} /\ flight = {} /\ unzipping = {} /\ concurrent = 0
  /\ merge.on => state \in {"UPDATING", "NEED_UPDATE"}

\* Which version is where: the process runs what is cached, or what its
\* package holds, and what it works on is newer.
Versioning ==
  /\ bundle <= local
  /\ cached = Absent => local = bundle
  /\ IF merge.on /\ "manifest" \notin merge.left
       THEN cached = merge.ver
       ELSE cached # Absent => cached = local
  /\ merge.left # {} => merge.on
  /\ merge.on => remote.ver = merge.ver /\ local < merge.ver
  /\ remote.loaded /\ state # "UP_TO_DATE" => tm.ver = remote.ver /\ local < remote.ver
  /\ state = "READY_TO_UPDATE" \/ Updating => remote.loaded
  /\ shared /\ Running => tm = remote

IInv == TypeOK /\ Counts /\ Versioning

Marking(m, mark) == {a \in Assets : m.mark[a] = mark}

\* What a manifest says about the files of a temporary directory is so, and one
\* that can be resumed has a mark for all that an update of version v needs:
\* also when it was begun at an older one, if the asset is steady.
Truthful(m, files, v) ==
  m.loaded =>
    /\ \A a \in Marking(m, "SUCCESSED") : files[a] = Content[m.ver][a]
    /\ ~m.updating => Marking(m, "SUCCESSED") = {}
    /\ m.updating => \A a \in Marking(m, "UNMARKED") :
         /\ files[a] = Absent
         /\ Steady(a) /\ v < m.ver => a \notin ToDownload(v, m.ver)

Manifests ==
  /\ Truthful(tempFile, temp, local)
  /\ Running /\ state # "UP_TO_DATE" => Truthful(tm, temp, local)
  /\ shared /\ Running =>
       /\ state \in {"READY_TO_UPDATE", "UPDATING", "FAIL_TO_UPDATE"}
       /\ remote.loaded
  /\ Running /\ state # "UP_TO_DATE" /\ remote.loaded => tm.loaded /\ tm.updating
  /\ ~shared => ~remote.updating
  /\ state = "UNCHECKED" => ~remote.loaded

\* The file of the temporary manifest may be behind the one in memory.
Behind(m, n) ==
  /\ m.loaded /\ m.updating /\ m.ver = n.ver
  /\ Marking(m, "UNMARKED") = Marking(n, "UNMARKED")
  /\ Marking(m, "SUCCESSED") \subseteq Marking(n, "SUCCESSED")

Unfinished ==
  /\ Running /\ state = "READY_TO_UPDATE" =>
       tempFile = tm /\ Resumed(tm) = units /\ failed = {}
  /\ Updating => Behind(tempFile, tm) /\ Resumed(tm) = Under \cup failed
  /\ Running /\ remote.loaded
       /\ state \in {"FAIL_TO_UPDATE", "DOWNLOADING_VERSION", "DOWNLOADING_MANIFEST"} =>
       tempFile = tm /\ Resumed(tm) = failed

\* What the merge has done and has still to do.
Merging ==
  merge.on =>
    /\ tempFile = NoFile /\ merge.left \subseteq merge.listed \cup {"manifest"}
    /\ \A a \in ToDownload(local, merge.ver) : Steady(a) => a \in merge.listed
    /\ \A a \in merge.listed :
         /\ Content[merge.ver][a] # Absent
         /\ Content[merge.ver][a] =
              IF a \in merge.left THEN temp[a] ELSE stored[a]

Installed ==
  ~torn =>
    /\ \A a \in Assets : Steady(a) /\ Content[local][a] # Absent /\ (merge.on => a \notin merge.listed) =>
         InPlace(a) = Content[local][a]
    /\ ~merge.on /\ cached = Absent => stored = Empty

FInv == Manifests /\ Unfinished /\ Merging /\ Installed
-----------------------------------------------------------------------------
\* The versions are numbers, and hold numbers.
LEMMA VersionNumbers ==
  /\ Versions \subseteq Nat \ {0} /\ Absent \notin Versions /\ 1 \in Versions
  /\ Absent = 0
  /\ \A v \in Versions : Content[v] \in [Assets -> Nat]
<1>1. Content \in Seq([Assets -> Nat]) /\ Content # <<>>
  BY AssetsAssumption
<1>2. Versions = 1..Len(Content) /\ Len(Content) \in Nat \ {0}
  BY <1>1, LenProperties, EmptySeq DEF Versions
<1>3. \A v \in Versions : Content[v] \in [Assets -> Nat]
  BY <1>1, <1>2, ElementOfSeq
<1> QED
  BY <1>2, <1>3 DEF Absent

\* Sets of assets are finite; what union and removal do to their size.
LEMMA Sizes ==
  ASSUME NEW S \in SUBSET Assets
  PROVE  /\ IsFiniteSet(S) /\ Cardinality(S) \in Nat
         /\ Cardinality(S) = 0 <=> S = {}
<1>1. IsFiniteSet(S)
  BY AssetsAssumption, FS_Subset
<1> QED
  BY <1>1, FS_CardinalityType, FS_EmptySet

LEMMA SizeWithout ==
  ASSUME NEW S \in SUBSET Assets, NEW T \in SUBSET S
  PROVE  Cardinality(S \ T) = Cardinality(S) - Cardinality(T)
<1>1. IsFiniteSet(S) /\ Cardinality(S) \in Nat /\ Cardinality(T) \in Nat
  BY Sizes
<1>2. Cardinality(S \ T) = Cardinality(S) - Cardinality(S \cap T)
  BY <1>1, FS_Difference
<1>3. S \cap T = T
  OBVIOUS
<1> QED
  BY <1>2, <1>3

LEMMA SizeOfBoth ==
  ASSUME NEW S \in SUBSET Assets, NEW T \in SUBSET Assets, S \cap T = {}
  PROVE  Cardinality(S \cup T) = Cardinality(S) + Cardinality(T)
<1>1. IsFiniteSet(S) /\ IsFiniteSet(T) /\ Cardinality(S) \in Nat /\ Cardinality(T) \in Nat
  BY Sizes
<1>2. Cardinality(S \cup T) = Cardinality(S) + Cardinality(T) - Cardinality(S \cap T)
  BY <1>1, FS_Union
<1>3. Cardinality(S \cap T) = 0
  BY FS_EmptySet
<1> QED
  BY <1>1, <1>2, <1>3

LEMMA SizeWithoutOne ==
  ASSUME NEW S \in SUBSET Assets, NEW a \in S
  PROVE  Cardinality(S \ {a}) = Cardinality(S) - 1
<1>1. IsFiniteSet(S)
  BY Sizes
<1> QED
  BY <1>1, FS_RemoveElement

\* The manifests the model makes.
LEMMA BlankManifests ==
  /\ Blank \in Manifest /\ Blank.ver = Absent /\ Blank.loaded = FALSE
  /\ Blank.updating = FALSE /\ \A a \in Assets : Blank.mark[a] = "UNMARKED"
  /\ NoFile \in Manifest /\ NoFile.loaded = FALSE /\ NoFile.ver = Absent
  /\ Garbage = Blank
BY DEF Manifest, Blank, NoFile, Garbage, Mark

LEMMA ParsedVersions ==
  ASSUME NEW m \in Manifest, NEW v \in Versions
  PROVE  /\ ParseVersion(m, v) \in Manifest /\ ParseVersion(m, v).ver = v
         /\ ParseVersion(m, v).loaded = FALSE
         /\ ParseVersion(m, v).updating = m.updating
BY DEF Manifest, Blank, Mark, ParseVersion

LEMMA ParsedManifests ==
  ASSUME NEW m \in Manifest, NEW v \in Versions
  PROVE  /\ ParseFile(m, v) \in Manifest /\ ParseFile(m, v).ver = v
         /\ ParseFile(m, v).loaded = TRUE
         /\ ParseFile(m, v).updating = m.updating
         /\ \A a \in Assets : ParseFile(m, v).mark[a] = "UNMARKED"
BY DEF Manifest, Blank, Mark, ParseVersion, ParseFile

LEMMA FailedManifests ==
  ASSUME NEW m \in Manifest
  PROVE  /\ ParseFails(m) \in Manifest /\ ParseFails(m).ver = Absent
         /\ ParseFails(m).loaded = FALSE /\ ParseFails(m).updating = m.updating
BY DEF Manifest, Blank, Mark, ParseVersion, ParseFails

LEMMA FreshManifests ==
  ASSUME NEW v \in Versions
  PROVE  /\ Fresh(v) \in Manifest /\ Fresh(v).ver = v /\ Fresh(v).loaded = TRUE
         /\ Fresh(v).updating = FALSE
         /\ \A a \in Assets : Fresh(v).mark[a] = "UNMARKED"
BY VersionNumbers DEF Manifest, Blank, Mark, ParseVersion, ParseFile, Fresh

LEMMA MarkedManifests ==
  ASSUME NEW m \in Manifest, NEW S, NEW k \in Mark
  PROVE  /\ Marked(m, S, k) \in Manifest /\ Marked(m, S, k).ver = m.ver
         /\ Marked(m, S, k).loaded = m.loaded
         /\ Marked(m, S, k).updating = m.updating
         /\ \A a \in Assets : Marked(m, S, k).mark[a] = IF a \in S THEN k ELSE m.mark[a]
BY DEF Manifest, Mark, Marked

LEMMA StartedManifests ==
  ASSUME NEW m \in Manifest, NEW S
  PROVE  /\ Started(m, S) \in Manifest /\ Started(m, S).ver = m.ver
         /\ Started(m, S).loaded = m.loaded /\ Started(m, S).updating = TRUE
         /\ \A a \in Assets :
              Started(m, S).mark[a] = IF a \in S THEN "UNSTARTED" ELSE m.mark[a]
<1> DEFINE n == Marked(m, S, "UNSTARTED")
<1>1. /\ n \in Manifest /\ n.ver = m.ver /\ n.loaded = m.loaded
      /\ \A a \in Assets : n.mark[a] = IF a \in S THEN "UNSTARTED" ELSE m.mark[a]
  BY MarkedManifests DEF Mark
<1>2. Started(m, S) = [n EXCEPT !.updating = TRUE]
  BY DEF Started
<1> HIDE DEF n
<1> QED
  BY <1>1, <1>2 DEF Manifest
-----------------------------------------------------------------------------
\* The two ways through QueueDownload: the last unit is done, or some more of
\* the queue are handed to the downloader.
Finishing(m, e) ==
  /\ queue' = {} /\ concurrent' = 0 /\ tm' = m
  /\ \/ /\ failed' # {}
        /\ state' = "FAIL_TO_UPDATE" /\ entry' = "NONE" /\ tempFile' = m
        /\ merge' = merge
     \/ /\ failed' = {}
        /\ state' = "UPDATING" /\ entry' = e
        /\ BeginMerge(m, temp')

Handing(now, q, c, m, disk, e) ==
  /\ now \in SUBSET q /\ queue' = q \ now
  /\ concurrent' = c + Cardinality(now) /\ concurrent' \in 1..maxTasks
  /\ tm' = Marked(m, now, "DOWNLOADING")
  /\ tempFile' \in {disk, tm'}
  /\ state' = "UPDATING" /\ entry' = e /\ merge' = merge

Queued(q, c, m, disk, e) ==
  \/ q = {} /\ c = 0 /\ Finishing(m, e)
  \/ \E now \in SUBSET q : Handing(now, q, c, m, disk, e)

LEMMA QueueSteps ==
  ASSUME NEW q \in SUBSET Assets, NEW c \in Nat, NEW m, NEW disk, NEW e,
         maxTasks \in 1..MaxConcurrent, wait' = Cardinality(q) + c,
         QueueDownload(q, c, m, disk, e)
  PROVE  Queued(q, c, m, disk, e)
<1>0. Cardinality(q) \in Nat /\ (Cardinality(q) = 0 <=> q = {})
  BY Sizes
<1>1. CASE wait' = 0
  <2>1. q = {} /\ c = 0
    BY <1>0, <1>1
  <2>2. Finishing(m, e)
    BY <1>1, <2>1 DEF QueueDownload, AllDone, DownloadUnitsFinished, Finishing
  <2> QED
    BY <2>1, <2>2 DEF Queued
<1>2. CASE wait' # 0
  <2>1. PICK now \in SUBSET q :
          /\ Handed(now, q, c)
          /\ queue' = q \ now /\ concurrent' = c + Cardinality(now)
          /\ tm' = Marked(m, now, "DOWNLOADING")
          /\ tempFile' \in {disk, Marked(m, now, "DOWNLOADING")}
          /\ state' = "UPDATING" /\ entry' = e /\ merge' = merge
    BY <1>2, Zenon DEF QueueDownload, AllDone
  <2>2. Cardinality(now) \in Nat
    BY Sizes
  <2>3. concurrent' \in 1..maxTasks
    <3>1. CASE now = q /\ c + Cardinality(now) <= maxTasks
      <4>1. c + Cardinality(now) # 0
        BY <1>0, <1>2, <3>1
      <4> QED
        BY <2>1, <2>2, <3>1, <4>1
    <3>2. CASE c + Cardinality(now) = maxTasks
      BY <2>1, <3>2, AssetsAssumption
    <3> QED
      BY <2>1, <3>1, <3>2 DEF Handed
  <2> QED
    BY <2>1, <2>3 DEF Handing, Queued
<1> QED
  BY <1>1, <1>2
-----------------------------------------------------------------------------
LEMMA InitStep == Init => IInv
<1> SUFFICES ASSUME Init PROVE IInv
  OBVIOUS
<1> USE DEF Init
<1>1. TypeOK
  <2>1. Blank \in Manifest /\ NoFile \in Manifest
    BY BlankManifests
  <2>2. Empty \in [Assets -> Int] /\ 1 \in Versions
    BY VersionNumbers DEF Empty, Absent
  <2>3. NoMerge \in [on : BOOLEAN, left : SUBSET (Assets \cup {"manifest"}),
                     listed : SUBSET Assets, ver : {Absent} \cup Versions]
    BY DEF NoMerge
  <2>4. maxTasks \in 1..MaxConcurrent /\ wait \in Int /\ concurrent \in Int
    OBVIOUS
  <2>5. /\ state \in States /\ entry \in {"NONE", "CHECK_UPDATE", "DO_UPDATE"}
        /\ torn \in BOOLEAN /\ again \in BOOLEAN /\ shared \in BOOLEAN
        /\ cached \in {Absent} \cup Versions
    BY DEF States
  <2> QED
    BY <2>1, <2>2, <2>3, <2>4, <2>5, Zenon DEF TypeOK
<1>2. Counts
  BY DEF Counts, Updating, NoMerge
<1>3. Versioning
  BY BlankManifests DEF Versioning, Updating, NoMerge
<1> QED
  BY <1>1, <1>2, <1>3 DEF IInv

\* What BeginMerge leaves has its type.
LEMMA BegunMerge ==
  ASSUME NEW m \in Manifest, NEW files, BeginMerge(m, files)
  PROVE  /\ merge'.on = TRUE /\ merge'.ver = m.ver /\ "manifest" \in merge'.left
         /\ merge'.listed = {a \in Assets : files[a] # Absent}
         /\ merge'.left = merge'.listed \cup {"manifest"}
         /\ merge' \in [on : BOOLEAN, left : SUBSET (Assets \cup {"manifest"}),
                        listed : SUBSET Assets, ver : {Absent} \cup Versions]
         /\ tempFile' = NoFile /\ tempFile' \in Manifest
<1>1. m.ver \in {Absent} \cup Versions
  BY DEF Manifest
<1> QED
  BY <1>1, BlankManifests DEF BeginMerge

\* The temporary manifest may be marked by QueueDownload, no more.
LEMMA QueuedManifest ==
  ASSUME NEW q, NEW c, NEW m \in Manifest, NEW disk, NEW e, Queued(q, c, m, disk, e)
  PROVE  tm' \in Manifest /\ tm'.ver = m.ver /\ tm'.loaded = m.loaded
<1>1. CASE tm' = m
  BY <1>1
<1>2. ASSUME NEW now, tm' = Marked(m, now, "DOWNLOADING")
      PROVE  tm' \in Manifest /\ tm'.ver = m.ver /\ tm'.loaded = m.loaded
  BY <1>2, MarkedManifests DEF Mark
<1> QED
  BY <1>1, <1>2 DEF Queued, Finishing, Handing

\* What the two ways through QueueDownload keep, whatever it was called for.
LEMMA QueuedTypes ==
  ASSUME NEW q \in SUBSET Assets, NEW c, NEW m \in Manifest, NEW disk \in Manifest,
         NEW e \in {"NONE", "CHECK_UPDATE", "DO_UPDATE"},
         IInv, ~merge.on, Queued(q, c, m, disk, e)
  PROVE  /\ concurrent' \in Int
         /\ tm' \in Manifest /\ tempFile' \in Manifest /\ tm'.ver = m.ver
         /\ tm'.loaded = m.loaded
         /\ state' \in {"FAIL_TO_UPDATE", "UPDATING"}
         /\ entry' \in {"NONE", "CHECK_UPDATE", "DO_UPDATE"}
         /\ merge' \in [on : BOOLEAN, left : SUBSET (Assets \cup {"manifest"}),
                        listed : SUBSET Assets, ver : {Absent} \cup Versions]
         /\ merge'.on => merge'.ver = m.ver /\ "manifest" \in merge'.left
         /\ merge'.left # {} => merge'.on
<1>1. merge.left # {} => merge.on
  BY DEF IInv, Versioning
<1>2. merge \in [on : BOOLEAN, left : SUBSET (Assets \cup {"manifest"}),
                 listed : SUBSET Assets, ver : {Absent} \cup Versions]
  BY DEF IInv, TypeOK
<1>3. CASE Finishing(m, e)
  <2>1. CASE BeginMerge(m, temp') /\ state' = "UPDATING" /\ entry' = e
    <3>1. /\ merge'.ver = m.ver /\ "manifest" \in merge'.left /\ merge'.on = TRUE
          /\ merge' \in [on : BOOLEAN, left : SUBSET (Assets \cup {"manifest"}),
                         listed : SUBSET Assets, ver : {Absent} \cup Versions]
          /\ tempFile' \in Manifest
      BY <2>1, BegunMerge
    <3> QED
      BY <1>3, <2>1, <3>1 DEF Finishing
  <2>2. CASE state' = "FAIL_TO_UPDATE" /\ entry' = "NONE" /\ tempFile' = m /\ merge' = merge
    BY <1>2, <1>3, <1>1, <2>2 DEF Finishing
  <2> QED
    BY <1>3, <2>1, <2>2 DEF Finishing
<1>4. CASE \E now \in SUBSET q : Handing(now, q, c, m, disk, e)
  <2>1. PICK now \in SUBSET q : Handing(now, q, c, m, disk, e)
    BY <1>4
  <2>2. tm' \in Manifest /\ tm'.ver = m.ver /\ tm'.loaded = m.loaded
    BY <2>1, MarkedManifests DEF Handing, Mark
  <2> QED
    BY <1>2, <1>1, <2>1, <2>2 DEF Handing, IInv, TypeOK
<1> QED
  BY <1>3, <1>4 DEF Queued
-----------------------------------------------------------------------------
\* A unit that was out is done, well or badly: m is the temporary manifest
\* with its mark, and more of the queue may be handed out.
EndsUnit(a, m, e) ==
  /\ a \in flight \cup unzipping
  /\ m \in Manifest /\ m.ver = tm.ver /\ m.loaded = tm.loaded
  /\ \A b \in Assets \ {a} : m.mark[b] = tm.mark[b]
  /\ e \in {"NONE", "CHECK_UPDATE", "DO_UPDATE"}
  /\ UNCHANGED <<world, store, local, shared, units>>
  /\ temp' \in [Assets -> Int]
  /\ wait' = wait - 1
  /\ failed' \in {failed \cup {a}, failed \ {a}}
  /\ a \in failed' <=> m.mark[a] # "SUCCESSED"
  /\ QueueDownload(queue, concurrent - 1, m, tempFile, e)
  /\ RemoteIs(remote)
  /\ unzipping' = unzipping \ {a}
  /\ flight' = (flight \ {a}) \cup (queue \ queue')

LEMMA UnitOut ==
  ASSUME IInv, NEW a \in flight \cup unzipping
  PROVE  Updating /\ Counting /\ ~merge.on /\ state = "UPDATING" /\ a \in Assets
BY Zenon DEF IInv, TypeOK, Counts, Updating, Running

LEMMA RestOut ==
  ASSUME IInv, NEW a \in flight \cup unzipping
  PROVE  /\ concurrent - 1 \in Nat
         /\ wait - 1 = Cardinality(queue) + (concurrent - 1)
         /\ concurrent - 1 = Cardinality(flight \ {a}) + Cardinality(unzipping \ {a})
<1>1. Counting
  BY UnitOut
<1>2. flight \in SUBSET Assets /\ unzipping \in SUBSET Assets
  BY DEF IInv, TypeOK
<1>3. /\ Cardinality(flight) \in Nat /\ Cardinality(unzipping) \in Nat
      /\ Cardinality(queue) \in Nat
  BY <1>2, Sizes DEF IInv, TypeOK
<1>4. concurrent = Cardinality(flight) + Cardinality(unzipping)
  BY <1>1 DEF Counting
<1>5. concurrent - 1 = Cardinality(flight \ {a}) + Cardinality(unzipping \ {a})
  <2>1. CASE a \in flight
    <3>1. unzipping \ {a} = unzipping
      BY <1>1, <2>1 DEF Counting
    <3>2. Cardinality(flight \ {a}) = Cardinality(flight) - 1
      BY <1>2, <2>1, SizeWithoutOne
    <3>3. /\ Cardinality(flight \ {a}) = Cardinality(flight) - 1
            /\ Cardinality(unzipping \ {a}) = Cardinality(unzipping)
      BY <3>1, <3>2
    <3> QED
      BY <1>3, <1>4, <3>3, SMTT(20)
  <2>2. CASE a \in unzipping
    <3>1. flight \ {a} = flight
      BY <1>1, <2>2 DEF Counting
    <3>2. Cardinality(unzipping \ {a}) = Cardinality(unzipping) - 1
      BY <1>2, <2>2, SizeWithoutOne
    <3>3. /\ Cardinality(unzipping \ {a}) = Cardinality(unzipping) - 1
            /\ Cardinality(flight \ {a}) = Cardinality(flight)
      BY <3>1, <3>2
    <3> QED
      BY <1>3, <1>4, <3>3, SMTT(20)
  <2> QED
    BY <2>1, <2>2
<1>6. concurrent - 1 \in Nat /\ wait - 1 = Cardinality(queue) + (concurrent - 1)
  BY <1>1, <1>3 DEF Counting, IInv, TypeOK
<1> QED
  BY <1>5, <1>6

LEMMA UnitEndCounts ==
  ASSUME IInv, NEW a, NEW m, NEW e, EndsUnit(a, m, e)
  PROVE  Counts'
<1>1. /\ Updating /\ Counting /\ ~merge.on /\ state = "UPDATING" /\ a \in Assets
      /\ a \in flight \cup unzipping
  BY UnitOut DEF EndsUnit
<1>2. /\ concurrent - 1 \in Nat
      /\ wait' = Cardinality(queue) + (concurrent - 1)
      /\ concurrent - 1 = Cardinality(flight \ {a}) + Cardinality(unzipping \ {a})
  BY RestOut DEF EndsUnit
<1>3. /\ queue \in SUBSET Assets /\ flight \in SUBSET Assets /\ unzipping \in SUBSET Assets
      /\ maxTasks \in 1..MaxConcurrent /\ maxTasks' = maxTasks
  BY DEF IInv, TypeOK, EndsUnit, world
<1>4. Queued(queue, concurrent - 1, m, tempFile, e)
  <2>1. QueueDownload(queue, concurrent - 1, m, tempFile, e)
    BY DEF EndsUnit
  <2> QED
    BY <1>2, <1>3, <2>1, QueueSteps
<1>5. unzipping' = unzipping \ {a} /\ flight' = (flight \ {a}) \cup (queue \ queue')
  BY DEF EndsUnit
<1>6. /\ Cardinality(flight \ {a}) \in Nat /\ Cardinality(unzipping \ {a}) \in Nat
      /\ Cardinality(flight \ {a}) = 0 => flight \ {a} = {}
      /\ Cardinality(unzipping \ {a}) = 0 => unzipping \ {a} = {}
  BY <1>3, Sizes
<1>7. CASE queue = {} /\ concurrent - 1 = 0 /\ Finishing(m, e)
  <2>1. flight \ {a} = {} /\ unzipping \ {a} = {}
    BY <1>2, <1>6, <1>7
  <2>2. queue' = {} /\ flight' = {} /\ unzipping' = {} /\ concurrent' = 0
    BY <1>5, <1>7, <2>1 DEF Finishing
  <2>3. ~Updating' /\ (merge'.on => state' \in {"UPDATING", "NEED_UPDATE"})
    BY <1>1, <1>7 DEF Finishing, Updating, Running, BeginMerge
  <2> QED
    BY <2>2, <2>3 DEF Counts
<1>8. CASE \E now \in SUBSET queue : Handing(now, queue, concurrent - 1, m, tempFile, e)
  <2>1. PICK now \in SUBSET queue : Handing(now, queue, concurrent - 1, m, tempFile, e)
    BY <1>8
  <2>2. Updating' /\ ~merge'.on /\ state' = "UPDATING"
    BY <1>1, <2>1 DEF Handing, Updating, Running
  <2>3. queue' = queue \ now /\ flight' = (flight \ {a}) \cup now
    BY <1>5, <2>1 DEF Handing
  <2>4. now \cap (flight \cup unzipping) = {} /\ flight \cap unzipping = {}
        /\ queue \cap (flight \cup unzipping) = {}
    BY <1>1 DEF Counting
  <2>5. Cardinality(queue') = Cardinality(queue) - Cardinality(now)
    BY <1>3, <2>3, SizeWithout
  <2>6. Cardinality(flight') = Cardinality(flight \ {a}) + Cardinality(now)
    <3>1. (flight \ {a}) \cap now = {} /\ now \in SUBSET Assets
          /\ flight \ {a} \in SUBSET Assets
      BY <1>3, <2>4
    <3> QED
      BY <2>3, <3>1, SizeOfBoth
  <2>7. Cardinality(now) \in Nat /\ Cardinality(queue) \in Nat
    BY <1>3, Sizes
  <2>8. concurrent' = concurrent - 1 + Cardinality(now) /\ concurrent' \in 1..maxTasks'
    BY <1>3, <2>1 DEF Handing
  <2>9. concurrent' = Cardinality(flight') + Cardinality(unzipping')
    BY <1>2, <1>5, <1>6, <2>6, <2>7, <2>8
  <2>10. wait' = Cardinality(queue') + Cardinality(flight') + Cardinality(unzipping')
    BY <1>2, <1>5, <1>6, <2>5, <2>6, <2>7
  <2>11. queue' \cap (flight' \cup unzipping') = {} /\ flight' \cap unzipping' = {}
    BY <1>5, <2>3, <2>4
  <2>12. ASSUME NEW b \in (units \ Under)'
         PROVE  b \in failed' <=> tm'.mark[b] # "SUCCESSED"
    <3>1. b \in units /\ b \in Assets /\ b \notin now /\ (b = a \/ b \notin Under)
      BY <1>3, <1>5, <2>1, <2>3 DEF Under, EndsUnit, IInv, TypeOK
    <3>2. tm'.mark[b] = m.mark[b]
      BY <2>1, <3>1, MarkedManifests DEF Handing, Mark, EndsUnit
    <3>3. CASE b = a
      BY <3>2, <3>3 DEF EndsUnit
    <3>4. CASE b # a
      <4>1. m.mark[b] = tm.mark[b] /\ (b \in failed' <=> b \in failed)
        BY <3>1, <3>4 DEF EndsUnit
      <4>2. b \in failed <=> tm.mark[b] # "SUCCESSED"
        BY <1>1, <3>1, <3>4 DEF Counting
      <4> QED
        BY <3>2, <4>1, <4>2
    <3> QED
      BY <3>3, <3>4
  <2>13. Counting'
    BY <2>8, <2>9, <2>10, <2>11, <2>12 DEF Counting
  <2> QED
    BY <2>2, <2>13 DEF Counts
<1> QED
  BY <1>4, <1>7, <1>8 DEF Queued

LEMMA UnitEndTypes ==
  ASSUME IInv, NEW a, NEW m, NEW e, EndsUnit(a, m, e)
  PROVE  TypeOK'
<1>1. /\ ~merge.on /\ a \in Assets /\ Updating
  BY UnitOut DEF EndsUnit
<1>2. /\ concurrent - 1 \in Nat
      /\ wait' = Cardinality(queue) + (concurrent - 1)
  BY RestOut DEF EndsUnit
<1>3. /\ queue \in SUBSET Assets /\ maxTasks \in 1..MaxConcurrent
      /\ tempFile \in Manifest /\ m \in Manifest
      /\ e \in {"NONE", "CHECK_UPDATE", "DO_UPDATE"}
      /\ QueueDownload(queue, concurrent - 1, m, tempFile, e)
  BY DEF IInv, TypeOK, EndsUnit
<1>4. PICK q \in SUBSET Assets, c \in Nat, disk \in Manifest :
        q = queue /\ Queued(q, c, m, disk, e)
  BY <1>2, <1>3, QueueSteps
<1>5. queue' \subseteq queue
  BY <1>4 DEF Queued, Finishing, Handing
<1>6. /\ concurrent' \in Int
       /\ tm' \in Manifest /\ tempFile' \in Manifest
       /\ state' \in {"FAIL_TO_UPDATE", "UPDATING"}
       /\ entry' \in {"NONE", "CHECK_UPDATE", "DO_UPDATE"}
       /\ merge' \in [on : BOOLEAN, left : SUBSET (Assets \cup {"manifest"}),
                      listed : SUBSET Assets, ver : {Absent} \cup Versions]
  BY <1>1, <1>3, <1>4, QueuedTypes
<1>7. remote' \in Manifest
  BY <1>6 DEF EndsUnit, RemoteIs, IInv, TypeOK
<1>8. wait' \in Int /\ failed' \subseteq Assets /\ temp' \in [Assets -> Int]
  BY <1>1 DEF EndsUnit, IInv, TypeOK
<1>9. flight' \subseteq Assets /\ unzipping' \subseteq Assets /\ queue' \subseteq Assets
  BY <1>3, <1>5 DEF EndsUnit, IInv, TypeOK
<1>10. UNCHANGED <<bundle, server, torn, again, maxTasks, stored, cached, local, shared, units>>
  BY DEF EndsUnit, world, store
<1>11. state' \in States
  BY <1>6 DEF States
<1> QED
  BY <1>6, <1>5, <1>7, <1>8, <1>9, <1>10, <1>11, Zenon DEF TypeOK, IInv

LEMMA UnitEndVersions ==
  ASSUME IInv, NEW a, NEW m, NEW e, EndsUnit(a, m, e)
  PROVE  Versioning'
<1>1. /\ ~merge.on /\ a \in Assets /\ Updating /\ state = "UPDATING"
  BY UnitOut DEF EndsUnit
<1>2. /\ concurrent - 1 \in Nat
      /\ wait' = Cardinality(queue) + (concurrent - 1)
  BY RestOut DEF EndsUnit
<1>3. /\ queue \in SUBSET Assets /\ maxTasks \in 1..MaxConcurrent
      /\ tempFile \in Manifest /\ m \in Manifest
      /\ e \in {"NONE", "CHECK_UPDATE", "DO_UPDATE"}
      /\ QueueDownload(queue, concurrent - 1, m, tempFile, e)
  BY DEF IInv, TypeOK, EndsUnit
<1>4. PICK q \in SUBSET Assets, c \in Nat, disk \in Manifest :
        q = queue /\ Queued(q, c, m, disk, e)
  BY <1>2, <1>3, QueueSteps
<1>5. /\ tm' \in Manifest /\ tm'.ver = m.ver /\ tm'.loaded = m.loaded
      /\ state' \in {"FAIL_TO_UPDATE", "UPDATING"}
      /\ merge'.on => merge'.ver = m.ver /\ "manifest" \in merge'.left
  <2>1. tm' \in Manifest /\ tm'.ver = m.ver /\ tm'.loaded = m.loaded
    BY <1>3, <1>4, QueuedManifest
  <2>2. state' \in {"FAIL_TO_UPDATE", "UPDATING"}
    BY <1>1, <1>3, <1>4, QueuedTypes
  <2>3. merge'.on => merge'.ver = m.ver /\ "manifest" \in merge'.left
    BY <1>1, <1>3, <1>4, QueuedTypes
  <2> QED
    BY <2>1, <2>2, <2>3
<1>6. merge'.left # {} => merge'.on
  BY <1>1, <1>3, <1>4, QueuedTypes
<1>7. /\ remote.loaded /\ tm.ver = remote.ver /\ local < remote.ver
      /\ shared => tm = remote
  BY <1>1 DEF IInv, Versioning, Updating, Running
<1>8. /\ remote'.loaded /\ remote'.ver = m.ver /\ local < m.ver /\ tm'.ver = m.ver
      /\ shared' => tm' = remote'
  BY <1>5, <1>7 DEF EndsUnit, RemoteIs
<1>9. UNCHANGED <<bundle, cached, local>>
  BY DEF EndsUnit, world, store
<1> QED
  BY <1>1, <1>5, <1>8, <1>9, <1>6 DEF IInv, Versioning, Running

LEMMA UnitEndStep ==
  ASSUME IInv, NEW a, NEW m, NEW e, EndsUnit(a, m, e)
  PROVE  IInv'
BY UnitEndTypes, UnitEndCounts, UnitEndVersions DEF IInv
-----------------------------------------------------------------------------
\* A download starts: the units us are queued, and some handed out.
StartsBatch(us, m, disk, e, r) ==
  /\ Running /\ state # "UPDATING"
  /\ us \in SUBSET Assets /\ m \in Manifest /\ disk \in Manifest /\ r \in Manifest
  /\ e \in {"NONE", "CHECK_UPDATE", "DO_UPDATE"}
  /\ r.loaded /\ (shared' => m.loaded) /\ r.ver = m.ver /\ local < m.ver
  /\ UNCHANGED <<world, store, local, unzipping>>
  /\ shared' \in BOOLEAN /\ temp' \in [Assets -> Int] /\ failed' \subseteq Assets
  /\ BatchDownload(us, m, disk, e)
  /\ RemoteIs(r)

LEMMA BatchQueued ==
  ASSUME IInv, NEW us, NEW m, NEW disk, NEW e, NEW r, StartsBatch(us, m, disk, e, r)
  PROVE  /\ Queued(us, 0, m, disk, e)
         /\ queue = {} /\ flight = {} /\ unzipping = {} /\ concurrent = 0
         /\ unzipping' = {} /\ flight' = us \ queue' /\ queue' \subseteq us
         /\ units' = us /\ wait' = Cardinality(us) /\ ~merge.on
<1>1. /\ queue = {} /\ flight = {} /\ unzipping = {} /\ concurrent = 0 /\ ~merge.on
      /\ maxTasks \in 1..MaxConcurrent
  BY DEF IInv, TypeOK, Counts, Updating, StartsBatch, Running
<1>2. /\ units' = us /\ wait' = Cardinality(us)
      /\ QueueDownload(us, 0, m, disk, e)
      /\ flight' = us \ queue' /\ unzipping' = {} /\ us \in SUBSET Assets
  BY <1>1 DEF StartsBatch, BatchDownload
<1>3. wait' = Cardinality(us) + 0
  BY <1>2, Sizes
<1>4. Queued(us, 0, m, disk, e)
  BY <1>1, <1>2, <1>3, QueueSteps
<1>5. queue' \subseteq us
  BY <1>4 DEF Queued, Finishing, Handing
<1> QED
  BY <1>1, <1>2, <1>4, <1>5

LEMMA BatchCounts ==
  ASSUME IInv, NEW us, NEW m, NEW disk, NEW e, NEW r, StartsBatch(us, m, disk, e, r)
  PROVE  Counts'
<1>1. /\ Queued(us, 0, m, disk, e) /\ ~merge.on
      /\ unzipping' = {} /\ flight' = us \ queue' /\ queue' \subseteq us
      /\ units' = us /\ wait' = Cardinality(us)
  BY BatchQueued
<1>2. us \in SUBSET Assets /\ maxTasks' = maxTasks
  BY DEF StartsBatch, world
<1>3. CASE us = {} /\ Finishing(m, e)
  <2>1. queue' = {} /\ flight' = {} /\ unzipping' = {} /\ concurrent' = 0
    BY <1>1, <1>3 DEF Finishing
  <2>2. ~Updating' /\ (merge'.on => state' \in {"UPDATING", "NEED_UPDATE"})
    BY <1>1, <1>3 DEF Finishing, Updating, Running, BeginMerge
  <2> QED
    BY <2>1, <2>2 DEF Counts
<1>4. CASE \E now \in SUBSET us : Handing(now, us, 0, m, disk, e)
  <2>1. PICK now \in SUBSET us : Handing(now, us, 0, m, disk, e)
    BY <1>4
  <2>2. Updating' /\ ~merge'.on /\ state' = "UPDATING"
    BY <1>1, <2>1 DEF Handing, Updating, Running
  <2>3. queue' = us \ now /\ flight' = now /\ unzipping' = {}
    BY <1>1, <2>1 DEF Handing
  <2>4. /\ Cardinality(queue') = Cardinality(us) - Cardinality(now)
        /\ Cardinality(now) \in Nat /\ Cardinality(us) \in Nat
        /\ Cardinality(unzipping') = 0
    BY <1>2, <2>3, SizeWithout, Sizes
  <2>5. concurrent' = Cardinality(now) /\ concurrent' \in 1..maxTasks'
    BY <1>2, <2>1, <2>4 DEF Handing
  <2>6. wait' = Cardinality(queue') + Cardinality(flight') + Cardinality(unzipping')
    <3>1. Cardinality(flight') = Cardinality(now)
      BY <2>3
    <3> QED
      BY <1>1, <2>4, <3>1
  <2>7. concurrent' = Cardinality(flight') + Cardinality(unzipping')
    BY <2>3, <2>4, <2>5
  <2>8. queue' \cap (flight' \cup unzipping') = {} /\ flight' \cap unzipping' = {}
    BY <2>3
  <2>9. (units \ Under)' = {}
    BY <1>1, <2>3 DEF Under
  <2>10. Counting'
    BY <2>5, <2>6, <2>7, <2>8, <2>9 DEF Counting
  <2> QED
    BY <2>2, <2>10 DEF Counts
<1> QED
  BY <1>1, <1>3, <1>4 DEF Queued

LEMMA BatchTypes ==
  ASSUME IInv, NEW us, NEW m, NEW disk, NEW e, NEW r, StartsBatch(us, m, disk, e, r)
  PROVE  TypeOK'
<1>1. /\ Queued(us, 0, m, disk, e) /\ ~merge.on
      /\ unzipping' = {} /\ flight' = us \ queue' /\ queue' \subseteq us
      /\ units' = us /\ wait' = Cardinality(us)
  BY BatchQueued
<1>2. /\ us \in SUBSET Assets /\ m \in Manifest /\ disk \in Manifest
      /\ e \in {"NONE", "CHECK_UPDATE", "DO_UPDATE"}
  BY DEF StartsBatch
<1>3. /\ concurrent' \in Int
      /\ tm' \in Manifest /\ tempFile' \in Manifest
      /\ state' \in {"FAIL_TO_UPDATE", "UPDATING"}
      /\ entry' \in {"NONE", "CHECK_UPDATE", "DO_UPDATE"}
      /\ merge' \in [on : BOOLEAN, left : SUBSET (Assets \cup {"manifest"}),
                     listed : SUBSET Assets, ver : {Absent} \cup Versions]
  BY <1>1, <1>2, QueuedTypes
<1>4. remote' \in Manifest
  BY <1>3 DEF StartsBatch, RemoteIs
<1>5. /\ wait' \in Int /\ failed' \subseteq Assets /\ temp' \in [Assets -> Int]
      /\ shared' \in BOOLEAN
  BY <1>1, <1>2, Sizes DEF StartsBatch
<1>6. flight' \subseteq Assets /\ unzipping' \subseteq Assets /\ queue' \subseteq Assets
      /\ units' \subseteq Assets
  BY <1>1, <1>2
<1>7. UNCHANGED <<bundle, server, torn, again, maxTasks, stored, cached, local>>
  BY DEF StartsBatch, world, store
<1>8. state' \in States
  BY <1>3 DEF States
<1> QED
  BY <1>3, <1>4, <1>5, <1>6, <1>7, <1>8, Zenon DEF TypeOK, IInv

LEMMA BatchVersions ==
  ASSUME IInv, NEW us, NEW m, NEW disk, NEW e, NEW r, StartsBatch(us, m, disk, e, r)
  PROVE  Versioning'
<1>1. Queued(us, 0, m, disk, e) /\ ~merge.on
  BY BatchQueued
<1>2. /\ us \in SUBSET Assets /\ m \in Manifest /\ disk \in Manifest
      /\ e \in {"NONE", "CHECK_UPDATE", "DO_UPDATE"}
  BY DEF StartsBatch
<1>3. /\ tm' \in Manifest /\ tm'.ver = m.ver /\ tm'.loaded = m.loaded
      /\ state' \in {"FAIL_TO_UPDATE", "UPDATING"}
      /\ merge'.on => merge'.ver = m.ver /\ "manifest" \in merge'.left
      /\ merge'.left # {} => merge'.on
  BY <1>1, <1>2, QueuedTypes
<1>4. /\ remote'.loaded /\ remote'.ver = m.ver /\ local < m.ver /\ tm'.ver = m.ver
      /\ shared' => tm' = remote'
  BY <1>3 DEF StartsBatch, RemoteIs
<1>5. UNCHANGED <<bundle, cached, local>>
  BY DEF StartsBatch, world, store
<1> QED
  BY <1>1, <1>3, <1>4, <1>5 DEF IInv, Versioning, Running

LEMMA BatchStep ==
  ASSUME IInv, NEW us, NEW m, NEW disk, NEW e, NEW r, StartsBatch(us, m, disk, e, r)
  PROVE  IInv'
BY BatchTypes, BatchCounts, BatchVersions DEF IInv
-----------------------------------------------------------------------------
LEMMA UnitActionStep ==
  ASSUME IInv, NEW a \in Assets, UnitError(a) \/ UnitSuccess(a) \/ Unzipped(a)
  PROVE  IInv'
<1>0. ASSUME a \in flight \cup unzipping PROVE
        /\ flight \cap unzipping = {} /\ temp \in [Assets -> Int] /\ tm \in Manifest
        /\ remote.loaded /\ remote.ver \in Versions /\ local < remote.ver
        /\ entry \in {"NONE", "CHECK_UPDATE", "DO_UPDATE"}
  <2>1. Updating /\ Counting /\ state = "UPDATING"
    BY <1>0, UnitOut
  <2>2. remote.loaded /\ local < remote.ver
    BY <2>1 DEF IInv, Versioning, Updating, Running
  <2>3. remote.ver \in {Absent} \cup Versions /\ local \in Versions
    BY DEF IInv, TypeOK, Manifest
  <2>4. remote.ver \in Versions
    BY <2>2, <2>3, VersionNumbers
  <2> QED
    BY <2>1, <2>2, <2>4 DEF Counting, IInv, TypeOK
<1>1. ASSUME NEW file \in Int, FileError(a, file), a \in flight \cup unzipping,
             unzipping' = unzipping \ {a},
             flight' = (flight \ {a}) \cup (queue \ queue')
      PROVE  IInv'
  <2> DEFINE m == Marked(tm, {a}, "UNSTARTED")
  <2>1. temp \in [Assets -> Int] /\ tm \in Manifest
    BY <1>0, <1>1
  <2>2. /\ m \in Manifest /\ m.ver = tm.ver /\ m.loaded = tm.loaded
        /\ m.mark[a] # "SUCCESSED"
        /\ \A b \in Assets \ {a} : m.mark[b] = tm.mark[b]
    BY <2>1, MarkedManifests DEF Mark
  <2> HIDE DEF m
  <2>3. temp' \in [Assets -> Int] /\ failed' = failed \cup {a}
    BY <1>1, <2>1 DEF FileError, Recorded
  <2>4. /\ wait' = wait - 1
        /\ UNCHANGED <<world, store, local, shared, units>>
        /\ QueueDownload(queue, concurrent - 1, m, tempFile, "NONE")
        /\ RemoteIs(remote)
    BY <1>1 DEF FileError, m
  <2>5. EndsUnit(a, m, "NONE")
    BY <1>1, <2>2, <2>3, <2>4 DEF EndsUnit
  <2> QED
    BY <2>5, UnitEndStep
<1>2. ASSUME FileSuccess(a), a \in flight \cup unzipping,
             unzipping' = unzipping \ {a},
             flight' = (flight \ {a}) \cup (queue \ queue')
      PROVE  IInv'
  <2> DEFINE m == Marked(tm, {a}, "SUCCESSED")
  <2>1. /\ temp \in [Assets -> Int] /\ tm \in Manifest /\ remote.ver \in Versions
        /\ entry \in {"NONE", "CHECK_UPDATE", "DO_UPDATE"}
    BY <1>0, <1>2
  <2>2. /\ m \in Manifest /\ m.ver = tm.ver /\ m.loaded = tm.loaded
        /\ m.mark[a] = "SUCCESSED"
        /\ \A b \in Assets \ {a} : m.mark[b] = tm.mark[b]
    BY <2>1, MarkedManifests DEF Mark
  <2> HIDE DEF m
  <2>3. temp' \in [Assets -> Int] /\ failed' = failed \ {a}
    <3>1. Content[remote.ver][a] \in Int
      <4>1. Content[remote.ver] \in [Assets -> Nat]
        BY <2>1, VersionNumbers
      <4> QED
        BY <4>1
    <3> QED
      BY <1>2, <2>1, <3>1 DEF FileSuccess
  <2>4. /\ wait' = wait - 1
        /\ UNCHANGED <<world, store, local, shared, units>>
        /\ QueueDownload(queue, concurrent - 1, m, tempFile, entry)
        /\ RemoteIs(remote)
    BY <1>2 DEF FileSuccess, m
  <2>5. EndsUnit(a, m, entry)
    BY <1>2, <2>1, <2>2, <2>3, <2>4 DEF EndsUnit
  <2> QED
    BY <2>5, UnitEndStep
<1>3. CASE UnitError(a)
  <2>1. /\ a \in flight /\ unzipping' = unzipping
        /\ flight' = (flight \ {a}) \cup (queue \ queue')
    BY <1>3 DEF UnitError
  <2>2. unzipping' = unzipping \ {a} /\ temp[a] \in Int
    BY <1>0, <2>1
  <2>3. PICK file \in {temp[a], Corrupt} : FileError(a, file)
    BY <1>3 DEF UnitError
  <2> QED
    BY <1>1, <2>1, <2>2, <2>3 DEF Corrupt
<1>4. CASE UnitSuccess(a) /\ a \notin Compressed
  <2>1. /\ a \in flight /\ unzipping' = unzipping /\ FileSuccess(a)
        /\ flight' = (flight \ {a}) \cup (queue \ queue')
    BY <1>4 DEF UnitSuccess
  <2>2. unzipping' = unzipping \ {a}
    BY <1>0, <2>1
  <2> QED
    BY <1>2, <2>1, <2>2
<1>5. CASE UnitSuccess(a) /\ a \in Compressed
  <2>1. /\ a \in flight
        /\ unzipping' = unzipping \cup {a} /\ flight' = flight \ {a}
        /\ UNCHANGED <<world, store, temp, tempFile, state, entry, local,
                 manifests, units, queue, failed, wait, concurrent, merge>>
    BY <1>5 DEF UnitSuccess
  <2>2. Updating /\ Counting /\ Updating' /\ state = "UPDATING" /\ ~merge.on
    BY <2>1, UnitOut DEF Updating, Running
  <2>3. flight \in SUBSET Assets /\ unzipping \in SUBSET Assets
    BY DEF IInv, TypeOK
  <2>4. Cardinality(flight') = Cardinality(flight) - 1
    BY <2>1, <2>3, SizeWithoutOne
  <2>5. Cardinality(unzipping') = Cardinality(unzipping) + 1
    <3>1. a \notin unzipping /\ IsFiniteSet(unzipping)
      BY <2>1, <2>2, <2>3, Sizes DEF Counting
    <3> QED
      BY <2>1, <3>1, FS_AddElement
  <2>6. /\ Cardinality(flight) \in Nat /\ Cardinality(unzipping) \in Nat
        /\ Cardinality(queue) \in Nat
    BY <2>3, Sizes DEF IInv, TypeOK
  <2>7. /\ wait' = Cardinality(queue') + Cardinality(flight') + Cardinality(unzipping')
        /\ concurrent' = Cardinality(flight') + Cardinality(unzipping')
    <3>1. /\ wait = Cardinality(queue) + Cardinality(flight) + Cardinality(unzipping)
          /\ concurrent = Cardinality(flight) + Cardinality(unzipping)
          /\ queue' = queue /\ wait' = wait /\ concurrent' = concurrent
      BY <2>1, <2>2 DEF Counting
    <3> QED
      BY <2>4, <2>5, <2>6, <3>1
  <2>8. Under' = Under
    BY <2>1 DEF Under
  <2>9. Counting'
    <3>1. /\ queue' \cap (flight' \cup unzipping') = {} /\ flight' \cap unzipping' = {}
          /\ concurrent' \in 1..maxTasks'
      BY <2>1, <2>2 DEF Counting, world
    <3>2. \A b \in (units \ Under)' : b \in failed' <=> tm'.mark[b] # "SUCCESSED"
      BY <2>1, <2>2, <2>8 DEF Counting, manifests
    <3> QED
      BY <2>7, <3>1, <3>2 DEF Counting
  <2>10. Counts'
    BY <2>1, <2>2, <2>9 DEF Counts
  <2>11. TypeOK'
    BY <2>1, <2>3, Zenon DEF IInv, TypeOK, world, store, manifests
  <2>12. Versioning'
    BY <2>1, Zenon DEF IInv, Versioning, Updating, Running, world, store, manifests
  <2> QED
    BY <2>10, <2>11, <2>12 DEF IInv
<1>6. CASE Unzipped(a)
  <2>1. /\ a \in unzipping /\ unzipping' = unzipping \ {a}
        /\ flight' = flight \cup (queue \ queue')
        /\ FileSuccess(a) \/ FileError(a, Absent)
    BY <1>6 DEF Unzipped
  <2>2. flight' = (flight \ {a}) \cup (queue \ queue')
    BY <1>0, <2>1
  <2> QED
    BY <1>1, <1>2, <2>1, <2>2 DEF Absent
<1> QED
  BY <1>3, <1>4, <1>5, <1>6
-----------------------------------------------------------------------------
LEMMA CallsStep ==
  ASSUME IInv, CheckUpdate \/ UpdateFirst \/ Publish
  PROVE  IInv'
<1>1. /\ UNCHANGED <<bundle, torn, maxTasks, store, temp, tempFile, local,
                     manifests, downloads, merge>>
      /\ server' \in Versions /\ again' \in BOOLEAN
  BY DEF CheckUpdate, UpdateFirst, Publish, world, IInv, TypeOK
<1>2. /\ state' \in States /\ entry' \in {"NONE", "CHECK_UPDATE", "DO_UPDATE"}
      /\ state' # "UPDATING" => state' = state \/ (Running /\ state # "UPDATING")
      /\ state' = "UPDATING" => state = "UPDATING"
      /\ state' = "READY_TO_UPDATE" => state = "READY_TO_UPDATE"
      /\ state = "UP_TO_DATE" => state' = "UP_TO_DATE"
      /\ merge.on => state' = state
  BY DEF CheckUpdate, UpdateFirst, Publish, Running, States, IInv, TypeOK
<1>3. TypeOK'
  BY <1>1, <1>2, Zenon DEF IInv, TypeOK, store, manifests, downloads
<1>4. Counts'
  <2>1. merge' = merge /\ (Updating' => Updating) /\ (Updating => Updating' \/ state' # state)
    BY <1>1, <1>2 DEF Updating, Running
  <2>2. ~Updating' => ~Updating
    BY <1>1, <1>2 DEF Updating, Running
  <2>3. Counting' <=> Counting
    BY <1>1 DEF Counting, Under, manifests, downloads
  <2> QED
    BY <1>1, <1>2, <2>1, <2>2, <2>3 DEF IInv, Counts, downloads
<1>5. Versioning'
  BY <1>1, <1>2 DEF IInv, Versioning, Updating, Running, store, manifests
<1> QED
  BY <1>3, <1>4, <1>5 DEF IInv

LEMMA ReadyStep ==
  ASSUME IInv, UpdateReady \/ DownloadFailedAssets
  PROVE  IInv'
<1>1. /\ Running /\ state \in {"READY_TO_UPDATE", "FAIL_TO_UPDATE"} /\ remote.loaded
      /\ UNCHANGED <<world, store, temp, local, shared, unzipping, failed>>
      /\ RemoteIs(remote)
  BY DEF UpdateReady, DownloadFailedAssets
<1>2. /\ tm \in Manifest /\ tempFile \in Manifest /\ remote \in Manifest
      /\ units \in SUBSET Assets /\ failed \in SUBSET Assets
      /\ entry \in {"NONE", "CHECK_UPDATE", "DO_UPDATE"}
      /\ temp \in [Assets -> Int] /\ shared \in BOOLEAN
  BY DEF IInv, TypeOK
<1>3. /\ tm.ver = remote.ver /\ local < remote.ver
      /\ shared => tm.loaded
  BY <1>1 DEF IInv, Versioning
<1>4. PICK us \in SUBSET Assets, e \in {"NONE", "CHECK_UPDATE", "DO_UPDATE"} :
        BatchDownload(us, tm, tempFile, e)
  BY <1>2 DEF UpdateReady, DownloadFailedAssets
<1>5. shared' \in BOOLEAN /\ temp' \in [Assets -> Int] /\ failed' \subseteq Assets
  BY <1>1, <1>2
<1>6. StartsBatch(us, tm, tempFile, e, remote)
  BY <1>1, <1>2, <1>3, <1>4, <1>5 DEF StartsBatch
<1> QED
  BY <1>6, BatchStep

LEMMA VersionDoneStep == ASSUME IInv, VersionDone PROVE IInv'
<1>1. /\ state = "DOWNLOADING_VERSION"
      /\ UNCHANGED <<world, store, local, shared, downloads, merge>>
      /\ state' \in {"UP_TO_DATE", "DOWNLOADING_MANIFEST"}
      /\ \/ ReadRemote(ParseVersion(remote, server))
         \/ UNCHANGED <<remote, tm>>
         \/ ReadRemote(ParseFails(remote))
      /\ entry' \in {entry, "NONE"}
      /\ temp' \in {temp, Empty} /\ tempFile' \in {tempFile, NoFile}
  BY DEF VersionDone, UpToDate, RemoveTemp
<1>2. /\ remote \in Manifest /\ tm \in Manifest /\ server \in Versions /\ tempFile \in Manifest
      /\ shared \in BOOLEAN
  BY DEF IInv, TypeOK
<1>3. ~merge.on /\ ~Updating /\ ~Updating'
  BY <1>1 DEF IInv, Counts, Updating, Running
<1>4. /\ remote' \in Manifest /\ tm' \in Manifest
      /\ remote'.loaded => remote' = remote /\ tm' = tm
      /\ shared => tm' = remote'
  <2>1. shared => tm = remote
    BY <1>3 DEF IInv, Versioning, Running
  <2>2. CASE ReadRemote(ParseVersion(remote, server))
    <3>1. /\ ParseVersion(remote, server) \in Manifest
          /\ ParseVersion(remote, server).loaded = FALSE
      BY <1>2, ParsedVersions
    <3> QED
      BY <1>2, <2>2, <3>1 DEF ReadRemote
  <2>3. CASE ReadRemote(ParseFails(remote))
    <3>1. ParseFails(remote) \in Manifest /\ ParseFails(remote).loaded = FALSE
      BY <1>2, FailedManifests
    <3> QED
      BY <1>2, <2>3, <3>1 DEF ReadRemote
  <2> QED
    BY <1>1, <1>2, <2>1, <2>2, <2>3
<1>5. TypeOK'
  <2>1. temp' \in [Assets -> Int] /\ tempFile' \in Manifest
    BY <1>1, <1>2, BlankManifests DEF Empty, Absent, IInv, TypeOK
  <2>2. state' \in States /\ entry' \in {"NONE", "CHECK_UPDATE", "DO_UPDATE"}
    BY <1>1 DEF States, IInv, TypeOK
  <2> QED
    BY <1>1, <1>4, <2>1, <2>2, Zenon DEF IInv, TypeOK, world, store, downloads
<1>6. Counts'
  BY <1>1, <1>3 DEF IInv, Counts, downloads
<1>7. Versioning'
  BY <1>1, <1>3, <1>4 DEF IInv, Versioning, Running, world, store
<1> QED
  BY <1>5, <1>6, <1>7 DEF IInv

LEMMA ManifestFailsStep == ASSUME IInv, ManifestFails PROVE IInv'
<1>1. /\ state = "DOWNLOADING_MANIFEST" /\ entry' = "NONE"
      /\ UNCHANGED <<world, store, temp, local, shared, downloads, merge>>
      /\ state' \in {"FAIL_TO_UPDATE", "UNCHECKED"}
      /\ UNCHANGED <<remote, tm>> \/ ReadRemote(ParseFails(remote))
      /\ tempFile' \in {tempFile, Garbage}
  BY DEF ManifestFails
<1>2. remote \in Manifest /\ tm \in Manifest /\ tempFile \in Manifest /\ shared \in BOOLEAN
  BY DEF IInv, TypeOK
<1>3. ~merge.on /\ ~Updating /\ ~Updating'
  BY <1>1 DEF IInv, Counts, Updating, Running
<1>4. /\ remote' \in Manifest /\ tm' \in Manifest
      /\ remote'.loaded => remote' = remote /\ tm' = tm
      /\ shared => tm' = remote'
  <2>1. shared => tm = remote
    BY <1>3 DEF IInv, Versioning, Running
  <2>2. CASE ReadRemote(ParseFails(remote))
    <3>1. ParseFails(remote) \in Manifest /\ ParseFails(remote).loaded = FALSE
      BY <1>2, FailedManifests
    <3> QED
      BY <1>2, <2>2, <3>1 DEF ReadRemote
  <2> QED
    BY <1>1, <1>2, <2>1, <2>2
<1>5. TypeOK'
  <2>1. tempFile' \in Manifest
    BY <1>1, <1>2, BlankManifests
  <2>2. state' \in States
    BY <1>1 DEF States
  <2> QED
    BY <1>1, <1>4, <2>1, <2>2, Zenon DEF IInv, TypeOK, world, store, downloads
<1>6. Counts'
  BY <1>1, <1>3 DEF IInv, Counts, downloads
<1>7. Versioning'
  BY <1>1, <1>3, <1>4 DEF IInv, Versioning, Running, world, store
<1> QED
  BY <1>5, <1>6, <1>7 DEF IInv
-----------------------------------------------------------------------------
\* The manifest prepareUpdate goes on with, and the units it asks for.
ToResume(r) == Resumable(IF shared THEN r ELSE tm, r)
Planned(r) ==
  LET t == IF shared THEN r ELSE tm IN
  IF ToResume(r) THEN Resumed(t) ELSE ToDownload(local, r.ver)
GoesOnWith(r) ==
  LET t == IF shared THEN r ELSE tm IN
  IF ToResume(r) THEN t ELSE Started(r, Planned(r))

LEMMA Prepared ==
  ASSUME NEW r, PrepareUpdate(r)
  PROVE  /\ failed' = {} /\ shared' = (shared \/ ~ToResume(r))
         /\ temp' = IF ToResume(r) THEN temp ELSE Empty
         /\ RemoteIs(r)
         /\ \/ /\ ~ToResume(r) /\ DiffAt(local, r.ver) = {}
               /\ tm' = r
               /\ BeginMerge(r, Empty)
               /\ units' = {} /\ wait' = 0 /\ state' = "NEED_UPDATE"
               /\ UNCHANGED <<entry, queue, flight, concurrent>>
            \/ /\ tm' = GoesOnWith(r) /\ tempFile' = GoesOnWith(r)
               /\ units' = Planned(r) /\ wait' = Cardinality(Planned(r))
               /\ state' = "READY_TO_UPDATE" /\ entry' = "NONE"
               /\ UNCHANGED <<queue, flight, concurrent, merge>>
            \/ BatchDownload(Planned(r), GoesOnWith(r), GoesOnWith(r), entry)
BY Zenon DEF PrepareUpdate, ToResume, Planned, GoesOnWith

LEMMA PreparedManifest ==
  ASSUME NEW r \in Manifest, r.loaded, tm \in Manifest
  PROVE  /\ GoesOnWith(r) \in Manifest /\ GoesOnWith(r).ver = r.ver
         /\ GoesOnWith(r).loaded /\ Planned(r) \in SUBSET Assets
<1>1. Planned(r) \in SUBSET Assets
  BY DEF Planned, Resumed, ToDownload, DiffAt
<1>2. CASE ToResume(r)
  <2>1. CASE shared
    <3>1. GoesOnWith(r) = r
      BY <1>2, <2>1 DEF GoesOnWith
    <3> QED
      BY <1>1, <3>1
  <2>2. CASE ~shared
    <3>1. GoesOnWith(r) = tm
      BY <1>2, <2>2 DEF GoesOnWith
    <3>2. tm.loaded /\ tm.ver = r.ver
      BY <1>2, <2>2 DEF ToResume, Resumable
    <3> QED
      BY <1>1, <3>1, <3>2
  <2> QED
    BY <2>1, <2>2
<1>3. CASE ~ToResume(r)
  BY <1>1, <1>3, StartedManifests DEF GoesOnWith
<1> QED
  BY <1>1, <1>2, <1>3

LEMMA ManifestDoneStep == ASSUME IInv, ManifestDone PROVE IInv'
<1> DEFINE r == ParseFile(remote, server)
<1>1. /\ state = "DOWNLOADING_MANIFEST" /\ UNCHANGED <<world, store, local>>
      /\ remote \in Manifest /\ tm \in Manifest /\ server \in Versions
      /\ local \in Versions /\ shared \in BOOLEAN /\ temp \in [Assets -> Int]
      /\ entry \in {"NONE", "CHECK_UPDATE", "DO_UPDATE"}
  BY DEF ManifestDone, IInv, TypeOK
<1>2. /\ ~merge.on /\ ~Updating /\ queue = {} /\ flight = {} /\ unzipping = {}
      /\ concurrent = 0
  BY <1>1 DEF IInv, Counts, Updating, Running
<1>3. r \in Manifest /\ r.loaded = TRUE /\ r.ver = server
  BY <1>1, ParsedManifests
<1>4. \/ /\ ReadRemote(r) /\ UpToDate /\ UNCHANGED <<shared, downloads, merge>>
      \/ local < server /\ PrepareUpdate(r) /\ UNCHANGED unzipping
  BY DEF ManifestDone
<1> HIDE DEF r
<1>5. Empty \in [Assets -> Int] /\ NoFile \in Manifest
  BY BlankManifests DEF Empty, Absent
<1>6. UNCHANGED <<bundle, server, torn, again, maxTasks, stored, cached, local>>
  BY <1>1 DEF world, store
<1>7. CASE ReadRemote(r) /\ UpToDate /\ UNCHANGED <<shared, downloads, merge>>
  <2>1. /\ remote' = r /\ tm' \in Manifest /\ (shared => tm' = r)
        /\ state' = "UP_TO_DATE" /\ entry' = "NONE"
        /\ temp' = Empty /\ tempFile' = NoFile /\ shared' = shared /\ merge' = merge
    BY <1>1, <1>3, <1>7 DEF ReadRemote, UpToDate, RemoveTemp
  <2>2. UNCHANGED <<units, queue, flight, unzipping, failed, wait, concurrent>>
    BY <1>7 DEF downloads
  <2>3. TypeOK'
    BY <1>3, <1>5, <1>6, <2>1, <2>2 DEF IInv, TypeOK, States
  <2>4. Counts' /\ Versioning'
    BY <1>1, <1>2, <1>6, <2>1, <2>2 DEF IInv, Counts, Updating, Running, Versioning
  <2> QED
    BY <2>3, <2>4 DEF IInv
<1>8. CASE local < server /\ PrepareUpdate(r) /\ UNCHANGED unzipping
  <2> DEFINE m == GoesOnWith(r)
             us == Planned(r)
  <2>1. m \in Manifest /\ m.ver = server /\ m.loaded /\ us \in SUBSET Assets
    BY <1>1, <1>3, PreparedManifest
  <2>2. /\ failed' = {} /\ shared' \in BOOLEAN /\ temp' \in [Assets -> Int]
        /\ RemoteIs(r)
    <3>1. /\ failed' = {} /\ shared' = (shared \/ ~ToResume(r)) /\ RemoteIs(r)
          /\ temp' = IF ToResume(r) THEN temp ELSE Empty
      BY <1>8, Prepared
    <3> QED
      BY <1>1, <1>5, <3>1
  <2>3. \/ /\ tm' = r
           /\ BeginMerge(r, Empty)
           /\ units' = {} /\ wait' = 0 /\ state' = "NEED_UPDATE"
           /\ UNCHANGED <<entry, queue, flight, concurrent>>
        \/ /\ tm' = m /\ tempFile' = m
           /\ units' = us /\ wait' = Cardinality(us)
           /\ state' = "READY_TO_UPDATE" /\ entry' = "NONE"
           /\ UNCHANGED <<queue, flight, concurrent, merge>>
        \/ BatchDownload(us, m, m, entry)
    BY <1>8, Prepared
  <2> HIDE DEF m, us
  <2>4. CASE /\ tm' = r
             /\ BeginMerge(r, Empty)
             /\ units' = {} /\ wait' = 0 /\ state' = "NEED_UPDATE"
             /\ UNCHANGED <<entry, queue, flight, concurrent>>
    <3>1. /\ merge'.on /\ merge'.ver = server /\ "manifest" \in merge'.left
          /\ merge' \in [on : BOOLEAN, left : SUBSET (Assets \cup {"manifest"}),
                         listed : SUBSET Assets, ver : {Absent} \cup Versions]
          /\ tempFile' \in Manifest
      BY <1>3, <2>4, BegunMerge
    <3>2. remote' = r
      BY <2>2, <2>4 DEF RemoteIs
    <3>3. TypeOK'
      <4>1. /\ state' \in States /\ entry' \in {"NONE", "CHECK_UPDATE", "DO_UPDATE"}
            /\ wait' \in Int /\ concurrent' \in Int
            /\ units' \subseteq Assets /\ queue' \subseteq Assets /\ flight' \subseteq Assets
            /\ unzipping' \subseteq Assets /\ failed' \subseteq Assets
        BY <1>1, <1>2, <1>8, <2>2, <2>4 DEF States
      <4> QED
        BY <1>3, <1>6, <2>2, <2>4, <3>1, <3>2, <4>1, Zenon DEF IInv, TypeOK
    <3>4. Counts'
      BY <1>2, <1>8, <2>4, <3>1 DEF Counts, Updating, Running
    <3>5. Versioning'
      BY <1>2, <1>3, <1>6, <1>8, <2>4, <3>1, <3>2 DEF IInv, Versioning, Updating, Running
    <3> QED
      BY <3>3, <3>4, <3>5 DEF IInv
  <2>5. CASE /\ tm' = m /\ tempFile' = m
             /\ units' = us /\ wait' = Cardinality(us)
             /\ state' = "READY_TO_UPDATE" /\ entry' = "NONE"
             /\ UNCHANGED <<queue, flight, concurrent, merge>>
    <3>1. /\ remote' \in Manifest /\ remote'.loaded /\ remote'.ver = server
          /\ shared' => tm' = remote'
      BY <1>3, <2>1, <2>2, <2>5 DEF RemoteIs
    <3>2. TypeOK'
      <4>1. /\ state' \in States /\ entry' \in {"NONE", "CHECK_UPDATE", "DO_UPDATE"}
            /\ wait' \in Int /\ concurrent' \in Int
            /\ units' \subseteq Assets /\ queue' \subseteq Assets /\ flight' \subseteq Assets
            /\ unzipping' \subseteq Assets /\ failed' \subseteq Assets
        BY <1>2, <1>8, <2>1, <2>2, <2>5, Sizes DEF States
      <4>2. tm' \in Manifest /\ tempFile' \in Manifest /\ merge' = merge
        BY <2>1, <2>5
      <4> QED
        BY <1>6, <2>2, <3>1, <4>1, <4>2, Zenon DEF IInv, TypeOK
    <3>3. Counts'
      BY <1>2, <1>8, <2>5 DEF Counts, Updating, Running
    <3>4. Versioning'
      BY <1>2, <1>6, <1>8, <2>1, <2>5, <3>1 DEF IInv, Versioning, Updating, Running
    <3> QED
      BY <3>2, <3>3, <3>4 DEF IInv
  <2>6. CASE BatchDownload(us, m, m, entry)
    <3>1. StartsBatch(us, m, m, entry, r)
      BY <1>1, <1>2, <1>3, <1>8, <2>1, <2>2, <2>6 DEF StartsBatch, Running
    <3> QED
      BY <3>1, BatchStep
  <2> QED
    BY <2>3, <2>4, <2>5, <2>6
<1> QED
  BY <1>4, <1>7, <1>8

LEMMA MergeFileStep ==
  ASSUME IInv, NEW f \in Assets \cup {"manifest"}, MergeFile(f)
  PROVE  IInv'
<1>1. /\ f \in merge.left /\ merge' = [merge EXCEPT !.left = @ \ {f}]
      /\ UNCHANGED <<world, tempFile, state, entry, local, manifests, downloads>>
      /\ \/ f = "manifest" /\ cached' = merge.ver /\ UNCHANGED <<stored, temp>>
         \/ /\ f # "manifest" /\ UNCHANGED cached
            /\ stored' = [stored EXCEPT ![f] = temp[f]]
            /\ temp' = [temp EXCEPT ![f] = Absent]
  BY DEF MergeFile
<1>2. merge \in [on : BOOLEAN, left : SUBSET (Assets \cup {"manifest"}),
                 listed : SUBSET Assets, ver : {Absent} \cup Versions]
      /\ stored \in [Assets -> Int] /\ temp \in [Assets -> Int]
      /\ cached \in {Absent} \cup Versions
  BY DEF IInv, TypeOK
<1>3. /\ merge' \in [on : BOOLEAN, left : SUBSET (Assets \cup {"manifest"}),
                     listed : SUBSET Assets, ver : {Absent} \cup Versions]
      /\ merge'.on = merge.on /\ merge'.ver = merge.ver
      /\ merge'.left = merge.left \ {f}
  BY <1>1, <1>2
<1>4. /\ stored' \in [Assets -> Int] /\ temp' \in [Assets -> Int]
      /\ cached' \in {Absent} \cup Versions
  BY <1>1, <1>2 DEF Absent
<1>5. TypeOK'
  BY <1>1, <1>3, <1>4, Zenon DEF IInv, TypeOK, world, manifests, downloads
<1>6. Counts'
  BY <1>1, <1>3 DEF IInv, Counts, Counting, Under, Updating, Running, downloads, manifests,
                    world
<1>7. Versioning'
  <2>1. merge.on /\ merge'.on
    BY <1>1, <1>3 DEF IInv, Versioning
  <2>2. UNCHANGED <<bundle, local, remote, tm, shared, state>>
    BY <1>1 DEF world, manifests
  <2>3. IF "manifest" \notin merge'.left THEN cached' = merge'.ver
        ELSE cached' # Absent => cached' = local'
    BY <1>1, <1>3, <2>1, <2>2 DEF IInv, Versioning
  <2>4. cached' = Absent => local' = bundle'
    <3>1. remote.ver = merge.ver /\ local < merge.ver
      BY <2>1 DEF IInv, Versioning
    <3>2. merge.ver # Absent
      BY <1>2, <3>1, VersionNumbers DEF IInv, TypeOK
    <3> QED
      BY <1>1, <2>2, <3>2 DEF IInv, Versioning
  <2> QED
    BY <1>3, <2>1, <2>2, <2>3, <2>4 DEF IInv, Versioning, Updating, Running
<1> QED
  BY <1>5, <1>6, <1>7 DEF IInv

LEMMA UpdateSucceedStep == ASSUME IInv, UpdateSucceed PROVE IInv'
<1>1. /\ merge.on /\ merge.left = {}
      /\ local' = remote.ver /\ remote' = Blank /\ tm' = Blank /\ shared' = FALSE
      /\ temp' = Empty /\ tempFile' = NoFile
      /\ state' = "UP_TO_DATE" /\ entry' = "NONE" /\ merge' = NoMerge
      /\ UNCHANGED <<world, cached, downloads>>
  BY DEF UpdateSucceed, UpToDate, RemoveTemp
<1>2. stored' \in [Assets -> Int]
  <2>1. PICK drop : stored' = [a \in Assets |-> IF a \in drop THEN Absent ELSE stored[a]]
    BY DEF UpdateSucceed
  <2> QED
    BY <2>1 DEF IInv, TypeOK, Absent
<1>3. /\ remote.ver = merge.ver /\ local < merge.ver /\ cached = merge.ver /\ bundle <= local
  BY <1>1 DEF IInv, Versioning
<1>4. /\ local' \in Versions /\ cached # Absent /\ bundle' <= local'
      /\ local \in Nat /\ bundle \in Nat
  <2>1. /\ local \in Versions /\ bundle \in Versions /\ merge.ver \in {Absent} \cup Versions
        /\ bundle' = bundle /\ local' = merge.ver
    BY <1>1, <1>3 DEF IInv, TypeOK, world
  <2>2. local \in Nat \ {0} /\ bundle \in Nat /\ merge.ver \in Nat
    <3>1. Versions \subseteq Nat \ {0} /\ Absent \in Nat
      BY VersionNumbers
    <3> HIDE DEF Versions
    <3> QED
      BY <2>1, <3>1
  <2>3. merge.ver # Absent
    BY <1>3, <2>2 DEF Absent
  <2> QED
    BY <1>3, <2>1, <2>2, <2>3
<1>5. TypeOK'
  <2>1. /\ NoMerge \in [on : BOOLEAN, left : SUBSET (Assets \cup {"manifest"}),
                        listed : SUBSET Assets, ver : {Absent} \cup Versions]
        /\ Empty \in [Assets -> Int] /\ Blank \in Manifest /\ NoFile \in Manifest
    BY BlankManifests DEF NoMerge, Empty, Absent
  <2>2. /\ state' \in States /\ entry' \in {"NONE", "CHECK_UPDATE", "DO_UPDATE"}
        /\ shared' \in BOOLEAN
    BY <1>1 DEF States
  <2> QED
    BY <1>1, <1>2, <1>4, <2>1, <2>2, Zenon DEF IInv, TypeOK, world, downloads
<1>6. Counts'
  BY <1>1 DEF IInv, Counts, Updating, Running, NoMerge, downloads
<1>7. Versioning'
  BY <1>1, <1>3, <1>4, BlankManifests DEF IInv, Versioning, Updating, Running, NoMerge, world
<1> QED
  BY <1>5, <1>6, <1>7 DEF IInv

\* Restart, with the version it comes back to.
LEMMA Reloaded ==
  ASSUME IInv, Restart
  PROVE  /\ bundle' \in Versions /\ bundle <= bundle' /\ bundle' <= server
         /\ \/ /\ cached # Absent /\ bundle' > cached
               /\ stored' = Empty /\ cached' = Absent /\ local' = bundle'
            \/ /\ cached = Absent
               /\ stored' = stored /\ cached' = Absent /\ local' = bundle'
            \/ /\ cached # Absent /\ bundle' <= cached
               /\ stored' = stored /\ cached' = cached /\ local' = cached
<1>1. PICK b \in Packages \cap (bundle..server),
           disk \in {tempFile, Garbage, Fresh(server)} : bundle' = b /\ Load(b, disk)
  BY DEF Restart
<1>2. /\ bundle \in Nat /\ server \in Nat /\ cached \in Nat /\ b \in Versions
      /\ bundle <= b /\ b <= server /\ b \in Nat
  BY VersionNumbers, AssetsAssumption DEF IInv, TypeOK
<1>3. /\ stored' = (IF Newer(b) THEN Empty ELSE stored)
      /\ cached' = (IF Newer(b) THEN Absent ELSE cached)
      /\ local' = Chosen(b, cached')
  BY <1>1 DEF Load
<1>4. CASE Newer(b)
  BY <1>1, <1>2, <1>3, <1>4 DEF Newer, Chosen
<1>5. CASE ~Newer(b)
  BY <1>1, <1>2, <1>3, <1>5 DEF Newer, Chosen
<1> QED
  BY <1>4, <1>5

LEMMA RestartLater ==
  ASSUME IInv, Restart
  PROVE  local' \in Versions /\ local' \in Nat /\ local <= local'
<1>1. /\ local \in Nat /\ bundle \in Nat /\ cached \in Nat /\ bundle' \in Nat
      /\ merge.ver \in Nat /\ (cached # Absent => cached \in Versions)
      /\ local \in Versions /\ bundle' \in Versions
  <2>1. /\ local \in Versions /\ bundle \in Versions /\ cached \in {Absent} \cup Versions
        /\ merge.ver \in {Absent} \cup Versions
    BY DEF IInv, TypeOK
  <2>2. bundle' \in Versions
    BY Reloaded
  <2>3. Versions \subseteq Nat /\ Absent \in Nat
    BY VersionNumbers
  <2> QED
    BY <2>1, <2>2, <2>3
<1>2. /\ cached = Absent => local = bundle
      /\ cached # Absent => local <= cached
  BY <1>1 DEF IInv, Versioning
<1>3. local' \in Versions /\ local <= local'
  <2>1. CASE cached # Absent /\ bundle' > cached /\ local' = bundle'
    BY <1>1, <1>2, <2>1
  <2>2. CASE cached = Absent /\ local' = bundle'
    <3>1. bundle <= bundle'
      BY Reloaded
    <3> QED
      BY <1>1, <1>2, <2>2, <3>1
  <2>3. CASE cached # Absent /\ local' = cached
    <3>1. local <= cached /\ cached \in Versions
      BY <1>1, <1>2, <2>3
    <3> QED
      BY <2>3, <3>1
  <2> QED
    BY <2>1, <2>2, <2>3, Reloaded, Zenon
<1> QED
  BY <1>3, VersionNumbers

LEMMA RestartStep == ASSUME IInv, Restart PROVE IInv'
<1>1. PICK b \in Packages \cap (bundle..server),
           disk \in {tempFile, Garbage, Fresh(server)} :
        /\ bundle' = b /\ torn' = (torn \/ merge.on) /\ Load(b, disk)
        /\ UNCHANGED <<server, again, maxTasks>>
  BY DEF Restart
<1>2. disk \in Manifest
  <2>1. Fresh(server) \in Manifest
    BY FreshManifests DEF IInv, TypeOK
  <2>2. Garbage \in Manifest /\ tempFile \in Manifest
    BY BlankManifests DEF IInv, TypeOK
  <2> QED
    BY <2>1, <2>2
<1>3. /\ temp' \in {temp, Empty} /\ tempFile' \in Manifest /\ tm' \in Manifest
      /\ remote' = Blank /\ shared' = FALSE
      /\ state' = "UNCHECKED" /\ entry' = "NONE"
      /\ units' = {} /\ queue' = {} /\ flight' = {} /\ unzipping' = {}
      /\ failed' = {} /\ wait' = 0 /\ concurrent' = 0
      /\ merge' = NoMerge
  BY <1>1, <1>2, BlankManifests DEF Load
<1>4. /\ stored' \in {stored, Empty} /\ bundle' \in Versions
      /\ cached' \in {Absent} \cup Versions /\ local' \in Versions
  BY Reloaded DEF IInv, TypeOK
<1>5. TypeOK'
  <2>1. /\ NoMerge \in [on : BOOLEAN, left : SUBSET (Assets \cup {"manifest"}),
                        listed : SUBSET Assets, ver : {Absent} \cup Versions]
        /\ Empty \in [Assets -> Int] /\ Blank \in Manifest
    BY BlankManifests DEF NoMerge, Empty, Absent
  <2>2. /\ state' \in States /\ entry' \in {"NONE", "CHECK_UPDATE", "DO_UPDATE"}
        /\ wait' \in Int /\ concurrent' \in Int
    BY <1>3 DEF States
  <2>3. torn' \in BOOLEAN /\ again' \in BOOLEAN /\ shared' \in BOOLEAN
    BY <1>1, <1>3 DEF IInv, TypeOK
  <2>4. temp' \in [Assets -> Int] /\ stored' \in [Assets -> Int]
    BY <1>3, <1>4, <2>1 DEF IInv, TypeOK
  <2> QED
    BY <1>1, <1>3, <1>4, <2>1, <2>2, <2>3, <2>4, Zenon DEF IInv, TypeOK
<1>6. Counts'
  BY <1>3 DEF Counts, Updating, Running, NoMerge
<1>7. Versioning'
  <2>1. /\ bundle' <= local' /\ (cached' = Absent => local' = bundle')
        /\ (cached' # Absent => cached' = local')
    BY <1>4, Reloaded, VersionNumbers DEF IInv, TypeOK
  <2> QED
    BY <1>3, <2>1, BlankManifests DEF Versioning, Updating, Running, NoMerge
<1> QED
  BY <1>5, <1>6, <1>7 DEF IInv

LEMMA InductiveIInv == IInv /\ [Next]_vars => IInv'
<1> SUFFICES ASSUME IInv, [Next]_vars PROVE IInv'
  OBVIOUS
<1>1. CASE CheckUpdate \/ UpdateFirst \/ Publish
  BY <1>1, CallsStep
<1>2. CASE UpdateReady \/ DownloadFailedAssets
  BY <1>2, ReadyStep
<1>3. CASE VersionDone \/ ManifestFails \/ ManifestDone
  BY <1>3, VersionDoneStep, ManifestFailsStep, ManifestDoneStep
<1>4. CASE \E a \in Assets : UnitError(a) \/ UnitSuccess(a) \/ Unzipped(a)
  BY <1>4, UnitActionStep
<1>5. CASE \E f \in Assets \cup {"manifest"} : MergeFile(f)
  BY <1>5, MergeFileStep
<1>6. CASE UpdateSucceed \/ Restart
  BY <1>6, UpdateSucceedStep, RestartStep
<1>7. CASE UNCHANGED vars
  <2>1. TypeOK'
    BY <1>7, Zenon DEF IInv, TypeOK, vars, world, store, manifests, downloads
  <2>2. Counts'
    BY <1>7 DEF IInv, Counts, Counting, Under, Updating, Running,
                vars, world, manifests, downloads
  <2>3. Versioning'
    BY <1>7, Zenon DEF IInv, Versioning, Updating, Running, vars, world, store, manifests
  <2> QED
    BY <2>1, <2>2, <2>3 DEF IInv
<1> QED
  BY <1>1, <1>2, <1>3, <1>4, <1>5, <1>6, <1>7 DEF Next

LEMMA Inductive == Spec => []IInv
<1> QED
  BY InitStep, InductiveIInv, PTL DEF Spec

\* The count of units is right at every moment of every download, with any
\* number of failures and retries, and no unit is out when the manifests go.
THEOREM UnitsCounted == Spec => []CountsUnits
<1>1. IInv => CountsUnits
  <2> SUFFICES ASSUME IInv PROVE CountsUnits
    OBVIOUS
  <2>1. TypeOK
    BY DEF IInv
  <2>2. Running /\ state = "UPDATING" => Counting
    BY DEF IInv, Counts, Updating
  <2>3. merge.on \/ state = "UP_TO_DATE" => Under = {}
    BY DEF IInv, Counts, Updating, Running, Under
  <2> QED
    BY <2>1, <2>2, <2>3, Zenon DEF CountsUnits, Counting, Under
<1> QED
  BY <1>1, Inductive, PTL

\* No process runs an older version than the one before it did.
THEOREM NeverOlder == Spec => NoDowngrade
<1>1. IInv /\ [Next]_vars => [local' >= local]_vars
  <2> SUFFICES ASSUME IInv, [Next]_vars PROVE local' >= local
    OBVIOUS
  <2>0. /\ local \in Nat /\ bundle \in Nat /\ cached \in Nat
        /\ remote.ver \in Nat /\ merge.ver \in Nat
    <3>1. /\ local \in Versions /\ bundle \in Versions /\ cached \in {Absent} \cup Versions
          /\ remote.ver \in {Absent} \cup Versions /\ merge.ver \in {Absent} \cup Versions
      BY DEF IInv, TypeOK, Manifest
    <3>2. Versions \subseteq Nat /\ Absent \in Nat
      BY VersionNumbers
    <3> QED
      BY <3>1, <3>2
  <2>1. CASE Restart
    BY <2>0, <2>1, RestartLater
  <2>2. CASE UpdateSucceed
    BY <2>0, <2>2 DEF UpdateSucceed, IInv, Versioning
  <2>3. CASE local' = local
    BY <2>0, <2>3
  <2>4. CASE \E f \in Assets \cup {"manifest"} : MergeFile(f)
    BY <2>3, <2>4 DEF MergeFile
  <2>5. CASE \E a \in Assets : UnitError(a) \/ UnitSuccess(a) \/ Unzipped(a)
    BY <2>3, <2>5 DEF UnitError, UnitSuccess, Unzipped, FileError, FileSuccess
  <2> QED
    BY <2>1, <2>2, <2>3, <2>4, <2>5
    DEF Next, Publish, CheckUpdate, UpdateFirst, UpdateReady, DownloadFailedAssets,
        VersionDone, ManifestFails, ManifestDone, vars
<1> QED
  BY <1>1, Inductive, PTL DEF Spec, NoDowngrade
-----------------------------------------------------------------------------
\* What a manifest claims, when it is marked or a file is written.
LEMMA MarkOf ==
  ASSUME NEW m \in Manifest, NEW a \in Assets
  PROVE  /\ a \in Resumed(m) <=> m.mark[a] \notin {"SUCCESSED", "UNMARKED"}
         /\ a \in Marking(m, "SUCCESSED") <=> m.mark[a] = "SUCCESSED"
         /\ a \in Marking(m, "UNMARKED") <=> m.mark[a] = "UNMARKED"
<1>1. m.mark[a] \in Mark
  BY DEF Manifest
<1> QED
  BY <1>1 DEF Mark, Resumed, Marking

LEMMA MarkStarted ==
  ASSUME NEW m \in Manifest, NEW S, NEW a \in Assets
  PROVE  /\ a \in S => Started(m, S).mark[a] = "UNSTARTED"
         /\ a \notin S => Started(m, S).mark[a] = m.mark[a]
<1> DEFINE n == Marked(m, S, "UNSTARTED")
<1>1. n \in Manifest /\ n.mark[a] = IF a \in S THEN "UNSTARTED" ELSE m.mark[a]
  BY MarkedManifests DEF Mark
<1>2. Started(m, S) = [n EXCEPT !.updating = TRUE]
  BY DEF Started
<1> HIDE DEF n
<1>3. Started(m, S).mark[a] = n.mark[a]
  BY <1>1, <1>2 DEF Manifest
<1> QED
  BY <1>1, <1>3

LEMMA StartedUpdates ==
  ASSUME NEW m \in Manifest, NEW S, NEW n, n = Started(m, S)
  PROVE  n.updating = TRUE
BY StartedManifests

LEMMA MarkParsed ==
  ASSUME NEW m \in Manifest, NEW v \in Versions, NEW n, n = ParseFile(m, v),
         NEW a \in Assets
  PROVE  n.mark[a] = "UNMARKED"
BY DEF ParseFile, ParseVersion, Blank, Manifest

LEMMA MarkMarked ==
  ASSUME NEW m \in Manifest, NEW S, NEW k \in Mark, NEW a \in Assets
  PROVE  /\ a \in S => Marked(m, S, k).mark[a] = k
         /\ a \notin S => Marked(m, S, k).mark[a] = m.mark[a]
BY MarkedManifests

LEMMA FieldsOfMarked ==
  ASSUME NEW m \in Manifest, NEW S, NEW k \in Mark, NEW n, n = Marked(m, S, k)
  PROVE  n \in Manifest /\ n.ver = m.ver /\ n.loaded = m.loaded /\ n.updating = m.updating
BY MarkedManifests

LEMMA TruthUnloaded ==
  ASSUME NEW m, ~m.loaded, NEW files, NEW v
  PROVE  Truthful(m, files, v)
BY DEF Truthful

LEMMA TruthFresh ==
  ASSUME NEW w \in Versions, NEW files, NEW v
  PROVE  Truthful(Fresh(w), files, v)
<1>1. ~Fresh(w).updating /\ \A a \in Assets : Fresh(w).mark[a] = "UNMARKED"
  BY FreshManifests
<1> QED
  BY <1>1 DEF Truthful, Marking

LEMMA TruthStarted ==
  ASSUME NEW r \in Manifest, NEW v, \A a \in Assets : r.mark[a] = "UNMARKED"
  PROVE  /\ Truthful(Started(r, ToDownload(v, r.ver)), Empty, v)
         /\ Resumed(Started(r, ToDownload(v, r.ver))) = ToDownload(v, r.ver)
<1> DEFINE us == ToDownload(v, r.ver)
           m == Started(r, us)
<1>1. /\ m \in Manifest /\ m.ver = r.ver /\ m.updating = TRUE
      /\ \A a \in Assets : m.mark[a] = IF a \in us THEN "UNSTARTED" ELSE r.mark[a]
  <2> HIDE DEF us
  <2>1. m \in Manifest /\ m.ver = r.ver /\ m.updating = TRUE
    BY StartedManifests
  <2>2. ASSUME NEW a \in Assets PROVE m.mark[a] = IF a \in us THEN "UNSTARTED" ELSE r.mark[a]
    <3> HIDE DEF m
    <3>1. a \in us => m.mark[a] = "UNSTARTED"
      BY MarkStarted DEF m
    <3>2. a \notin us => m.mark[a] = r.mark[a]
      BY MarkStarted DEF m
    <3> QED
      BY <3>1, <3>2
  <2> QED
    BY <2>1, <2>2
<1>2. us \subseteq Assets
  BY DEF ToDownload, DiffAt
<1> HIDE DEF m
<1>3. Marking(m, "SUCCESSED") = {} /\ \A a \in Marking(m, "UNMARKED") : a \notin us
  BY <1>1 DEF Marking
<1>4. Truthful(m, Empty, v)
  BY <1>1, <1>3 DEF Truthful, Empty, Marking
<1>5. Resumed(m) = us
  BY <1>1, <1>2 DEF Resumed
<1> QED
  BY <1>4, <1>5 DEF m

\* Units that are handed out were to be resumed before and are so after.
LEMMA TruthHanded ==
  ASSUME NEW m \in Manifest, NEW now \in SUBSET Resumed(m), NEW files, NEW v,
         Truthful(m, files, v)
  PROVE  /\ Truthful(Marked(m, now, "DOWNLOADING"), files, v)
         /\ Resumed(Marked(m, now, "DOWNLOADING")) = Resumed(m)
         /\ Marking(Marked(m, now, "DOWNLOADING"), "UNMARKED") = Marking(m, "UNMARKED")
         /\ Marking(Marked(m, now, "DOWNLOADING"), "SUCCESSED") = Marking(m, "SUCCESSED")
<1> DEFINE n == Marked(m, now, "DOWNLOADING")
<1>1. /\ n \in Manifest /\ n.ver = m.ver /\ n.loaded = m.loaded /\ n.updating = m.updating
      /\ \A a \in Assets : n.mark[a] = IF a \in now THEN "DOWNLOADING" ELSE m.mark[a]
  BY MarkedManifests DEF Mark
<1> HIDE DEF n
<1>2. \A a \in now : m.mark[a] \in {"UNSTARTED", "DOWNLOADING"}
  BY DEF Resumed
<1>3. /\ Marking(n, "UNMARKED") = Marking(m, "UNMARKED")
      /\ Marking(n, "SUCCESSED") = Marking(m, "SUCCESSED")
  BY <1>1, <1>2 DEF Marking
<1>4. Resumed(n) = Resumed(m)
  BY <1>1, <1>2 DEF Resumed
<1>5. Truthful(n, files, v)
  BY <1>1, <1>3 DEF Truthful
<1> QED
  BY <1>3, <1>4, <1>5 DEF n

\* A file of a unit that is to be resumed may be anything.
LEMMA TruthWritten ==
  ASSUME NEW m \in Manifest, NEW a \in Resumed(m), NEW files \in [Assets -> Int], NEW v,
         NEW file, Truthful(m, files, v)
  PROVE  Truthful(m, [files EXCEPT ![a] = file], v)
<1> DEFINE new == [files EXCEPT ![a] = file]
<1>1. a \notin Marking(m, "SUCCESSED") /\ a \notin Marking(m, "UNMARKED")
  BY DEF Resumed, Marking
<1>2. \A b \in Assets \ {a} : new[b] = files[b]
  OBVIOUS
<1>3. /\ \A b \in Marking(m, "SUCCESSED") : new[b] = files[b]
      /\ \A b \in Marking(m, "UNMARKED") : new[b] = files[b]
  BY <1>1, <1>2 DEF Marking
<1> HIDE DEF new
<1>4. Truthful(m, new, v)
  BY <1>3 DEF Truthful
<1> QED
  BY <1>4 DEF new

LEMMA TruthFailed ==
  ASSUME NEW m \in Manifest, NEW a \in Resumed(m), NEW files \in [Assets -> Int], NEW v,
         NEW file, Truthful(m, files, v)
  PROVE  /\ Truthful(Marked(m, {a}, "UNSTARTED"), [files EXCEPT ![a] = file], v)
         /\ Resumed(Marked(m, {a}, "UNSTARTED")) = Resumed(m)
         /\ Marking(Marked(m, {a}, "UNSTARTED"), "UNMARKED") = Marking(m, "UNMARKED")
         /\ Marking(Marked(m, {a}, "UNSTARTED"), "SUCCESSED") = Marking(m, "SUCCESSED")
<1> DEFINE n == Marked(m, {a}, "UNSTARTED")
           new == [files EXCEPT ![a] = file]
<1>1. /\ n \in Manifest /\ n.ver = m.ver /\ n.loaded = m.loaded /\ n.updating = m.updating
      /\ \A b \in Assets : n.mark[b] = IF b \in {a} THEN "UNSTARTED" ELSE m.mark[b]
  BY MarkedManifests DEF Mark
<1>2. m.mark[a] \in {"UNSTARTED", "DOWNLOADING"}
  BY DEF Resumed
<1>3. Truthful(m, new, v)
  BY TruthWritten
<1> HIDE DEF n, new
<1>4. /\ Marking(n, "UNMARKED") = Marking(m, "UNMARKED")
      /\ Marking(n, "SUCCESSED") = Marking(m, "SUCCESSED")
  BY <1>1, <1>2 DEF Marking
<1>5. Resumed(n) = Resumed(m)
  BY <1>1, <1>2 DEF Resumed
<1>6. Truthful(n, new, v)
  BY <1>1, <1>3, <1>4 DEF Truthful
<1> QED
  BY <1>4, <1>5, <1>6 DEF n, new

LEMMA TruthStored ==
  ASSUME NEW m \in Manifest, NEW a \in Resumed(m), NEW files \in [Assets -> Int], NEW v,
         m.updating, Truthful(m, files, v)
  PROVE  /\ Truthful(Marked(m, {a}, "SUCCESSED"),
                     [files EXCEPT ![a] = Content[m.ver][a]], v)
         /\ Resumed(Marked(m, {a}, "SUCCESSED")) = Resumed(m) \ {a}
         /\ Marking(Marked(m, {a}, "SUCCESSED"), "UNMARKED") = Marking(m, "UNMARKED")
         /\ Marking(Marked(m, {a}, "SUCCESSED"), "SUCCESSED") =
              Marking(m, "SUCCESSED") \cup {a}
<1> DEFINE n == Marked(m, {a}, "SUCCESSED")
           new == [files EXCEPT ![a] = Content[m.ver][a]]
<1>1. /\ n \in Manifest /\ n.ver = m.ver /\ n.loaded = m.loaded /\ n.updating = m.updating
      /\ \A b \in Assets : n.mark[b] = IF b \in {a} THEN "SUCCESSED" ELSE m.mark[b]
  <2>1. n \in Manifest /\ n.ver = m.ver /\ n.loaded = m.loaded /\ n.updating = m.updating
    BY FieldsOfMarked DEF Mark
  <2>2. ASSUME NEW b \in Assets
        PROVE  n.mark[b] = IF b \in {a} THEN "SUCCESSED" ELSE m.mark[b]
    <3> HIDE DEF n
    <3>1. b \in {a} => n.mark[b] = "SUCCESSED"
      BY MarkMarked DEF Mark, n
    <3>2. b \notin {a} => n.mark[b] = m.mark[b]
      BY MarkMarked DEF Mark, n
    <3> QED
      BY <3>1, <3>2
  <2> QED
    BY <2>1, <2>2
<1>2. m.mark[a] \in {"UNSTARTED", "DOWNLOADING"} /\ a \in Assets
  BY DEF Resumed
<1>3. Truthful(m, new, v) /\ new[a] = Content[m.ver][a]
  BY <1>2, TruthWritten
<1> HIDE DEF n, new
<1>4. /\ Marking(n, "UNMARKED") = Marking(m, "UNMARKED")
      /\ Marking(n, "SUCCESSED") = Marking(m, "SUCCESSED") \cup {a}
  BY <1>1, <1>2 DEF Marking
<1>5. Resumed(n) = Resumed(m) \ {a}
  BY <1>1, <1>2 DEF Resumed
<1>6. Truthful(n, new, v)
  BY <1>1, <1>3, <1>4 DEF Truthful
<1> QED
  BY <1>4, <1>5, <1>6 DEF n, new

\* A later package does not need what an earlier one would not have.
LEMMA TruthLater ==
  ASSUME NEW m \in Manifest, NEW files, NEW u \in Versions,
         NEW v \in Versions, u <= v, v = u \/ v \in Packages, Truthful(m, files, u)
  PROVE  Truthful(m, files, v)
<1>1. ASSUME NEW a \in Assets, Steady(a), v < m.ver, a \in ToDownload(v, m.ver)
      PROVE  u < m.ver /\ a \in ToDownload(u, m.ver)
  <2>1. m.ver \in Versions /\ m.ver \in Nat /\ u \in Nat /\ v \in Nat
    <3>1. u \in Nat \ {0} /\ v \in Nat \ {0} /\ m.ver \in {Absent} \cup Versions
      BY VersionNumbers DEF Manifest
    <3>2. m.ver # Absent
      BY <1>1, <3>1 DEF Absent
    <3> QED
      BY <3>1, <3>2, VersionNumbers
  <2>2. Content[m.ver][a] # Absent /\ Content[v][a] # Content[m.ver][a]
    BY <1>1 DEF ToDownload, DiffAt
  <2>3. Content[u][a] # Content[m.ver][a]
    BY <1>1, <2>1, <2>2 DEF Steady
  <2> QED
    BY <1>1, <2>1, <2>2, <2>3 DEF ToDownload, DiffAt
<1>2. \A a \in Marking(m, "UNMARKED") : a \in Assets
  BY DEF Marking
<1> QED
  BY <1>1, <1>2 DEF Truthful
-----------------------------------------------------------------------------
\* The merge begins with all that was to be downloaded, and nothing else.
LEMMA MergeBegins ==
  ASSUME IInv', FInv, Running, UNCHANGED <<world, store, local>>,
         NEW m \in Manifest, NEW files \in [Assets -> Int], BeginMerge(m, files),
         temp' = files, Truthful(m, files, local),
         m.loaded, m.updating, local < m.ver, Resumed(m) = {}
  PROVE  Merging' /\ Installed'
<1>1. /\ merge'.on /\ merge'.ver = m.ver /\ tempFile' = NoFile
      /\ merge'.listed = {a \in Assets : files[a] # Absent}
      /\ merge'.left = merge'.listed \cup {"manifest"}
  BY BegunMerge
<1>2. ASSUME NEW a \in Assets
      PROVE  \/ files[a] = Absent /\ (Steady(a) => a \notin ToDownload(local, m.ver))
             \/ files[a] = Content[m.ver][a]
  <2>1. a \in Marking(m, "UNMARKED") \/ a \in Marking(m, "SUCCESSED")
    BY MarkOf
  <2> QED
    BY <2>1 DEF Truthful
<1>3. \A a \in ToDownload(local', merge'.ver) : Steady(a) => a \in merge'.listed
  <2>1. ASSUME NEW a \in ToDownload(local, m.ver), Steady(a)
        PROVE  a \in Assets /\ files[a] # Absent
    <3>1. a \in Assets /\ Content[m.ver][a] # Absent
      BY DEF ToDownload, DiffAt
    <3> QED
      BY <1>2, <2>1, <3>1
  <2> QED
    BY <1>1, <2>1
<1>4. ASSUME NEW a \in merge'.listed
      PROVE  /\ Content[merge'.ver][a] # Absent
             /\ a \in merge'.left /\ Content[merge'.ver][a] = temp'[a]
  <2>1. a \in Assets /\ files[a] # Absent
    BY <1>1
  <2> QED
    BY <1>1, <1>2, <2>1
<1>5. Merging'
  BY <1>1, <1>3, <1>4 DEF Merging
<1>6. UNCHANGED <<stored, bundle, torn, cached, local>>
  BY DEF world, store
<1>7. Installed'
  BY <1>1, <1>6 DEF FInv, Installed, InPlace, Running
<1> QED
  BY <1>5, <1>7

\* What QueueDownload makes of a temporary manifest m that has its work marked.
Works(q, m, disk, r) ==
  /\ m.loaded /\ m.updating /\ local < m.ver
  /\ Truthful(m, temp', local) /\ Truthful(disk, temp', local) /\ Behind(disk, m)
  /\ Under' \subseteq Resumed(m) /\ q \subseteq Resumed(m)
  /\ Resumed(m) = Under' \cup failed'
  /\ UNCHANGED <<world, store, local>>
  /\ RemoteIs(r) /\ r.loaded /\ (~shared' => ~r.updating)

LEMMA WorkStep ==
  ASSUME IInv', FInv, Running, NEW q, NEW c, NEW m \in Manifest, NEW disk \in Manifest,
         NEW e, NEW r \in Manifest, Queued(q, c, m, disk, e), Works(q, m, disk, r)
  PROVE  FInv'
<1>1. /\ tm' \in Manifest /\ tm'.loaded = m.loaded
      /\ state' \in {"UPDATING", "FAIL_TO_UPDATE"}
  <2>1. state' \in {"UPDATING", "FAIL_TO_UPDATE"}
    BY DEF Queued, Finishing, Handing
  <2>2. tm' \in Manifest /\ tm'.loaded = m.loaded
    BY QueuedManifest
  <2> QED
    BY <2>1, <2>2
<1>2. /\ UNCHANGED <<stored, bundle, torn, cached, local>>
      /\ local' = local
  BY DEF Works, world, store
<1>3. remote'.loaded /\ (~shared' => ~remote'.updating)
  BY <1>1 DEF Works, RemoteIs
<1>4. CASE Finishing(m, e) /\ failed' # {}
  <2>1. tm' = m /\ tempFile' = m /\ merge' = merge /\ state' = "FAIL_TO_UPDATE"
    BY <1>4 DEF Finishing
  <2>2. Under' = {}
    BY <2>1 DEF IInv, Counts, Updating, Under
  <2>3. ~Updating' /\ Running' /\ ~merge'.on
    BY <2>1 DEF Updating, Running
  <2>4. Manifests'
    BY <1>2, <1>3, <2>1 DEF Manifests, Works
  <2>5. Unfinished'
    BY <2>1, <2>2, <2>3 DEF Unfinished, Works
  <2>6. Merging' /\ Installed'
    BY <1>2, <2>1, <2>3 DEF Merging, FInv, Installed, InPlace, Running
  <2> QED
    BY <2>4, <2>5, <2>6 DEF FInv
<1>5. CASE Finishing(m, e) /\ failed' = {}
  <2>1. BeginMerge(m, temp') /\ tm' = m /\ state' = "UPDATING"
    BY <1>5 DEF Finishing
  <2>2. merge'.on /\ tempFile' = NoFile
    BY <2>1, BegunMerge
  <2>3. ~Updating' /\ ~Running'
    BY <2>2 DEF Updating, Running
  <2>4. Under' = {}
    BY <2>3 DEF IInv, Counts, Under
  <2>5. Resumed(m) = {}
    BY <1>5, <2>4 DEF Works
  <2>6. temp' \in [Assets -> Int]
    BY DEF IInv, TypeOK
  <2>7. PICK files \in [Assets -> Int] : files = temp'
    BY <2>6
  <2>8. BeginMerge(m, files) /\ Truthful(m, files, local)
    BY <2>1, <2>7 DEF Works
  <2>9. Merging' /\ Installed'
    BY <2>5, <2>7, <2>8, MergeBegins DEF Works
  <2>10. Manifests'
    BY <1>3, <2>1, <2>2, <2>3, BlankManifests, TruthUnloaded DEF Manifests
  <2>11. Unfinished'
    BY <2>1, <2>3 DEF Unfinished
  <2> QED
    BY <2>9, <2>10, <2>11 DEF FInv
<1>6. CASE \E now \in SUBSET q : Handing(now, q, c, m, disk, e)
  <2>1. PICK now \in SUBSET q : Handing(now, q, c, m, disk, e)
    BY <1>6
  <2> DEFINE n == Marked(m, now, "DOWNLOADING")
  <2>2. tm' = n /\ tempFile' \in {disk, n} /\ merge' = merge /\ state' = "UPDATING"
    BY <2>1 DEF Handing
  <2>3. now \in SUBSET Resumed(m) /\ Truthful(m, temp', local)
    BY DEF Works
  <2>4. /\ Truthful(n, temp', local) /\ Resumed(n) = Resumed(m)
        /\ Marking(n, "UNMARKED") = Marking(m, "UNMARKED")
        /\ Marking(n, "SUCCESSED") = Marking(m, "SUCCESSED")
    BY <2>3, TruthHanded
  <2>5. n.loaded = m.loaded /\ n.ver = m.ver /\ n.updating = m.updating
    BY MarkedManifests DEF Mark
  <2> HIDE DEF n
  <2>6. /\ Behind(tempFile', tm') /\ Truthful(tempFile', temp', local)
    BY <2>2, <2>4, <2>5 DEF Works, Behind
  <2>7. Updating' /\ Running' /\ ~merge'.on
    BY <2>2 DEF Updating, Running
  <2>8. Manifests'
    BY <1>2, <1>3, <2>2, <2>4, <2>5, <2>6 DEF Manifests, Works
  <2>9. Unfinished'
    BY <2>2, <2>4, <2>6 DEF Unfinished, Works
  <2>10. Merging' /\ Installed'
    BY <1>2, <2>2, <2>7 DEF Merging, FInv, Installed, InPlace, Running
  <2> QED
    BY <2>8, <2>9, <2>10 DEF FInv
<1> QED
  BY <1>4, <1>5, <1>6 DEF Queued, Finishing
-----------------------------------------------------------------------------
\* While units are out, both manifests know of them.
LEMMA UnitKnown ==
  ASSUME IInv, FInv, NEW a \in flight \cup unzipping
  PROVE  /\ tm \in Manifest /\ tempFile \in Manifest /\ remote \in Manifest
         /\ temp \in [Assets -> Int] /\ a \in Assets /\ a \notin queue
         /\ Truthful(tm, temp, local) /\ Truthful(tempFile, temp, local)
         /\ Behind(tempFile, tm) /\ Resumed(tm) = Under \cup failed
         /\ a \in Resumed(tm) /\ a \in Resumed(tempFile)
         /\ tm.loaded /\ tm.updating /\ tm.ver = remote.ver /\ local < tm.ver
         /\ remote.loaded /\ (~shared => ~remote.updating) /\ Running
<1>1. Updating /\ Counting /\ ~merge.on /\ state = "UPDATING" /\ a \in Assets
  BY UnitOut
<1>2. /\ tm \in Manifest /\ tempFile \in Manifest /\ remote \in Manifest
      /\ temp \in [Assets -> Int]
  BY DEF IInv, TypeOK
<1>3. remote.loaded /\ tm.ver = remote.ver /\ local < tm.ver /\ Running
  BY <1>1 DEF IInv, Versioning, Running
<1>4. /\ Truthful(tm, temp, local) /\ Truthful(tempFile, temp, local)
      /\ tm.loaded /\ tm.updating /\ (~shared => ~remote.updating)
  BY <1>1, <1>3 DEF FInv, Manifests
<1>5. Behind(tempFile, tm) /\ Resumed(tm) = Under \cup failed
  BY <1>1 DEF FInv, Unfinished
<1>6. a \in Resumed(tm) /\ a \notin queue
  BY <1>1, <1>5 DEF Under, Counting
<1>7. a \in Resumed(tempFile)
  <2>1. a \notin Marking(tm, "SUCCESSED") /\ a \notin Marking(tm, "UNMARKED")
    BY <1>6 DEF Resumed, Marking
  <2>2. a \notin Marking(tempFile, "SUCCESSED") /\ a \notin Marking(tempFile, "UNMARKED")
    BY <1>5, <2>1 DEF Behind
  <2> QED
    BY <1>1, <1>2, <2>2, MarkOf
<1> QED
  BY <1>1, <1>2, <1>3, <1>4, <1>5, <1>6, <1>7

\* The unit a ends, with the mark the manifest m has for it and the file it left.
Ended(a, m, file, mark) ==
  /\ m = Marked(tm, {a}, mark)
  /\ temp' = [temp EXCEPT ![a] = file]
  /\ \/ mark = "UNSTARTED" /\ failed' = failed \cup {a}
     \/ mark = "SUCCESSED" /\ failed' = failed \ {a} /\ file = Content[tm.ver][a]

LEMMA UnitEndFiles ==
  ASSUME IInv, FInv, IInv', NEW a, NEW m, NEW e, EndsUnit(a, m, e),
         NEW file, NEW mark, Ended(a, m, file, mark)
  PROVE  FInv'
<1>0. a \in flight \cup unzipping
  BY DEF EndsUnit
<1>1. /\ tm \in Manifest /\ tempFile \in Manifest /\ remote \in Manifest
      /\ temp \in [Assets -> Int] /\ a \in Assets /\ a \notin queue
      /\ Truthful(tm, temp, local) /\ Truthful(tempFile, temp, local)
      /\ Behind(tempFile, tm) /\ Resumed(tm) = Under \cup failed
      /\ a \in Resumed(tm) /\ a \in Resumed(tempFile)
      /\ tm.loaded /\ tm.updating /\ tm.ver = remote.ver /\ local < tm.ver
      /\ remote.loaded /\ (~shared => ~remote.updating) /\ Running
  BY <1>0, UnitKnown
<1>2. temp' = [temp EXCEPT ![a] = file] /\ Truthful(tempFile, temp', local)
  BY <1>1, TruthWritten DEF Ended
<1>3. mark \in Mark /\ m = Marked(tm, {a}, mark)
  BY DEF Ended, Mark
<1>4. m \in Manifest /\ m.ver = tm.ver /\ m.loaded = tm.loaded /\ m.updating = tm.updating
  BY <1>1, <1>3, FieldsOfMarked
<1>5. /\ Truthful(m, temp', local) /\ Marking(m, "UNMARKED") = Marking(tm, "UNMARKED")
      /\ Marking(tm, "SUCCESSED") \subseteq Marking(m, "SUCCESSED")
      /\ \/ Resumed(m) = Resumed(tm) /\ failed' = failed \cup {a}
         \/ Resumed(m) = Resumed(tm) \ {a} /\ failed' = failed \ {a}
  <2>1. CASE mark = "UNSTARTED" /\ failed' = failed \cup {a}
    BY <1>1, <1>2, <1>3, <2>1, TruthFailed
  <2>2. CASE mark = "SUCCESSED" /\ failed' = failed \ {a} /\ file = Content[tm.ver][a]
    <3>1. /\ m = Marked(tm, {a}, "SUCCESSED")
          /\ temp' = [temp EXCEPT ![a] = Content[tm.ver][a]]
      BY <1>2, <1>3, <2>2
    <3>2. Truthful(m, temp', local) /\ Resumed(m) = Resumed(tm) \ {a}
      BY <1>1, <3>1, TruthStored
    <3>3. /\ Marking(m, "UNMARKED") = Marking(tm, "UNMARKED")
          /\ Marking(m, "SUCCESSED") = Marking(tm, "SUCCESSED") \cup {a}
      BY <1>1, <3>1, TruthStored
    <3> QED
      BY <2>2, <3>2, <3>3
  <2> QED
    BY <2>1, <2>2 DEF Ended
<1>6. Behind(tempFile, m)
  BY <1>1, <1>4, <1>5 DEF Behind
<1>7. PICK q \in SUBSET Assets, c \in Nat :
        q = queue /\ Queued(q, c, m, tempFile, e)
  <2>1. /\ concurrent - 1 \in Nat /\ wait' = Cardinality(queue) + (concurrent - 1)
    BY <1>0, RestOut DEF EndsUnit
  <2>2. /\ queue \in SUBSET Assets /\ maxTasks \in 1..MaxConcurrent
        /\ QueueDownload(queue, concurrent - 1, m, tempFile, e)
    BY DEF IInv, TypeOK, EndsUnit
  <2> QED
    BY <2>1, <2>2, QueueSteps
<1>8. Under' = Under \ {a}
  <2>1. queue' \subseteq queue
    BY <1>7 DEF Queued, Finishing, Handing
  <2>2. unzipping' = unzipping \ {a} /\ flight' = (flight \ {a}) \cup (queue \ queue')
    BY DEF EndsUnit
  <2> QED
    BY <1>1, <2>1, <2>2 DEF Under
<1>9. Under' \subseteq Resumed(m) /\ q \subseteq Resumed(m) /\ Resumed(m) = Under' \cup failed'
  BY <1>1, <1>5, <1>7, <1>8 DEF Under
<1>10. PICK r \in Manifest, disk \in Manifest : r = remote /\ disk = tempFile
  BY <1>1
<1>11. Works(q, m, disk, r)
  <2>1. UNCHANGED <<world, store, local, shared>> /\ RemoteIs(r)
    BY <1>10 DEF EndsUnit
  <2> QED
    BY <1>1, <1>2, <1>4, <1>5, <1>6, <1>9, <1>10, <2>1 DEF Works
<1> QED
  BY <1>1, <1>4, <1>7, <1>10, <1>11, WorkStep

LEMMA UnitActionFiles ==
  ASSUME IInv, FInv, IInv', NEW a \in Assets, UnitError(a) \/ UnitSuccess(a) \/ Unzipped(a)
  PROVE  FInv'
<1>0. ASSUME a \in flight \cup unzipping
      PROVE  /\ tm \in Manifest /\ flight \cap unzipping = {} /\ tm.ver = remote.ver
             /\ entry \in {"NONE", "CHECK_UPDATE", "DO_UPDATE"}
  BY <1>0, UnitKnown, UnitOut DEF Counting, IInv, TypeOK
<1>1. ASSUME NEW file, FileError(a, file), a \in flight \cup unzipping,
             unzipping' = unzipping \ {a},
             flight' = (flight \ {a}) \cup (queue \ queue')
      PROVE  FInv'
  <2> DEFINE m == Marked(tm, {a}, "UNSTARTED")
  <2>1. tm \in Manifest
    BY <1>0, <1>1
  <2>2. /\ m \in Manifest /\ m.ver = tm.ver /\ m.loaded = tm.loaded
        /\ m.mark[a] # "SUCCESSED"
        /\ \A b \in Assets \ {a} : m.mark[b] = tm.mark[b]
    BY <2>1, MarkedManifests DEF Mark
  <2>3. m = Marked(tm, {a}, "UNSTARTED")
    OBVIOUS
  <2> HIDE DEF m
  <2>4. /\ wait' = wait - 1 /\ failed' = failed \cup {a}
        /\ temp' = [temp EXCEPT ![a] = file]
        /\ UNCHANGED <<world, store, local, shared, units>>
        /\ QueueDownload(queue, concurrent - 1, m, tempFile, "NONE")
        /\ RemoteIs(remote)
    BY <1>1, <2>3 DEF FileError, Recorded
  <2>5. temp' \in [Assets -> Int]
    BY DEF IInv, TypeOK
  <2>6. EndsUnit(a, m, "NONE")
    BY <1>1, <2>2, <2>4, <2>5 DEF EndsUnit
  <2>7. Ended(a, m, file, "UNSTARTED")
    BY <2>3, <2>4 DEF Ended
  <2> QED
    BY <2>6, <2>7, UnitEndFiles
<1>2. ASSUME FileSuccess(a), a \in flight \cup unzipping,
             unzipping' = unzipping \ {a},
             flight' = (flight \ {a}) \cup (queue \ queue')
      PROVE  FInv'
  <2> DEFINE m == Marked(tm, {a}, "SUCCESSED")
  <2>1. tm \in Manifest /\ tm.ver = remote.ver
        /\ entry \in {"NONE", "CHECK_UPDATE", "DO_UPDATE"}
    BY <1>0, <1>2
  <2>2. /\ m \in Manifest /\ m.ver = tm.ver /\ m.loaded = tm.loaded
        /\ m.mark[a] = "SUCCESSED"
        /\ \A b \in Assets \ {a} : m.mark[b] = tm.mark[b]
    BY <2>1, MarkedManifests DEF Mark
  <2>3. m = Marked(tm, {a}, "SUCCESSED")
    OBVIOUS
  <2> HIDE DEF m
  <2>4. /\ wait' = wait - 1 /\ failed' = failed \ {a}
        /\ temp' = [temp EXCEPT ![a] = Content[remote.ver][a]]
        /\ UNCHANGED <<world, store, local, shared, units>>
        /\ QueueDownload(queue, concurrent - 1, m, tempFile, entry)
        /\ RemoteIs(remote)
    BY <1>2, <2>3 DEF FileSuccess
  <2>5. temp' \in [Assets -> Int]
    BY DEF IInv, TypeOK
  <2>6. EndsUnit(a, m, entry)
    BY <1>2, <2>1, <2>2, <2>4, <2>5 DEF EndsUnit
  <2>7. Ended(a, m, Content[remote.ver][a], "SUCCESSED")
    BY <2>1, <2>3, <2>4 DEF Ended
  <2> QED
    BY <2>6, <2>7, UnitEndFiles
<1>3. CASE UnitError(a)
  <2>1. /\ a \in flight /\ unzipping' = unzipping
        /\ flight' = (flight \ {a}) \cup (queue \ queue')
    BY <1>3 DEF UnitError
  <2>2. unzipping' = unzipping \ {a}
    BY <1>0, <2>1
  <2>3. PICK file : FileError(a, file)
    BY <1>3 DEF UnitError
  <2> QED
    BY <1>1, <2>1, <2>2, <2>3
<1>4. CASE UnitSuccess(a) /\ a \notin Compressed
  <2>1. /\ a \in flight /\ unzipping' = unzipping /\ FileSuccess(a)
        /\ flight' = (flight \ {a}) \cup (queue \ queue')
    BY <1>4 DEF UnitSuccess
  <2>2. unzipping' = unzipping \ {a}
    BY <1>0, <2>1
  <2> QED
    BY <1>2, <2>1, <2>2
<1>5. CASE UnitSuccess(a) /\ a \in Compressed
  <2>1. /\ a \in flight
        /\ unzipping' = unzipping \cup {a} /\ flight' = flight \ {a}
        /\ UNCHANGED <<world, store, temp, tempFile, state, entry, local,
                 manifests, units, queue, failed, wait, concurrent, merge>>
    BY <1>5 DEF UnitSuccess
  <2>2. Under' = Under
    BY <2>1 DEF Under
  <2>3. UNCHANGED <<bundle, torn, stored, cached, remote, tm, shared>>
    BY <2>1 DEF world, store, manifests
  <2>4. Manifests' /\ Merging' /\ Installed'
    BY <2>1, <2>3 DEF FInv, Manifests, Merging, Installed, InPlace, Running
  <2>5. Unfinished'
    BY <2>1, <2>2, <2>3 DEF FInv, Unfinished, Updating, Running
  <2> QED
    BY <2>4, <2>5 DEF FInv
<1>6. CASE Unzipped(a)
  <2>1. /\ a \in unzipping /\ unzipping' = unzipping \ {a}
        /\ flight' = flight \cup (queue \ queue')
        /\ FileSuccess(a) \/ FileError(a, Absent)
    BY <1>6 DEF Unzipped
  <2>2. flight' = (flight \ {a}) \cup (queue \ queue')
    BY <1>0, <2>1
  <2> QED
    BY <1>1, <1>2, <2>1, <2>2
<1> QED
  BY <1>3, <1>4, <1>5, <1>6
-----------------------------------------------------------------------------
LEMMA InitFiles == Init => FInv
<1> SUFFICES ASSUME Init PROVE FInv
  OBVIOUS
<1>1. /\ tempFile = NoFile /\ tm = Blank /\ remote = Blank /\ shared = FALSE
      /\ merge.on = FALSE /\ state = "UNCHECKED"
      /\ stored = Empty /\ bundle = 1 /\ local = 1
  BY DEF Init, NoMerge
<1>2. Manifests
  <2>1. ~tempFile.loaded /\ ~tm.loaded /\ ~remote.loaded /\ ~remote.updating
    BY <1>1, BlankManifests
  <2>2. Truthful(tempFile, temp, local) /\ Truthful(tm, temp, local)
    BY <2>1, TruthUnloaded
  <2> QED
    BY <1>1, <2>1, <2>2 DEF Manifests
<1>3. Unfinished /\ Merging
  BY <1>1, BlankManifests DEF Unfinished, Updating, Merging
<1>4. Installed
  BY <1>1 DEF Installed, InPlace, Empty, Absent
<1> QED
  BY <1>2, <1>3, <1>4 DEF FInv

\* A check or an update leaves the temporary manifest alone.
LEMMA CallsFiles ==
  ASSUME ~again', IInv, FInv, CheckUpdate \/ UpdateFirst \/ Publish
  PROVE  FInv'
<1>1. /\ UNCHANGED <<bundle, torn, stored, cached, temp, tempFile, local,
                     remote, tm, shared, queue, flight, unzipping, units, failed, merge>>
  BY DEF CheckUpdate, UpdateFirst, Publish, world, store, manifests, downloads
<1>2. Under' = Under
  BY <1>1 DEF Under
<1>3. Merging' /\ Installed'
  BY <1>1 DEF FInv, Merging, Installed, InPlace, Running
<1>4. \/ state' = state
      \/ /\ Running /\ state \in {"UNCHECKED", "FAIL_TO_UPDATE"} /\ ~shared
         /\ state' \in {"DOWNLOADING_VERSION", "DOWNLOADING_MANIFEST"}
  <2>1. Running /\ state = "READY_TO_UPDATE" => remote.loaded
    BY DEF IInv, Versioning
  <2>2. Running /\ shared => remote.loaded /\ state # "UNCHECKED"
    BY DEF FInv, Manifests
  <2>3. CASE CheckUpdate
    BY <2>2, <2>3 DEF CheckUpdate
  <2>4. CASE UpdateFirst
    BY <2>1, <2>2, <2>4 DEF UpdateFirst
  <2>5. CASE Publish
    BY <2>5 DEF Publish
  <2> QED
    BY <2>3, <2>4, <2>5
<1>5. CASE state' = state
  BY <1>1, <1>2, <1>3, <1>5 DEF FInv, Manifests, Unfinished, Updating, Running
<1>6. CASE /\ Running /\ state \in {"UNCHECKED", "FAIL_TO_UPDATE"} /\ ~shared
           /\ state' \in {"DOWNLOADING_VERSION", "DOWNLOADING_MANIFEST"}
  <2>1. Manifests'
    BY <1>1, <1>6 DEF FInv, Manifests, Running
  <2>2. state = "UNCHECKED" => ~remote.loaded
    BY DEF FInv, Manifests
  <2>3. Unfinished'
    BY <1>1, <1>6, <2>2 DEF FInv, Unfinished, Updating, Running
  <2> QED
    BY <1>3, <2>1, <2>3 DEF FInv
<1> QED
  BY <1>4, <1>5, <1>6

\* What is marked as unfinished is what is downloaded.
LEMMA ReadyFiles ==
  ASSUME IInv, FInv, IInv', UpdateReady \/ DownloadFailedAssets
  PROVE  FInv'
<1>1. /\ Running /\ state \in {"READY_TO_UPDATE", "FAIL_TO_UPDATE"} /\ remote.loaded
      /\ UNCHANGED <<world, store, temp, local, shared, unzipping, failed>>
      /\ RemoteIs(remote)
  BY DEF UpdateReady, DownloadFailedAssets
<1>2. /\ tm \in Manifest /\ tempFile \in Manifest /\ remote \in Manifest
      /\ units \in SUBSET Assets /\ failed \in SUBSET Assets
      /\ entry \in {"NONE", "CHECK_UPDATE", "DO_UPDATE"}
      /\ temp \in [Assets -> Int] /\ shared \in BOOLEAN
  BY DEF IInv, TypeOK
<1>3. /\ tm.ver = remote.ver /\ local < remote.ver
      /\ shared => tm.loaded
  BY <1>1 DEF IInv, Versioning
<1>4. PICK us \in SUBSET Assets, e \in {"NONE", "CHECK_UPDATE", "DO_UPDATE"} :
        BatchDownload(us, tm, tempFile, e) /\ Resumed(tm) = us /\ failed \subseteq us
  <2>1. CASE UpdateReady
    <3>1. Resumed(tm) = units /\ failed = {}
      BY <1>1, <2>1 DEF FInv, Unfinished, UpdateReady
    <3> QED
      BY <1>2, <2>1, <3>1 DEF UpdateReady
  <2>2. CASE DownloadFailedAssets
    <3>1. Resumed(tm) = failed
      BY <1>1, <2>2 DEF FInv, Unfinished, DownloadFailedAssets
    <3> QED
      BY <1>2, <2>2, <3>1 DEF DownloadFailedAssets
  <2> QED
    BY <2>1, <2>2
<1>5. shared' \in BOOLEAN /\ temp' \in [Assets -> Int] /\ failed' \subseteq Assets
  BY <1>1, <1>2
<1>6. StartsBatch(us, tm, tempFile, e, remote)
  BY <1>1, <1>2, <1>3, <1>4, <1>5 DEF StartsBatch
<1>7. /\ Queued(us, 0, tm, tempFile, e)
      /\ unzipping' = {} /\ flight' = us \ queue' /\ queue' \subseteq us
  BY <1>6, BatchQueued
<1>8. Under' = us
  BY <1>7 DEF Under
<1>9. /\ tempFile = tm /\ Truthful(tm, temp, local) /\ tm.loaded /\ tm.updating
      /\ ~shared => ~remote.updating
  <2>1. tempFile = tm
    BY <1>1 DEF FInv, Unfinished
  <2> QED
    BY <1>1, <2>1 DEF FInv, Manifests
<1>10. Behind(tempFile, tm)
  BY <1>9 DEF Behind
<1>11. PICK q \in SUBSET Assets, m \in Manifest :
         q = us /\ m = tm /\ Queued(q, 0, m, tempFile, e)
  BY <1>2, <1>7
<1>12. PICK disk \in Manifest, r \in Manifest : disk = tempFile /\ r = remote
  BY <1>2
<1>13. Works(q, m, disk, r)
  BY <1>1, <1>3, <1>4, <1>8, <1>9, <1>10, <1>11, <1>12 DEF Works
<1>14. Queued(q, 0, m, disk, e)
  BY <1>11, <1>12
<1> QED
  BY <1>1, <1>13, <1>14, WorkStep

LEMMA VersionDoneFiles == ASSUME IInv, FInv, VersionDone PROVE FInv'
<1>1. state = "DOWNLOADING_VERSION" /\ ~merge.on /\ Running
  BY DEF VersionDone, IInv, Counts, Running
<1>2. ~shared /\ ~remote.updating
  BY <1>1 DEF FInv, Manifests
<1>3. UNCHANGED <<bundle, torn, stored, cached, local, shared, units, queue, flight,
                  unzipping, failed, merge>>
  BY DEF VersionDone, world, store, downloads
<1>4. /\ tm' = tm /\ ~remote'.updating
      /\ remote'.loaded => remote.loaded
  <2>1. remote \in Manifest /\ server \in Versions
    BY DEF IInv, TypeOK
  <2>2. \/ remote' = ParseVersion(remote, server) /\ tm' = tm
        \/ remote' = remote /\ tm' = tm
        \/ remote' = ParseFails(remote) /\ tm' = tm
    BY <1>2 DEF VersionDone, ReadRemote
  <2> QED
    BY <1>2, <2>1, <2>2, ParsedVersions, FailedManifests
<1>5. Merging' /\ Installed'
  BY <1>1, <1>3 DEF FInv, Merging, Installed, InPlace, Running
<1>6. CASE state' = "UP_TO_DATE" /\ tempFile' = NoFile
  <2>1. Truthful(tempFile', temp', local')
    BY <1>6, BlankManifests, TruthUnloaded
  <2>2. Manifests' /\ Unfinished'
    BY <1>2, <1>3, <1>4, <1>6, <2>1 DEF Manifests, Unfinished, Updating
  <2> QED
    BY <1>5, <2>2 DEF FInv
<1>7. CASE state' = "DOWNLOADING_MANIFEST" /\ UNCHANGED <<temp, tempFile>>
  <2>1. Manifests'
    BY <1>1, <1>2, <1>3, <1>4, <1>7 DEF FInv, Manifests, Running
  <2>2. Unfinished'
    BY <1>1, <1>3, <1>4, <1>7 DEF FInv, Unfinished, Updating, Running
  <2> QED
    BY <1>5, <2>1, <2>2 DEF FInv
<1> QED
  BY <1>6, <1>7 DEF VersionDone, UpToDate, RemoveTemp

LEMMA ManifestFailsFiles == ASSUME IInv, FInv, ManifestFails PROVE FInv'
<1>1. state = "DOWNLOADING_MANIFEST" /\ ~merge.on /\ Running
  BY DEF ManifestFails, IInv, Counts, Running
<1>2. ~shared /\ ~remote.updating
  BY <1>1 DEF FInv, Manifests
<1>3. UNCHANGED <<bundle, torn, stored, cached, temp, local, shared, units, queue, flight,
                  unzipping, failed, merge>>
  BY DEF ManifestFails, world, store, downloads
<1>4. Merging' /\ Installed'
  BY <1>1, <1>3 DEF FInv, Merging, Installed, InPlace, Running
<1>5. CASE state' = "FAIL_TO_UPDATE" /\ UNCHANGED <<remote, tm, tempFile>>
  <2>1. Manifests'
    BY <1>1, <1>2, <1>3, <1>5 DEF FInv, Manifests, Running
  <2>2. Unfinished'
    BY <1>1, <1>3, <1>5 DEF FInv, Unfinished, Updating, Running
  <2> QED
    BY <1>4, <2>1, <2>2 DEF FInv
<1>6. CASE state' = "UNCHECKED" /\ tempFile' = Garbage /\ ReadRemote(ParseFails(remote))
  <2>1. remote \in Manifest
    BY DEF IInv, TypeOK
  <2>2. tm' = tm /\ ~remote'.updating /\ ~remote'.loaded
    BY <1>2, <1>6, <2>1, FailedManifests DEF ReadRemote
  <2>3. Truthful(tempFile', temp', local')
    BY <1>6, BlankManifests, TruthUnloaded
  <2>4. Manifests'
    BY <1>1, <1>2, <1>3, <1>6, <2>2, <2>3 DEF FInv, Manifests, Running
  <2>5. Unfinished'
    BY <1>3, <1>6, <2>2 DEF Unfinished, Updating
  <2> QED
    BY <1>4, <2>4, <2>5 DEF FInv
<1> QED
  BY <1>5, <1>6 DEF ManifestFails
-----------------------------------------------------------------------------
\* The plan of an update: what is to be done is what the manifest asks for.
LEMMA PlannedFiles ==
  ASSUME IInv, FInv, NEW r \in Manifest, r.loaded, local < r.ver, ~shared,
         \A a \in Assets : r.mark[a] = "UNMARKED",
         temp' = IF ToResume(r) THEN temp ELSE Empty, state = "DOWNLOADING_MANIFEST"
  PROVE  /\ GoesOnWith(r) \in Manifest /\ GoesOnWith(r).loaded /\ GoesOnWith(r).updating
         /\ local < GoesOnWith(r).ver
         /\ Truthful(GoesOnWith(r), temp', local)
         /\ Resumed(GoesOnWith(r)) = Planned(r) /\ Planned(r) \in SUBSET Assets
<1>1. tm \in Manifest /\ Running
  BY DEF IInv, TypeOK, Counts, Running
<1>2. /\ GoesOnWith(r) \in Manifest /\ GoesOnWith(r).ver = r.ver
      /\ GoesOnWith(r).loaded /\ Planned(r) \in SUBSET Assets
  BY <1>1, PreparedManifest
<1>3. CASE ToResume(r)
  <2>1. GoesOnWith(r) = tm /\ Planned(r) = Resumed(tm) /\ temp' = temp /\ tm.updating
    BY <1>3 DEF ToResume, Resumable, GoesOnWith, Planned
  <2>2. Truthful(tm, temp, local)
    BY <1>1 DEF FInv, Manifests
  <2> QED
    BY <1>2, <2>1, <2>2
<1>4. CASE ~ToResume(r)
  <2>1. /\ Planned(r) = ToDownload(local, r.ver)
        /\ GoesOnWith(r) = Started(r, ToDownload(local, r.ver)) /\ temp' = Empty
    BY <1>4 DEF GoesOnWith, Planned
  <2>2. /\ Truthful(Started(r, ToDownload(local, r.ver)), Empty, local)
        /\ Resumed(Started(r, ToDownload(local, r.ver))) = ToDownload(local, r.ver)
    BY TruthStarted
  <2>3. GoesOnWith(r).updating
    BY <2>1, StartedUpdates
  <2> QED
    BY <1>2, <2>1, <2>2, <2>3
<1> QED
  BY <1>3, <1>4

LEMMA ManifestDoneFiles == ASSUME IInv, FInv, IInv', ManifestDone PROVE FInv'
<1>1. /\ state = "DOWNLOADING_MANIFEST" /\ UNCHANGED <<world, store, local>>
      /\ remote \in Manifest /\ tm \in Manifest /\ server \in Versions
      /\ local \in Versions /\ shared \in BOOLEAN /\ temp \in [Assets -> Int]
      /\ entry \in {"NONE", "CHECK_UPDATE", "DO_UPDATE"}
  BY DEF ManifestDone, IInv, TypeOK
<1>2. ~merge.on /\ Running
  BY <1>1 DEF IInv, Counts, Running
<1>3. ~shared /\ ~remote.updating
  BY <1>1, <1>2 DEF FInv, Manifests
<1>4. PICK r \in Manifest : r = ParseFile(remote, server)
  BY <1>1, ParsedManifests
<1>5. /\ r.loaded = TRUE /\ r.ver = server /\ ~r.updating
      /\ \A a \in Assets : r.mark[a] = "UNMARKED"
  <2>1. r.updating = remote.updating
    BY <1>1, <1>4, ParsedManifests
  <2>2. r.loaded = TRUE /\ r.ver = server
    BY <1>1, <1>4, ParsedManifests
  <2>3. ASSUME NEW a \in Assets PROVE r.mark[a] = "UNMARKED"
    BY <1>1, <1>4, MarkParsed
  <2> QED
    BY <1>3, <2>1, <2>2, <2>3
<1>6. UNCHANGED <<bundle, server, torn, again, maxTasks, stored, cached, local>>
  BY <1>1 DEF world, store
<1>7. \/ /\ ReadRemote(r) /\ UpToDate /\ UNCHANGED <<shared, downloads, merge>>
      \/ local < server /\ PrepareUpdate(r) /\ UNCHANGED unzipping
  BY <1>4 DEF ManifestDone
<1>8. CASE ReadRemote(r) /\ UpToDate /\ UNCHANGED <<shared, downloads, merge>>
  <2>1. /\ remote' = r /\ state' = "UP_TO_DATE" /\ tempFile' = NoFile
        /\ shared' = shared /\ merge' = merge
    BY <1>8 DEF ReadRemote, UpToDate, RemoveTemp
  <2>2. Truthful(tempFile', temp', local')
    BY <2>1, BlankManifests, TruthUnloaded
  <2>3. Manifests' /\ Unfinished'
    BY <1>3, <1>5, <2>1, <2>2 DEF Manifests, Unfinished, Updating
  <2>4. Merging' /\ Installed'
    BY <1>2, <1>6, <2>1 DEF FInv, Merging, Installed, InPlace, Running
  <2> QED
    BY <2>3, <2>4 DEF FInv
<1>9. CASE local < server /\ PrepareUpdate(r) /\ UNCHANGED unzipping
  <2>1. PICK m \in Manifest, us \in SUBSET Assets : m = GoesOnWith(r) /\ us = Planned(r)
    BY <1>1, <1>5, PreparedManifest
  <2>2. /\ failed' = {} /\ shared' = (shared \/ ~ToResume(r))
        /\ temp' = IF ToResume(r) THEN temp ELSE Empty
        /\ RemoteIs(r)
    BY <1>9, Prepared
  <2>3. \/ /\ ~ToResume(r) /\ DiffAt(local, r.ver) = {}
           /\ tm' = r
           /\ BeginMerge(r, Empty)
           /\ state' = "NEED_UPDATE"
        \/ /\ tm' = m /\ tempFile' = m /\ units' = us
           /\ state' = "READY_TO_UPDATE"
           /\ UNCHANGED <<queue, flight, concurrent, merge>>
        \/ BatchDownload(us, m, m, entry)
    BY <1>9, <2>1, Prepared
  <2>4. /\ m.loaded /\ m.updating /\ local < m.ver
        /\ Truthful(m, temp', local) /\ Resumed(m) = us
    BY <1>1, <1>3, <1>5, <1>9, <2>1, <2>2, PlannedFiles
  <2>5. m.ver = r.ver
    BY <1>1, <1>5, <2>1, PreparedManifest
  <2>6. CASE /\ ~ToResume(r) /\ DiffAt(local, r.ver) = {}
             /\ tm' = r
             /\ BeginMerge(r, Empty)
             /\ state' = "NEED_UPDATE"
    <3>1. /\ merge'.on /\ merge'.ver = r.ver /\ tempFile' = NoFile
          /\ merge'.listed = {} /\ merge'.left = {"manifest"}
      <4>1. /\ merge'.on = TRUE /\ merge'.ver = r.ver /\ tempFile' = NoFile
            /\ merge'.listed = {a \in Assets : Empty[a] # Absent}
            /\ merge'.left = merge'.listed \cup {"manifest"}
        BY <2>6, BegunMerge
      <4>2. merge'.listed = {}
        BY <4>1 DEF Empty
      <4> QED
        BY <4>1, <4>2
    <3>2. ~Running' /\ ~Updating' /\ shared'
      BY <2>2, <2>6, <3>1 DEF Running, Updating
    <3>3. Truthful(tempFile', temp', local')
      BY <3>1, BlankManifests, TruthUnloaded
    <3>4. Manifests' /\ Unfinished'
      BY <2>6, <3>2, <3>3 DEF Manifests, Unfinished
    <3>5. ToDownload(local', merge'.ver) = {}
      BY <1>6, <2>6, <3>1 DEF ToDownload
    <3>6. Merging'
      BY <3>1, <3>5 DEF Merging
    <3>7. Installed'
      BY <1>2, <1>6, <3>1 DEF FInv, Installed, InPlace, Running
    <3> QED
      BY <3>4, <3>6, <3>7 DEF FInv
  <2>7. CASE /\ tm' = m /\ tempFile' = m /\ units' = us
             /\ state' = "READY_TO_UPDATE"
             /\ UNCHANGED <<queue, flight, concurrent, merge>>
    <3>1. /\ remote'.loaded /\ (~shared' => ~remote'.updating)
      BY <1>5, <2>2, <2>4, <2>7 DEF RemoteIs
    <3>2. Manifests'
      BY <1>6, <2>4, <2>7, <3>1 DEF Manifests
    <3>3. Unfinished'
      BY <2>2, <2>4, <2>7 DEF Unfinished, Updating
    <3>4. Merging' /\ Installed'
      BY <1>2, <1>6, <2>7 DEF FInv, Merging, Installed, InPlace, Running
    <3> QED
      BY <3>2, <3>3, <3>4 DEF FInv
  <2>8. CASE BatchDownload(us, m, m, entry)
    <3>1. temp' \in [Assets -> Int] /\ shared' \in BOOLEAN
      BY DEF IInv, TypeOK
    <3>2. StartsBatch(us, m, m, entry, r)
      <4>1. Running /\ state # "UPDATING" /\ failed' \subseteq Assets
        BY <1>1, <1>2, <2>2
      <4>2. UNCHANGED <<world, store, local, unzipping>>
        BY <1>1, <1>9
      <4> QED
        BY <1>1, <1>5, <2>2, <2>4, <2>5, <2>8, <3>1, <4>1, <4>2 DEF StartsBatch
    <3>3. /\ Queued(us, 0, m, m, entry)
          /\ unzipping' = {} /\ flight' = us \ queue' /\ queue' \subseteq us
      BY <3>2, BatchQueued
    <3>4. Under' = us
      BY <3>3 DEF Under
    <3>5. Behind(m, m)
      BY <2>4 DEF Behind
    <3>6. Works(us, m, m, r)
      BY <1>1, <1>5, <2>2, <2>4, <3>4, <3>5 DEF Works
    <3> QED
      BY <1>2, <3>3, <3>6, WorkStep
  <2> QED
    BY <2>3, <2>6, <2>7, <2>8
<1> QED
  BY <1>7, <1>8, <1>9
-----------------------------------------------------------------------------
LEMMA MergeFileFiles ==
  ASSUME IInv, FInv, NEW f \in Assets \cup {"manifest"}, MergeFile(f)
  PROVE  FInv'
<1>1. /\ merge.on /\ f \in merge.left
      /\ stored \in [Assets -> Int] /\ temp \in [Assets -> Int]
      /\ merge \in [on : BOOLEAN, left : SUBSET (Assets \cup {"manifest"}),
                    listed : SUBSET Assets, ver : {Absent} \cup Versions]
  BY DEF MergeFile, IInv, TypeOK, Versioning
<1>2. /\ merge'.on /\ merge'.left = merge.left \ {f}
      /\ merge'.listed = merge.listed /\ merge'.ver = merge.ver
  <2>1. merge' = [merge EXCEPT !.left = @ \ {f}]
    BY DEF MergeFile
  <2> QED
    BY <1>1, <2>1
<1>3. /\ UNCHANGED <<bundle, torn, tempFile, state, local, shared, remote>>
      /\ \/ f = "manifest" /\ UNCHANGED <<stored, temp>>
         \/ /\ f # "manifest"
            /\ stored' = [stored EXCEPT ![f] = temp[f]]
            /\ temp' = [temp EXCEPT ![f] = Absent]
  BY DEF MergeFile, world, manifests
<1>4. ~Running' /\ ~Updating'
  BY <1>2 DEF Running, Updating
<1>5. /\ tempFile = NoFile /\ merge.left \subseteq merge.listed \cup {"manifest"}
      /\ \A a \in ToDownload(local, merge.ver) : Steady(a) => a \in merge.listed
      /\ \A a \in merge.listed :
           /\ Content[merge.ver][a] # Absent
           /\ Content[merge.ver][a] = IF a \in merge.left THEN temp[a] ELSE stored[a]
  BY <1>1 DEF FInv, Merging
<1>6. Truthful(tempFile', temp', local')
  BY <1>3, <1>5, BlankManifests, TruthUnloaded
<1>7. Manifests' /\ Unfinished'
  BY <1>3, <1>4, <1>6 DEF FInv, Manifests, Unfinished
<1>8. ASSUME NEW a \in merge.listed
      PROVE  Content[merge.ver][a] = IF a \in merge.left \ {f} THEN temp'[a] ELSE stored'[a]
  <2>1. a \in Assets /\ a # "manifest"
    BY <1>1, AssetsAssumption
  <2>2. CASE a = f
    <3>1. stored' = [stored EXCEPT ![f] = temp[f]] /\ Content[merge.ver][a] = temp[a]
      BY <1>1, <1>3, <1>5, <2>1, <2>2
    <3>2. stored'[a] = temp[a]
      BY <1>1, <2>1, <2>2, <3>1
    <3> QED
      BY <2>2, <3>1, <3>2
  <2>3. CASE a # f
    <3>1. stored'[a] = stored[a] /\ temp'[a] = temp[a]
      BY <1>1, <1>3, <2>1, <2>3
    <3> QED
      BY <1>5, <2>3, <3>1
  <2> QED
    BY <2>2, <2>3
<1>9. Merging'
  BY <1>2, <1>3, <1>5, <1>8 DEF Merging
<1>10. ASSUME NEW a \in Assets, a \notin merge.listed
       PROVE  stored'[a] = stored[a]
  <2>1. f # "manifest" => a # f
    BY <1>1, <1>5, <1>10
  <2> QED
    BY <1>1, <1>3, <2>1
<1>11. Installed'
  BY <1>1, <1>2, <1>3, <1>10 DEF FInv, Installed, InPlace
<1> QED
  BY <1>7, <1>9, <1>11 DEF FInv

LEMMA UpdateSucceedFiles == ASSUME IInv, FInv, UpdateSucceed PROVE FInv'
<1>1. /\ merge.on /\ merge.left = {}
      /\ local' = remote.ver /\ remote' = Blank /\ shared' = FALSE
      /\ tempFile' = NoFile /\ state' = "UP_TO_DATE" /\ merge' = NoMerge
      /\ UNCHANGED <<bundle, torn, cached>>
  BY DEF UpdateSucceed, UpToDate, RemoveTemp, world
<1>2. remote.ver = merge.ver /\ cached = merge.ver /\ cached # Absent
  <2>1. remote.ver = merge.ver /\ local < merge.ver /\ cached = merge.ver
    BY <1>1 DEF IInv, Versioning
  <2>2. local \in Nat /\ local # 0 /\ Absent = 0
    BY VersionNumbers DEF IInv, TypeOK
  <2> QED
    BY <2>1, <2>2
<1>3. stored' = [a \in Assets |-> IF a \in ToDelete(local, merge.ver) \ merge.listed
                                   THEN Absent ELSE stored[a]]
  BY <1>2 DEF UpdateSucceed
<1>4. ~merge'.on
  BY <1>1 DEF NoMerge
<1>5. Truthful(tempFile', temp', local')
  BY <1>1, BlankManifests, TruthUnloaded
<1>6. Manifests' /\ Unfinished' /\ Merging'
  BY <1>1, <1>4, <1>5, BlankManifests DEF Manifests, Unfinished, Merging, Updating
<1>7. ASSUME ~torn, NEW a \in Assets, Steady(a), Content[merge.ver][a] # Absent
      PROVE  IF stored'[a] # Absent THEN stored'[a] = Content[merge.ver][a]
                                   ELSE Content[bundle][a] = Content[merge.ver][a]
  <2>1. CASE a \in merge.listed
    <3>1. stored'[a] = stored[a] /\ stored[a] = Content[merge.ver][a]
      BY <1>1, <1>3, <2>1 DEF FInv, Merging
    <3> QED
      BY <1>7, <3>1
  <2>2. CASE a \notin merge.listed
    <3>1. a \notin ToDownload(local, merge.ver)
      BY <1>1, <1>7, <2>2 DEF FInv, Merging
    <3>2. Content[local][a] = Content[merge.ver][a] /\ a \notin ToDelete(local, merge.ver)
      BY <1>7, <3>1 DEF ToDownload, ToDelete, DiffAt
    <3>3. stored'[a] = stored[a] /\ InPlace(a) = Content[local][a]
      BY <1>3, <1>7, <2>2, <3>2 DEF FInv, Installed
    <3> QED
      BY <3>2, <3>3 DEF InPlace
  <2> QED
    BY <2>1, <2>2
<1>8. Installed'
  <2>1. local' = merge.ver /\ cached' # Absent /\ torn' = torn /\ bundle' = bundle
    BY <1>1, <1>2
  <2> QED
    BY <1>4, <1>7, <2>1 DEF Installed, InPlace
<1> QED
  BY <1>6, <1>8 DEF FInv

\* A process that dies leaves what the next can trust, from any later package.
LEMMA RestartFiles == ASSUME IInv, FInv, Restart PROVE FInv'
<1>1. PICK disk \in {tempFile, Garbage, Fresh(server)} :
        /\ torn' = (torn \/ merge.on)
        /\ temp' = IF disk = Garbage THEN Empty ELSE temp
        /\ tempFile' = IF disk = Garbage THEN NoFile ELSE disk
        /\ tm' = IF disk.loaded THEN disk ELSE Blank
        /\ remote' = Blank /\ shared' = FALSE /\ state' = "UNCHECKED" /\ merge' = NoMerge
  BY DEF Restart, Load
<1>2. /\ local \in Versions /\ local' \in Versions /\ local <= local'
      /\ tempFile \in Manifest /\ server \in Versions /\ Truthful(tempFile, temp, local)
  BY RestartLater DEF IInv, TypeOK, FInv, Manifests
<1>3. Truthful(tempFile', temp', local') /\ Truthful(tm', temp', local')
  <2>1. CASE disk = Garbage
    BY <1>1, <2>1, BlankManifests, TruthUnloaded
  <2>2. CASE disk # Garbage
    <3>1. Truthful(disk, temp, local')
      <4>1. CASE disk = tempFile
        <5>1. CASE merge.on
          BY <4>1, <5>1, BlankManifests, TruthUnloaded DEF FInv, Merging
        <5>2. CASE ~merge.on
          <6>1. local' = local \/ local' = bundle'
            <7>1. cached # Absent => cached = local
              BY <5>2 DEF IInv, Versioning
            <7> QED
              BY <7>1, Reloaded
          <6>2. bundle' \in Packages
            BY DEF Restart
          <6>3. local' = local \/ local' \in Packages
            BY <6>1, <6>2
          <6> QED
            BY <1>2, <4>1, <6>3, TruthLater
        <5> QED
          BY <5>1, <5>2
      <4>2. CASE disk = Fresh(server)
        BY <1>2, <4>2, TruthFresh
      <4> QED
        BY <1>1, <2>2, <4>1, <4>2
    <3> QED
      BY <1>1, <2>2, <3>1, BlankManifests, TruthUnloaded
  <2> QED
    BY <2>1, <2>2
<1>4. ~merge'.on /\ ~remote'.loaded /\ ~remote'.updating
  BY <1>1, BlankManifests DEF NoMerge
<1>5. Manifests' /\ Unfinished' /\ Merging'
  BY <1>1, <1>3, <1>4 DEF Manifests, Unfinished, Merging, Updating
<1>6. ASSUME torn \/ merge.on PROVE Installed'
  <2>1. torn'
    BY <1>1, <1>6
  <2> QED
    BY <2>1 DEF Installed
<1>7. ASSUME ~torn, ~merge.on PROVE Installed'
  <2>1. /\ \A a \in Assets : Steady(a) /\ Content[local][a] # Absent => InPlace(a) = Content[local][a]
        /\ cached = Absent => stored = Empty
        /\ cached # Absent => cached = local
    BY <1>7 DEF FInv, Installed, IInv, Versioning
  <2>2. CASE stored' = Empty /\ cached' = Absent /\ local' = bundle'
    BY <2>2 DEF Installed, InPlace, Empty
  <2>3. CASE cached # Absent /\ bundle' <= cached /\ stored' = stored /\ cached' = cached /\ local' = cached
    <3>1. local' = local /\ bundle <= bundle' /\ bundle' <= local
          /\ bundle \in Versions /\ bundle' \in Versions /\ bundle' \in Packages
      BY <2>1, <2>3, Reloaded DEF IInv, TypeOK, Restart
    <3>2. ASSUME NEW a \in Assets, Steady(a), Content[local][a] # Absent
          PROVE  InPlace(a)' = Content[local][a]
      <4>1. InPlace(a) = Content[local][a]
        BY <2>1, <3>2
      <4>2. CASE stored[a] # Absent
        BY <2>3, <4>1, <4>2 DEF InPlace
      <4>3. CASE stored[a] = Absent
        <5>1. Content[bundle][a] = Content[local][a]
          BY <4>1, <4>3 DEF InPlace
        <5>2. Content[bundle'][a] = Content[local][a]
          BY <1>2, <3>1, <3>2, <5>1 DEF Steady
        <5> QED
          BY <2>3, <4>3, <5>2 DEF InPlace
      <4> QED
        BY <4>2, <4>3
    <3> QED
      BY <1>4, <2>3, <3>1, <3>2 DEF Installed
  <2> QED
    BY <2>1, <2>2, <2>3, Reloaded
<1> QED
  BY <1>5, <1>6, <1>7 DEF FInv

LEMMA InductiveFInv ==
  ASSUME ~again', IInv, FInv, IInv', [Next]_vars
  PROVE  FInv'
<1>1. CASE CheckUpdate \/ UpdateFirst \/ Publish
  BY <1>1, CallsFiles
<1>2. CASE UpdateReady \/ DownloadFailedAssets
  BY <1>2, ReadyFiles
<1>3. CASE VersionDone \/ ManifestFails \/ ManifestDone
  BY <1>3, VersionDoneFiles, ManifestFailsFiles, ManifestDoneFiles
<1>4. CASE \E a \in Assets : UnitError(a) \/ UnitSuccess(a) \/ Unzipped(a)
  BY <1>4, UnitActionFiles
<1>5. CASE \E f \in Assets \cup {"manifest"} : MergeFile(f)
  BY <1>5, MergeFileFiles
<1>6. CASE UpdateSucceed \/ Restart
  BY <1>6, UpdateSucceedFiles, RestartFiles
<1>7. CASE UNCHANGED vars
  <2>1. /\ UNCHANGED <<bundle, torn, stored, cached, temp, tempFile, state, local, remote,
                       tm, shared, units, queue, flight, unzipping, failed, merge>>
    BY <1>7 DEF vars, world, store, manifests, downloads
  <2>2. Under' = Under
    BY <2>1 DEF Under
  <2>3. Manifests' /\ Merging' /\ Installed'
    BY <2>1 DEF FInv, Manifests, Merging, Installed, InPlace, Running
  <2>4. Unfinished'
    BY <2>1, <2>2 DEF FInv, Unfinished, Updating, Running
  <2> QED
    BY <2>3, <2>4 DEF FInv
<1> QED
  BY <1>1, <1>2, <1>3, <1>4, <1>5, <1>6, <1>7 DEF Next

\* Once a process has checked anew, that stays known.
LEMMA AgainStays == ASSUME [Next]_vars, again PROVE again'
BY DEF Next, Restart, Publish, CheckUpdate, UpdateFirst, UpdateReady, DownloadFailedAssets,
       VersionDone, ManifestFails, ManifestDone, UnitError, UnitSuccess, Unzipped, FileError,
       FileSuccess, MergeFile, UpdateSucceed, world, vars

\* Nothing that an update or a restart trusts is wrong, until the game checks
\* anew after a failure.
LEMMA InductiveFiles == Spec => [](IInv /\ (~again => FInv))
<1>1. Init => IInv /\ (~again => FInv)
  BY InitStep, InitFiles
<1>2. IInv /\ (~again => FInv) /\ [Next]_vars => (IInv /\ (~again => FInv))'
  <2> SUFFICES ASSUME IInv, ~again => FInv, [Next]_vars PROVE IInv' /\ (~again' => FInv')
    OBVIOUS
  <2>1. IInv'
    BY InductiveIInv
  <2>2. ASSUME ~again' PROVE FInv'
    <3>1. FInv
      BY <2>2, AgainStays
    <3> QED
      BY <2>1, <2>2, <3>1, InductiveFInv
  <2> QED
    BY <2>1, <2>2
<1> QED
  BY <1>1, <1>2, PTL DEF Spec

\* The process that resumes an update never keeps a file that is not whole, and
\* prepareUpdate never releases the manifest it goes on with, until the game
\* checks anew after an update that failed.
THEOREM ResumesWhole == Spec => []ResumeIsSafe
<1>1. IInv /\ (~again => FInv) => ResumeIsSafe
  <2> SUFFICES ASSUME IInv, FInv, ~again PROVE ResumeIsSafe
    BY DEF ResumeIsSafe
  <2>1. ASSUME NEW a \in Assets, tempFile.loaded, tempFile.mark[a] = "SUCCESSED"
        PROVE  temp[a] = Content[tempFile.ver][a]
    BY <2>1 DEF FInv, Manifests, Truthful, Marking
  <2>2. ASSUME shared, Running PROVE tm = remote /\ tm.updating
    <3>1. remote.loaded /\ state # "UP_TO_DATE"
      BY <2>2 DEF FInv, Manifests
    <3> QED
      BY <2>2, <3>1 DEF FInv, Manifests, IInv, Versioning
  <2> QED
    BY <2>1, <2>2 DEF ResumeIsSafe
<1> QED
  BY <1>1, InductiveFiles, PTL

\* Outside a merge, and unless a process died in one, the game runs a version
\* with every steady asset of it, after any number of updates, failures, deaths
\* and replacements of the app, as long as no process checked anew after its
\* update had failed.
THEOREM RunsWholeVersion == Spec => []InstalledComplete
<1>1. (~again => FInv) => InstalledComplete
  BY DEF FInv, Installed, InstalledComplete, CorrectlyDownloaded, Running
<1> QED
  BY <1>1, InductiveFiles, PTL

\* With one package of the app every asset is steady.
THEOREM OnePackageIsSteady ==
  ASSUME Packages = {1} PROVE \A a \in Assets : Steady(a)
<1>1. ASSUME NEW a \in Assets, NEW u \in Versions, NEW w \in Versions, u <= 1, 1 <= w,
             Content[u][a] = Content[w][a]
      PROVE  Content[1][a] = Content[w][a]
  <2>1. u = 1
    BY <1>1, VersionNumbers
  <2> QED
    BY <1>1, <2>1
<1> QED
  BY <1>1 DEF Steady
=============================================================================
