------------------------------ MODULE ModelSwap ------------------------------
(***************************************************************************)
(* The model lifecycle of ml-inference: POST /models/reload asks the       *)
(* registry for its latest version, downloads the sidecar and then the     *)
(* ONNX file, and swaps the running engine over to it; a starting service  *)
(* loads the newest file it finds on its disk.  The registry is the table  *)
(* of models in cloud-api, where versions are registered and withdrawn.    *)
(*                                                                         *)
(* A model is its version, numbered in the order of registration.  What    *)
(* the engine holds is recorded part by part, because load_model assigns   *)
(* it part by part.                                                        *)
(***************************************************************************)
EXTENDS Integers

CONSTANTS
    MaxVersion,    \* bound of the model: versions the registry publishes
    Requests,      \* concurrent reload requests
    FileKinds,     \* kinds of model files the registry may hold
    SwapScenarios  \* sets of disruptions; a behaviour meets those of one

(***************************************************************************)
(* "bad_onnx": ONNX Runtime rejects the model; "bad_json": the sidecar is  *)
(* not JSON; "no_threshold", "no_stats": it is, but lacks that field.      *)
(* "overlap": a reload is requested before another one has been answered;  *)
(* "withdraw": a version is deleted from the registry.                     *)
(***************************************************************************)
AllFileKinds == {"good", "bad_onnx", "bad_json", "no_threshold", "no_stats"}
SwapDisruptions == {"download_fails", "crash", "torn_write", "overlap", "withdraw"}

ASSUME SwapAssumption ==
    /\ MaxVersion \in Nat \ {0}
    /\ "good" \in FileKinds /\ FileKinds \subseteq AllFileKinds
    /\ SwapScenarios \subseteq SUBSET SwapDisruptions

Versions == 1..MaxVersion
None     == 0
Baked    == 1          \* the model the image build puts into model_dir

VARIABLES
    kind,      \* what each version's files are like; never changes
    published, \* how many versions have been registered
    active,    \* those of them that are not deleted
    sidecars,  \* versions whose .json is in model_dir
    files,     \* versions whose .onnx is in model_dir
    torn,      \* those of them that were not written to the end
    newest,    \* the one with the greatest mtime
    up,        \* the service is running
    engine,    \* the parts of the engine, each by the version it is from
    stats,     \* the version of FeatureExtractor._stats, None for {}
    req,       \* the reload requests: where they are, which version
    swapFaults \* what this environment may do besides working; fixed

registryVars == <<published, active>>
diskVars   == <<sidecars, files, torn, newest>>
memoryVars == <<up, engine, stats, req>>
swapDataVars == <<kind, registryVars, diskVars, memoryVars>>
swapVars == <<swapDataVars, swapFaults>>

Engine  == [session : {None} \cup Versions, metadata : {None} \cup Versions,
            threshold : {None} \cup Versions, label : {None} \cup Versions]
NoModel == [session |-> None, metadata |-> None,
            threshold |-> None, label |-> None]
Whole(v) == [session |-> v, metadata |-> v, threshold |-> v, label |-> v]
Idle    == [pc |-> "idle", version |-> None]

SwapTypeOK ==
    /\ kind \in [Versions -> FileKinds]
    /\ published \in Versions
    /\ active \subseteq 1..published
    /\ sidecars \subseteq Versions
    /\ files \subseteq Versions
    /\ torn \subseteq files
    /\ newest \in files
    /\ up \in BOOLEAN
    /\ engine \in Engine
    /\ stats \in {None} \cup Versions
    /\ req \in [Requests -> [pc : {"idle", "json", "onnx"},
                             version : {None} \cup Versions]]
    /\ swapFaults \in SwapScenarios

\* A service that has started with the model of its image.
SwapInit ==
    /\ kind \in [Versions -> FileKinds] /\ kind[Baked] = "good"
    /\ published = Baked
    /\ active = {Baked}
    /\ sidecars = {Baked}
    /\ files = {Baked}
    /\ torn = {}
    /\ newest = Baked
    /\ up = TRUE
    /\ engine = Whole(Baked)
    /\ stats = Baked
    /\ req = [r \in Requests |-> Idle]
    /\ swapFaults \in SwapScenarios

-----------------------------------------------------------------------------
(***************************************************************************)
(* InferenceEngine.load_model: what the engine is afterwards and whether   *)
(* the call returns.  Both files are read before anything is assigned;     *)
(* error_threshold is looked up between the assignments.                   *)
(***************************************************************************)
Readable(v)  == /\ v \in sidecars' /\ v \notin torn'
                /\ kind[v] \notin {"bad_onnx", "bad_json"}
LoadSucceeds(v) == Readable(v) /\ kind[v] # "no_threshold"

\* Fault: the session is replaced before the sidecar has been read.
LoadModel_sessionFirst(v) ==
    IF LoadSucceeds(v) THEN engine' = Whole(v)
    ELSE IF kind[v] # "bad_onnx" /\ v \notin torn'
    THEN engine' = [engine EXCEPT !.session = v]
    ELSE engine' = engine

LoadModel(v) ==
    \/ LoadSucceeds(v) /\ engine' = Whole(v)
    \/ /\ Readable(v) /\ ~LoadSucceeds(v)
       /\ engine' = [engine EXCEPT !.session = v, !.metadata = v]
    \/ ~Readable(v) /\ engine' = engine

-----------------------------------------------------------------------------
(***************************************************************************)
(* cloud-api: register_model, delete_model (the row stays, inactive) and   *)
(* what get_latest_model answers with, if any version is active.           *)
(***************************************************************************)
Publish ==
    /\ published < MaxVersion
    /\ published' = published + 1
    /\ active' = active \cup {published + 1}
    /\ UNCHANGED <<kind, diskVars, memoryVars>>

Withdraw(v) ==
    /\ "withdraw" \in swapFaults
    /\ v \in active
    /\ active' = active \ {v}
    /\ UNCHANGED <<kind, published, diskVars, memoryVars>>

Latest(v) == v \in active /\ \A w \in active : w <= v

(***************************************************************************)
(* check_and_download: the registry's answer.  A version whose ONNX file   *)
(* exists is not downloaded again, and the request reports "unchanged", as *)
(* it does when the registry has no answer.                                *)
(***************************************************************************)
MayAsk(r) ==
    IF "overlap" \in swapFaults THEN req[r].pc = "idle"
    ELSE \A q \in Requests : req[q].pc = "idle"

\* Fault: whether or not its file exists.
CheckRegistry_any(r) ==
    /\ up /\ MayAsk(r)
    /\ \E v \in Versions :
          /\ Latest(v)
          /\ req' = [req EXCEPT ![r] = [pc |-> "json", version |-> v]]
    /\ UNCHANGED <<kind, registryVars, diskVars, up, engine, stats>>

CheckRegistry(r) ==
    /\ up /\ MayAsk(r)
    /\ \E v \in Versions \ files :
          /\ Latest(v)
          /\ req' = [req EXCEPT ![r] = [pc |-> "json", version |-> v]]
    /\ UNCHANGED <<kind, registryVars, diskVars, up, engine, stats>>

ReportUnchanged(r) ==
    /\ up /\ req[r].pc = "idle"
    /\ \A v \in Versions \ files : ~Latest(v)
    /\ UNCHANGED swapDataVars

\* Fault: the ONNX file goes to disk, and the sidecar is not fetched.
DownloadSidecar_onnxFirst(r) ==
    /\ up /\ req[r].pc = "json"
    /\ files' = files \cup {req[r].version}
    /\ newest' = req[r].version
    /\ req' = [req EXCEPT ![r].pc = "onnx"]
    /\ UNCHANGED <<kind, registryVars, sidecars, torn, up, engine, stats>>

DownloadSidecar(r) ==
    /\ up /\ req[r].pc = "json"
    /\ sidecars' = sidecars \cup {req[r].version}
    /\ req' = [req EXCEPT ![r].pc = "onnx"]
    /\ UNCHANGED <<kind, registryVars, files, torn, newest, up, engine, stats>>

(***************************************************************************)
(* The ONNX file arrives; from writing it to the end of the request there  *)
(* is no await: hot_swap, then set_stats with the new model's statistics.  *)
(* Either may raise, and the request answers 500.                          *)
(***************************************************************************)
WriteFile(v) ==
    /\ files' = files \cup {v}
    /\ torn' = torn \ {v}
    /\ newest' = v
    /\ sidecars' = sidecars

SetStats(v) ==
    stats' = IF LoadSucceeds(v) /\ kind[v] # "no_stats" THEN v ELSE stats

DownloadAndSwap(r) ==
    /\ up /\ req[r].pc = "onnx"
    /\ WriteFile(req[r].version)
    /\ LoadModel(req[r].version)
    /\ SetStats(req[r].version)
    /\ req' = [req EXCEPT ![r] = Idle]
    /\ UNCHANGED <<kind, registryVars, up>>

\* The registry refuses, times out or breaks off: nothing was written.
DownloadFails(r) ==
    /\ "download_fails" \in swapFaults
    /\ up /\ req[r].pc \in {"json", "onnx"}
    /\ req' = [req EXCEPT ![r] = Idle]
    /\ UNCHANGED <<kind, registryVars, diskVars, up, engine, stats>>

-----------------------------------------------------------------------------
\* The container keeps its disk; what was in memory is gone.
Forget ==
    /\ up' = FALSE
    /\ engine' = NoModel
    /\ stats' = None
    /\ req' = [r \in Requests |-> Idle]

Crash ==
    /\ "crash" \in swapFaults
    /\ up
    /\ Forget
    /\ UNCHANGED <<kind, registryVars, diskVars>>

\* The process dies inside f.write of an ONNX file.
CrashWhileWriting(r) ==
    /\ "torn_write" \in swapFaults
    /\ up /\ req[r].pc = "onnx"
    /\ files' = files \cup {req[r].version}
    /\ torn' = torn \cup {req[r].version}
    /\ newest' = req[r].version
    /\ Forget
    /\ UNCHANGED <<kind, registryVars, sidecars>>

(***************************************************************************)
(* load_initial_model and the extractor built from the engine's metadata;  *)
(* statistics the sidecar lacks are the empty dictionary.  An exception    *)
(* ends the process, and it is started again.                              *)
(***************************************************************************)
Start ==
    /\ ~up
    /\ UNCHANGED <<kind, registryVars, diskVars, req>>
    /\ LoadSucceeds(newest)
    /\ LoadModel(newest)
    /\ stats' = IF kind[newest] = "no_stats" THEN None ELSE newest
    /\ up' = TRUE

StartFails ==
    /\ ~up
    /\ UNCHANGED swapDataVars
    /\ ~LoadSucceeds(newest)

-----------------------------------------------------------------------------
SwapStep ==
    \/ Publish
    \/ \E v \in Versions : Withdraw(v)
    \/ \E r \in Requests :
          \/ CheckRegistry(r) \/ ReportUnchanged(r)
          \/ DownloadSidecar(r) \/ DownloadAndSwap(r)
          \/ DownloadFails(r) \/ CrashWhileWriting(r)
    \/ Crash \/ Start \/ StartFails

SwapNext == SwapStep /\ UNCHANGED swapFaults

SwapSpec == SwapInit /\ [][SwapNext]_swapVars

\* The container runtime restarts the service (restart: unless-stopped).
SwapFairness == WF_swapDataVars(Start)

-----------------------------------------------------------------------------
(***************************************************************************)
(* "Swap only after both files loaded successfully" (load_model): the      *)
(* running engine is always one model, never the session of one with the   *)
(* threshold or the version label of another.  The exception is a sidecar  *)
(* without error_threshold, which is looked up after the assignments.      *)
(***************************************************************************)
No(k) == \A v \in Versions : kind[v] # k

EngineIsWhole ==
    up /\ No("no_threshold") => \E v \in Versions : engine = Whole(v)

(***************************************************************************)
(* "Feature normalisation must match what the model was trained with"      *)
(* (main.py): the extractor's statistics are those of the session's model, *)
(* provided that every sidecar that parses is complete.                    *)
(***************************************************************************)
StatsMatchModel ==
    up /\ No("no_stats") /\ No("no_threshold") => stats = engine.session

\* One model in the engine, and in what prepares its input.
OneModelInUse == EngineIsWhole /\ StatsMatchModel

(***************************************************************************)
(* "Check for a newer model in the registry" (reload_model): a reload ends *)
(* with the model that is running or with one that was not yet on disk     *)
(* ("Skip download if this version already exists locally"), and with an   *)
(* older one only when the running one is no longer in the registry, since *)
(* nothing compares versions.  Of two overlapping reloads the one that     *)
(* asked first may be swapped in last.                                     *)
(***************************************************************************)
ReloadsMoveOn ==
    [][up /\ up' /\ "overlap" \notin swapFaults =>
           /\ engine'.session = engine.session \/ engine'.session \notin files
           /\ engine'.session >= engine.session \/ engine.session \notin active]_swapVars

(***************************************************************************)
(* "If the new model fails to load, the old model remains active"          *)
(* (hot_swap), and a service that dies comes back: it is never stopped for *)
(* good by a model that was downloaded.                                    *)
(***************************************************************************)
AlwaysComesBack == []<>up

(***************************************************************************)
(* It does come back from failed downloads and crashes at any point, if    *)
(* every model can be loaded and no file was cut off while it was written. *)
(***************************************************************************)
GoodModelsComeBack ==
    (\A v \in Versions : kind[v] \in {"good", "no_stats"})
    /\ "torn_write" \notin swapFaults => AlwaysComesBack

=============================================================================
