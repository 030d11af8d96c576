---------------------------- MODULE SessionRelease ----------------------------
(***************************************************************************)
(* The directory of a session release and the three commands that share    *)
(* it: the generator publishes public cases, oracle and manifest           *)
(* (rcwt_session_generate.py), the runner builds contexts from the cases   *)
(* and seals their digest into the manifest (rcwt_session_run.py), and the *)
(* scorer reads the four files (rcwt_session_score.py).  One invocation of *)
(* each may be alive; the first two can be killed between any two system   *)
(* calls, and both write the manifest through one temporary name.          *)
(*                                                                         *)
(* A corpus stands for the bytes generated from one seed: every artifact   *)
(* is a function of it, and equal digests mean equal corpora.              *)
(***************************************************************************)
EXTENDS Naturals, FiniteSets

CONSTANTS Corpora,  \* what the generator may be asked for
          None,
          MaxRuns   \* bound: generator and runner invocations

ASSUME ReleaseAssumption == None \notin Corpora /\ MaxRuns \in Nat

Writers == {"generate", "run"}

VARIABLES cases, oracle, contexts,  \* the corpus each file was derived from
          manifest,                 \* the manifest's file
          temp,                     \* .manifest.json.tmp
          at,                       \* where each command is
          held,                     \* what a writer holds in memory
          fd,                       \* the file behind a writer's descriptor
          loaded,                   \* what the scorer has read
          runs,                     \* invocations so far
          swapped                     \* history: oracles published while scoring

data == <<cases, oracle, contexts>>
vars == <<data, manifest, temp, at, held, fd, loaded, runs, swapped>>

(* A manifest names the corpus of the cases and the oracle, and the one of *)
(* the contexts once sealed.  A file that is absent, empty or overlaid is  *)
(* not whole: whoever reads it raises.                                     *)
Manifest(c, s) == [whole |-> TRUE, of |-> c, sealed |-> s]
NoManifest     == [whole |-> FALSE, of |-> None, sealed |-> None]
NoTemp == [there |-> FALSE, empty |-> TRUE, file |-> NoManifest]
Fresh  == [there |-> TRUE, empty |-> TRUE, file |-> NoManifest]

NothingHeld   == [corpus |-> None, manifest |-> NoManifest]
NothingLoaded == [cases |-> None, oracle |-> None, contexts |-> None, manifest |-> NoManifest]

Init ==
  /\ cases = None /\ oracle = None /\ contexts = None
  /\ manifest = NoManifest /\ temp = NoTemp
  /\ at = [p \in Writers \cup {"score"} |-> "idle"]
  /\ held = [p \in Writers |-> NothingHeld]
  /\ fd = [p \in Writers |-> "closed"]
  /\ loaded = NothingLoaded
  /\ runs = 0 /\ swapped = FALSE

Go(p, from, to) == at[p] = from /\ at' = [at EXCEPT ![p] = to]

Begin(p) == runs < MaxRuns /\ runs' = runs + 1

-----------------------------------------------------------------------------
(* _atomic_write of the manifest, one system call at a time *)

OpenTemp(p) ==
  /\ Go(p, "open", "fill")
  /\ temp' = Fresh
  /\ fd' = [fd EXCEPT ![p] = "temp"]
  /\ UNCHANGED <<data, manifest, held, loaded, runs, swapped>>

(* Bytes written over another writer's leave either whole or a mixture.    *)
Fill(p) ==
  /\ Go(p, "fill", "replace")
  /\ \/ /\ fd[p] = "temp"
        /\ \E file \in {held[p].manifest} \cup (IF temp.empty THEN {} ELSE {NoManifest}) :
             temp' = [there |-> TRUE, empty |-> FALSE, file |-> file]
        /\ UNCHANGED manifest
     \/ /\ fd[p] = "target"
        /\ manifest' \in {held[p].manifest} \cup (IF manifest.whole THEN {NoManifest} ELSE {})
        /\ UNCHANGED temp
     \/ fd[p] = "gone" /\ UNCHANGED <<manifest, temp>>
  /\ fd' = [fd EXCEPT ![p] = "closed"]
  /\ UNCHANGED <<data, held, loaded, runs, swapped>>

(* os.replace moves whatever has the temporary name now; a descriptor the  *)
(* other writer still has open moves with it.                              *)
Replace(p) ==
  /\ Go(p, "replace", "cleanup")
  /\ IF temp.there
     THEN /\ manifest' = temp.file /\ temp' = NoTemp
          /\ fd' = [q \in Writers |-> IF fd[q] = "temp" THEN "target"
                                      ELSE IF fd[q] = "target" THEN "gone" ELSE fd[q]]
     ELSE UNCHANGED <<manifest, temp, fd>>
  /\ UNCHANGED <<data, held, loaded, runs, swapped>>

(* The finally clause unlinks the name if it is there again. *)
CleanUp(p) ==
  /\ Go(p, "cleanup", "idle")
  /\ temp' = NoTemp
  /\ fd' = [q \in Writers |-> IF fd[q] = "temp" THEN "gone" ELSE fd[q]]
  /\ held' = [held EXCEPT ![p] = NothingHeld]
  /\ UNCHANGED <<data, manifest, loaded, runs, swapped>>

WriteManifest(p) == OpenTemp(p) \/ Fill(p) \/ Replace(p) \/ CleanUp(p)
-----------------------------------------------------------------------------
(* write_corpus *)

Generate(c) ==
  /\ Begin("generate") /\ Go("generate", "idle", "cases")
  /\ held' = [held EXCEPT !["generate"] = [corpus |-> c, manifest |-> Manifest(c, None)]]
  /\ UNCHANGED <<data, manifest, temp, fd, loaded, swapped>>

PublishCases ==
  /\ Go("generate", "cases", "oracle")
  /\ cases' = held["generate"].corpus
  /\ UNCHANGED <<oracle, contexts, manifest, temp, held, fd, loaded, runs, swapped>>

PublishOracle ==
  /\ Go("generate", "oracle", "open")
  /\ oracle' = held["generate"].corpus
  /\ swapped' = (at["score"] # "idle")
  /\ UNCHANGED <<cases, contexts, manifest, temp, held, fd, loaded, runs>>
-----------------------------------------------------------------------------
(* main of the runner *)

(* Any exception ends an invocation with exit status 2. *)
Abort(p) ==
  /\ at' = [at EXCEPT ![p] = "idle"]
  /\ held' = [held EXCEPT ![p] = NothingHeld]

LoadCases ==
  /\ Begin("run") /\ cases # None /\ Go("run", "idle", "manifest")
  /\ held' = [held EXCEPT !["run"].corpus = cases]
  /\ UNCHANGED <<data, manifest, temp, fd, loaded, swapped>>

LoadManifest ==
  /\ at["run"] = "manifest"
  /\ IF manifest.whole
     THEN /\ at' = [at EXCEPT !["run"] = "validate"]
          /\ held' = [held EXCEPT !["run"].manifest = manifest]
     ELSE Abort("run")
  /\ UNCHANGED <<data, manifest, temp, fd, loaded, runs, swapped>>

(* mutant: only the file is compared, not the cases already loaded. *)
FileOnly == held["run"].manifest.of = cases

(* The manifest seals the bytes of the file as they are now and the hash   *)
(* of every case that was loaded.                                          *)
ManifestSealsCases ==
  held["run"].manifest.of = cases /\ held["run"].manifest.of = held["run"].corpus

Validate ==
  /\ at["run"] = "validate"
  /\ IF ManifestSealsCases
     THEN at' = [at EXCEPT !["run"] = "contexts"] /\ UNCHANGED held
     ELSE Abort("run")
  /\ UNCHANGED <<data, manifest, temp, fd, loaded, runs, swapped>>

(* The sealed copy is made from the manifest read before. *)
PublishContexts ==
  /\ Go("run", "contexts", "open")
  /\ contexts' = held["run"].corpus
  /\ held' = [held EXCEPT !["run"].manifest.sealed = held["run"].corpus]
  /\ UNCHANGED <<cases, oracle, manifest, temp, fd, loaded, runs, swapped>>

Kill(p) ==
  /\ at[p] # "idle" /\ Abort(p)
  /\ fd' = [fd EXCEPT ![p] = "closed"]
  /\ UNCHANGED <<data, manifest, temp, loaded, runs, swapped>>
-----------------------------------------------------------------------------
(* score_files: four reads, then three digests of the files as they are *)

Read(from, to, field, file) ==
  /\ Go("score", from, to)
  /\ file # None
  /\ loaded' = [loaded EXCEPT ![field] = file]
  /\ UNCHANGED <<data, manifest, temp, held, fd, runs>>

ReadContexts == Read("idle", "oracle", "contexts", contexts) /\ swapped' = FALSE
ReadOracle   == Read("oracle", "cases", "oracle", oracle) /\ UNCHANGED swapped
ReadCases    == Read("cases", "manifest", "cases", cases) /\ UNCHANGED swapped
ReadManifest ==
  /\ manifest.whole /\ Go("score", "manifest", "contexts digest")
  /\ loaded' = [loaded EXCEPT !.manifest = manifest]
  /\ UNCHANGED <<data, manifest, temp, held, fd, runs, swapped>>

Matches(declared, file) == declared = file

Hash(from, to, declared, file) ==
  /\ Go("score", from, to) /\ Matches(declared, file)
  /\ UNCHANGED <<data, manifest, temp, held, fd, loaded, runs, swapped>>

HashContexts == Hash("contexts digest", "oracle digest", loaded.manifest.sealed, contexts)
HashOracle   == Hash("oracle digest", "cases digest", loaded.manifest.of, oracle)
HashCases    == Hash("cases digest", "matrix", loaded.manifest.of, cases)

(* Every context carries the hash of its case and the manifest the one of  *)
(* every case; an oracle row names its case and checkpoint only, and these *)
(* do not depend on the seed.                                              *)
SourcesAgree ==
  loaded.contexts = loaded.cases /\ loaded.manifest.of = loaded.contexts

ValidateMatrix ==
  /\ Go("score", "matrix", "scored") /\ SourcesAgree
  /\ UNCHANGED <<data, manifest, temp, held, fd, loaded, runs, swapped>>

(* A check that fails ends the scoring, and so does its end. *)
EndScore ==
  /\ at["score"] # "idle" /\ at' = [at EXCEPT !["score"] = "idle"]
  /\ loaded' = NothingLoaded /\ swapped' = FALSE
  /\ UNCHANGED <<data, manifest, temp, held, fd, runs>>
-----------------------------------------------------------------------------
Next ==
  \/ \E p \in Writers : WriteManifest(p) \/ Kill(p)
  \/ (\E c \in Corpora : Generate(c)) \/ PublishCases \/ PublishOracle
  \/ LoadCases \/ LoadManifest \/ Validate \/ PublishContexts
  \/ ReadContexts \/ ReadOracle \/ ReadCases \/ ReadManifest
  \/ HashContexts \/ HashOracle \/ HashCases \/ ValidateMatrix \/ EndScore

Spec == Init /\ [][Next]_vars
-----------------------------------------------------------------------------
(* A score that passes is of one corpus: the contexts were built from the  *)
(* cases it was scored against, under a manifest of that corpus, sealed    *)
(* with those contexts, whoever was publishing or was killed meanwhile.    *)
(* The oracle is that corpus's too, unless one was published during the    *)
(* scoring: the rows are read first and the file is hashed later.          *)
ScoredIsCoherent ==
  at["score"] = "scored" =>
    /\ loaded.contexts = loaded.cases
    /\ loaded.manifest = Manifest(loaded.cases, loaded.contexts)
    /\ ~swapped => loaded.oracle = loaded.cases

(* rcwt_session_generate.py:803 says of write_corpus that it generates and *)
(* "atomically" publishes "all three deterministic artifacts": once there  *)
(* are three, and no generator is at work, they are of one corpus.         *)
Published == cases # None /\ oracle # None /\ manifest.whole
PublishedTogether ==
  Published /\ at["generate"] = "idle" => cases = oracle /\ oracle = manifest.of
=============================================================================
