-------------------------- MODULE SessionRelease_proofs --------------------------
(* Proofs about the session release, for any corpora and any number of       *)
(* invocations of its writers; and, at the end, about the contexts that its  *)
(* runner publishes, for any session, question and budget.                   *)
EXTENDS SessionRelease, SessionContext, FiniteSetTheorems, TLAPS

USE ReleaseAssumption

-----------------------------------------------------------------------------
(* The inductive invariant.  A manifest that is whole was made by the        *)
(* generator, unsealed, or by the runner, sealed with the corpus it is of:   *)
(* wherever it is, on disk, in the temporary file or in memory.              *)

MaybeCorpora == Corpora \cup {None}
Manifests == [whole: BOOLEAN, of: MaybeCorpora, sealed: MaybeCorpora]
Temps == [there: BOOLEAN, empty: BOOLEAN, file: Manifests]
Memories == [corpus: MaybeCorpora, manifest: Manifests]
Reads == [cases: MaybeCorpora, oracle: MaybeCorpora, contexts: MaybeCorpora,
          manifest: Manifests]
Honest(m) == m.whole => m.of \in Corpora /\ m.sealed \in {None, m.of}

Places == {"idle", "cases", "oracle", "open", "fill", "replace", "cleanup", "manifest",
           "validate", "contexts", "contexts digest", "oracle digest", "cases digest",
           "matrix", "scored"}

ReleaseTypes ==
  /\ cases \in MaybeCorpora /\ oracle \in MaybeCorpora /\ contexts \in MaybeCorpora
  /\ manifest \in Manifests
  /\ temp \in Temps
  /\ at \in [Writers \cup {"score"} -> Places]
  /\ held \in [Writers -> Memories]
  /\ fd \in [Writers -> {"closed", "temp", "target", "gone"}]
  /\ loaded \in Reads
  /\ runs \in Nat /\ swapped \in BOOLEAN

ManifestsHonest ==
  /\ Honest(manifest) /\ Honest(temp.file) /\ Honest(loaded.manifest)
  /\ \A p \in Writers : Honest(held[p].manifest)

\* The runner publishes the contexts of a corpus, under the manifest that is of it.
RunnerAgrees ==
  /\ at["run"] \in {"manifest", "validate", "contexts"} => held["run"].corpus \in Corpora
  /\ at["run"] = "contexts" => held["run"].manifest.of = held["run"].corpus

Scoring == {"oracle", "cases", "manifest", "contexts digest", "oracle digest", "cases digest",
            "matrix", "scored"}

\* What the scorer may count on once it has hashed a file and while no oracle was
\* published: files are never removed, so that a seal which matched is a corpus.
ScorerKnows ==
  /\ at["score"] \in Scoring => contexts # None
  /\ at["score"] \in Scoring \ {"oracle", "cases", "manifest"} => loaded.manifest.whole
  /\ at["score"] \in {"oracle digest", "cases digest", "matrix", "scored"}
       => loaded.manifest.sealed # None
  /\ at["score"] \in Scoring \ {"oracle"} /\ ~swapped => loaded.oracle = oracle
  /\ at["score"] \in {"cases digest", "matrix", "scored"} /\ ~swapped
       => loaded.oracle = loaded.manifest.of
  /\ at["score"] = "scored" => SourcesAgree

ReleaseInv ==
  ReleaseTypes /\ ManifestsHonest /\ RunnerAgrees /\ ScorerKnows

-----------------------------------------------------------------------------
(* Typing *)

LEMMA Names ==
  /\ "generate" \in Writers /\ "run" \in Writers
  /\ None \in MaybeCorpora /\ \A c \in Corpora : c \in MaybeCorpora
BY DEF Writers, MaybeCorpora

LEMMA ManifestsTyped ==
  /\ NoManifest \in Manifests
  /\ \A c \in Corpora : Manifest(c, None) \in Manifests
BY DEF NoManifest, Manifest, Manifests, MaybeCorpora

LEMMA TempsTyped ==
  /\ NoTemp \in Temps /\ Fresh \in Temps
  /\ \A m \in Manifests : [there |-> TRUE, empty |-> FALSE, file |-> m] \in Temps
  /\ \A t \in Temps : t.file \in Manifests
BY ManifestsTyped DEF NoTemp, Fresh, Temps

LEMMA MemoriesTyped ==
  /\ NothingHeld \in Memories
  /\ \A c \in MaybeCorpora, m \in Manifests : [corpus |-> c, manifest |-> m] \in Memories
  /\ \A h \in Memories : h.corpus \in MaybeCorpora /\ h.manifest \in Manifests
  /\ \A h \in Memories, c \in MaybeCorpora : [h EXCEPT !.corpus = c] \in Memories
  /\ \A h \in Memories, m \in Manifests : [h EXCEPT !.manifest = m] \in Memories
BY ManifestsTyped DEF NothingHeld, Memories, MaybeCorpora

LEMMA SealTyped ==
  ASSUME NEW h \in Memories, NEW c \in MaybeCorpora
  PROVE  [h EXCEPT !.manifest.sealed = c] \in Memories
<1>1. h.manifest \in Manifests
  BY MemoriesTyped
<1>2. [h.manifest EXCEPT !.sealed = c] \in Manifests
  BY <1>1 DEF Manifests
<1>3. QED
  BY <1>2 DEF Memories

LEMMA ReadsTyped ==
  /\ NothingLoaded \in Reads
  /\ \A l \in Reads, c \in MaybeCorpora :
       /\ [l EXCEPT !["contexts"] = c] \in Reads
       /\ [l EXCEPT !["oracle"] = c] \in Reads
       /\ [l EXCEPT !["cases"] = c] \in Reads
  /\ \A l \in Reads, m \in Manifests : [l EXCEPT !.manifest = m] \in Reads
<1>1. NothingLoaded \in Reads
  BY ManifestsTyped DEF NothingLoaded, Reads, MaybeCorpora
<1>2. ASSUME NEW l \in Reads, NEW c \in MaybeCorpora PROVE [l EXCEPT !["contexts"] = c] \in Reads
  BY DEF Reads
<1>3. ASSUME NEW l \in Reads, NEW c \in MaybeCorpora PROVE [l EXCEPT !["oracle"] = c] \in Reads
  BY DEF Reads
<1>4. ASSUME NEW l \in Reads, NEW c \in MaybeCorpora PROVE [l EXCEPT !["cases"] = c] \in Reads
  BY DEF Reads
<1>5. ASSUME NEW l \in Reads, NEW m \in Manifests PROVE [l EXCEPT !.manifest = m] \in Reads
  BY DEF Reads
<1>6. QED
  BY <1>1, <1>2, <1>3, <1>4, <1>5

LEMMA ReleaseTypesInit == Init => ReleaseTypes
<1> SUFFICES ASSUME Init PROVE ReleaseTypes
  OBVIOUS
<1>1. at \in [Writers \cup {"score"} -> Places]
  BY DEF Init, Places
<1>2. held \in [Writers -> Memories] /\ fd \in [Writers -> {"closed", "temp", "target", "gone"}]
  BY MemoriesTyped DEF Init
<1>3. QED
  BY <1>1, <1>2, Names, ManifestsTyped, TempsTyped, ReadsTyped DEF Init, ReleaseTypes

LEMMA BeginTyped ==
  ASSUME runs \in Nat, NEW p, Begin(p)
  PROVE  runs' \in Nat
BY DEF Begin

LEMMA ReleaseTypesStep == ReleaseTypes /\ [Next]_vars => ReleaseTypes'
<1> SUFFICES ASSUME ReleaseTypes, [Next]_vars PROVE ReleaseTypes'
  OBVIOUS
<1> USE Names, ManifestsTyped, TempsTyped, MemoriesTyped DEF ReleaseTypes, Places
<1>1. ASSUME NEW p \in Writers, OpenTemp(p) PROVE ReleaseTypes'
  BY <1>1 DEF OpenTemp, Go, data
<1>2. ASSUME NEW p \in Writers, Fill(p) PROVE ReleaseTypes'
  <2>1. held[p].manifest \in Manifests /\ at[p] = "fill"
    BY <1>2 DEF Fill, Go
  <2>2. temp' \in Temps /\ manifest' \in Manifests
    BY <1>2, <2>1 DEF Fill
  <2>3. QED
    BY <1>2, <2>2 DEF Fill, Go, data
<1>3. ASSUME NEW p \in Writers, Replace(p) PROVE ReleaseTypes'
  BY <1>3 DEF Replace, Go, data
<1>4. ASSUME NEW p \in Writers, CleanUp(p) PROVE ReleaseTypes'
  BY <1>4 DEF CleanUp, Go, data
<1>5. ASSUME NEW p \in Writers, Kill(p) PROVE ReleaseTypes'
  BY <1>5 DEF Kill, Abort, data
<1>6. ASSUME NEW c \in Corpora, Generate(c) PROVE ReleaseTypes'
  <2>1. [corpus |-> c, manifest |-> Manifest(c, None)] \in Memories
    OBVIOUS
  <2>2. held' \in [Writers -> Memories]
    BY <1>6, <2>1 DEF Generate
  <2>3. runs' \in Nat
    BY <1>6, BeginTyped DEF Generate
  <2>4. at' \in [Writers \cup {"score"} -> Places]
    BY <1>6 DEF Generate, Go
  <2>5. QED
    BY <1>6, <2>2, <2>3, <2>4 DEF Generate, data
<1>7. CASE PublishCases
  BY <1>7 DEF PublishCases, Go, data
<1>8. CASE PublishOracle
  BY <1>8 DEF PublishOracle, Go, data
<1>9. CASE LoadCases
  <2>1. [held["run"] EXCEPT !.corpus = cases] \in Memories
    OBVIOUS
  <2>2. held' = [held EXCEPT !["run"] = [held["run"] EXCEPT !.corpus = cases]]
    BY <1>9 DEF LoadCases
  <2>3. held' \in [Writers -> Memories]
    BY <2>1, <2>2
  <2>4. runs' \in Nat
    BY <1>9, BeginTyped DEF LoadCases
  <2>5. at' \in [Writers \cup {"score"} -> Places]
    BY <1>9 DEF LoadCases, Go
  <2>6. QED
    BY <1>9, <2>3, <2>4, <2>5 DEF LoadCases, data
<1>10. CASE LoadManifest
  <2>1. [held["run"] EXCEPT !.manifest = manifest] \in Memories
    OBVIOUS
  <2>2. /\ \/ held' = [held EXCEPT !["run"] = [held["run"] EXCEPT !.manifest = manifest]]
           \/ held' = [held EXCEPT !["run"] = NothingHeld]
        /\ at' = [at EXCEPT !["run"] = "validate"] \/ at' = [at EXCEPT !["run"] = "idle"]
    BY <1>10, Zenon DEF LoadManifest, Abort
  <2>3. held' \in [Writers -> Memories]
    BY <2>1, <2>2
  <2>4. QED
    BY <1>10, <2>2, <2>3 DEF LoadManifest, data
<1>11. CASE Validate
  <2>1. held' \in [Writers -> Memories]
    BY <1>11 DEF Validate, Abort
  <2>2. QED
    BY <1>11, <2>1 DEF Validate, Abort, data
<1>12. CASE PublishContexts
  BY <1>12, SealTyped DEF PublishContexts, Go, data
<1>13. CASE ReadContexts
  BY <1>13, ReadsTyped DEF ReadContexts, Read, Go, data
<1>14. CASE ReadOracle
  BY <1>14, ReadsTyped DEF ReadOracle, Read, Go, data
<1>15. CASE ReadCases
  BY <1>15, ReadsTyped DEF ReadCases, Read, Go, data
<1>16. CASE ReadManifest
  BY <1>16, ReadsTyped DEF ReadManifest, Go, data
<1>17. CASE HashContexts
  BY <1>17 DEF HashContexts, Hash, Go, data
<1>18. CASE HashOracle
  BY <1>18 DEF HashOracle, Hash, Go, data
<1>19. CASE HashCases
  BY <1>19 DEF HashCases, Hash, Go, data
<1>20. CASE ValidateMatrix
  BY <1>20 DEF ValidateMatrix, Go, data
<1>21. CASE EndScore
  BY <1>21, ReadsTyped DEF EndScore, data
<1>22. CASE UNCHANGED vars
  BY <1>22 DEF vars, data
<1>23. QED
  BY <1>1, <1>2, <1>3, <1>4, <1>5, <1>6, <1>7, <1>8, <1>9, <1>10, <1>11, <1>12, <1>13, <1>14, <1>15, <1>16, <1>17, <1>18, <1>19, <1>20, <1>21, <1>22 DEF Next, WriteManifest

-----------------------------------------------------------------------------
(* Every manifest is honest *)

LEMMA MadeHonest ==
  /\ Honest(NoManifest) /\ Honest(NoTemp.file) /\ Honest(Fresh.file)
  /\ Honest(NothingHeld.manifest) /\ Honest(NothingLoaded.manifest)
  /\ \A c \in Corpora : Honest(Manifest(c, None))
BY DEF Honest, NoManifest, NoTemp, Fresh, NothingHeld, NothingLoaded, Manifest

\* Sealing with the corpus it is of.
LEMMA SealedHonest ==
  ASSUME NEW h \in Memories, Honest(h.manifest), h.manifest.of = h.corpus
  PROVE  Honest([h EXCEPT !.manifest.sealed = h.corpus].manifest)
<1>1. h.manifest \in Manifests
  BY MemoriesTyped
<1>2. [h EXCEPT !.manifest.sealed = h.corpus].manifest = [h.manifest EXCEPT !.sealed = h.corpus]
  BY DEF Memories
<1>3. Honest([h.manifest EXCEPT !.sealed = h.corpus])
  BY <1>1 DEF Honest, Manifests
<1>4. QED
  BY <1>2, <1>3

LEMMA RunnerAgreesStep ==
  ReleaseTypes /\ RunnerAgrees /\ [Next]_vars => RunnerAgrees'
<1> SUFFICES ASSUME ReleaseTypes, RunnerAgrees, [Next]_vars PROVE RunnerAgrees'
  OBVIOUS
<1> USE Names DEF ReleaseTypes, RunnerAgrees
<1>1. ASSUME NEW p \in Writers, OpenTemp(p) PROVE RunnerAgrees'
  BY <1>1 DEF OpenTemp, Go, data
<1>2. ASSUME NEW p \in Writers, Fill(p) PROVE RunnerAgrees'
  BY <1>2 DEF Fill, Go, data
<1>3. ASSUME NEW p \in Writers, Replace(p) PROVE RunnerAgrees'
  BY <1>3 DEF Replace, Go, data
<1>4. ASSUME NEW p \in Writers, CleanUp(p) PROVE RunnerAgrees'
  BY <1>4 DEF CleanUp, Go, data
<1>5. ASSUME NEW p \in Writers, Kill(p) PROVE RunnerAgrees'
  BY <1>5 DEF Kill, Abort, data
<1>6. ASSUME NEW c \in Corpora, Generate(c) PROVE RunnerAgrees'
  BY <1>6 DEF Generate, Go, data
<1>7. CASE PublishCases
  BY <1>7 DEF PublishCases, Go, data
<1>8. CASE PublishOracle
  BY <1>8 DEF PublishOracle, Go, data
<1>9. CASE LoadCases
  <2>1. held["run"] \in Memories /\ cases \in Corpora /\ at'["run"] = "manifest"
    BY <1>9 DEF LoadCases, Go, MaybeCorpora
  <2>2. held'["run"] = [held["run"] EXCEPT !.corpus = cases]
    BY <1>9 DEF LoadCases
  <2>3. held'["run"].corpus = cases
    BY <2>1, <2>2 DEF Memories
  <2>4. QED
    BY <2>1, <2>3
<1>10. CASE LoadManifest
  <2>1. CASE ~manifest.whole
    BY <1>10, <2>1 DEF LoadManifest, Abort
  <2>2. CASE manifest.whole
    <3>1. held["run"] \in Memories /\ at["run"] = "manifest" /\ at'["run"] = "validate"
      BY <1>10, <2>2 DEF LoadManifest
    <3>2. held'["run"] = [held["run"] EXCEPT !.manifest = manifest]
      BY <1>10, <2>2 DEF LoadManifest
    <3>3. held'["run"].corpus = held["run"].corpus
      BY <3>1, <3>2 DEF Memories
    <3>4. QED
      BY <3>1, <3>3
  <2>3. QED
    BY <2>1, <2>2
<1>11. CASE Validate
  BY <1>11 DEF Validate, Abort, ManifestSealsCases, data
<1>12. CASE PublishContexts
  BY <1>12 DEF PublishContexts, Go, data
<1>13. CASE ReadContexts
  BY <1>13 DEF ReadContexts, Read, Go, data
<1>14. CASE ReadOracle
  BY <1>14 DEF ReadOracle, Read, Go, data
<1>15. CASE ReadCases
  BY <1>15 DEF ReadCases, Read, Go, data
<1>16. CASE ReadManifest
  BY <1>16 DEF ReadManifest, Go, data
<1>17. CASE HashContexts
  BY <1>17 DEF HashContexts, Hash, Go, data
<1>18. CASE HashOracle
  BY <1>18 DEF HashOracle, Hash, Go, data
<1>19. CASE HashCases
  BY <1>19 DEF HashCases, Hash, Go, data
<1>20. CASE ValidateMatrix
  BY <1>20 DEF ValidateMatrix, Go, data
<1>21. CASE EndScore
  BY <1>21 DEF EndScore, data
<1>22. CASE UNCHANGED vars
  BY <1>22 DEF vars, data
<1>23. QED
  BY <1>1, <1>2, <1>3, <1>4, <1>5, <1>6, <1>7, <1>8, <1>9, <1>10, <1>11, <1>12,
     <1>13, <1>14, <1>15, <1>16, <1>17, <1>18, <1>19, <1>20, <1>21, <1>22 DEF Next, WriteManifest

LEMMA ManifestsHonestStep ==
  ReleaseTypes /\ ManifestsHonest /\ RunnerAgrees /\ [Next]_vars => ManifestsHonest'
<1> SUFFICES ASSUME ReleaseTypes, ManifestsHonest, RunnerAgrees, [Next]_vars
             PROVE  ManifestsHonest'
  OBVIOUS
<1> USE MadeHonest DEF ReleaseTypes, ManifestsHonest
<1>1. ASSUME NEW p \in Writers, OpenTemp(p) PROVE ManifestsHonest'
  BY <1>1 DEF OpenTemp, Go, data
<1>2. ASSUME NEW p \in Writers, Fill(p) PROVE ManifestsHonest'
  BY <1>2 DEF Fill, Go, data
<1>3. ASSUME NEW p \in Writers, Replace(p) PROVE ManifestsHonest'
  BY <1>3 DEF Replace, Go, data
<1>4. ASSUME NEW p \in Writers, CleanUp(p) PROVE ManifestsHonest'
  BY <1>4 DEF CleanUp, Go, data
<1>5. ASSUME NEW p \in Writers, Kill(p) PROVE ManifestsHonest'
  BY <1>5 DEF Kill, Abort, data
<1>6. ASSUME NEW c \in Corpora, Generate(c) PROVE ManifestsHonest'
  BY <1>6 DEF Generate, Go, data
<1>7. CASE PublishCases
  BY <1>7 DEF PublishCases, Go, data
<1>8. CASE PublishOracle
  BY <1>8 DEF PublishOracle, Go, data
<1>9. CASE LoadCases
  BY <1>9 DEF LoadCases, Go, Begin, data
<1>10. CASE LoadManifest
  <2>1. CASE ~manifest.whole
    BY <1>10, <2>1 DEF LoadManifest, Abort
  <2>2. CASE manifest.whole
    <3>1. held["run"] \in Memories /\ UNCHANGED <<manifest, temp, loaded>>
      BY <1>10, Names DEF LoadManifest
    <3>2. held' = [held EXCEPT !["run"] = [held["run"] EXCEPT !.manifest = manifest]]
      BY <1>10, <2>2 DEF LoadManifest
    <3>3. [held["run"] EXCEPT !.manifest = manifest].manifest = manifest
      BY <3>1 DEF Memories
    <3>4. QED
      BY <3>1, <3>2, <3>3
  <2>3. QED
    BY <2>1, <2>2
<1>11. CASE Validate
  BY <1>11 DEF Validate, Abort, ManifestSealsCases, data
<1>12. CASE PublishContexts
  <2>1. /\ held["run"] \in Memories /\ Honest(held["run"].manifest)
        /\ UNCHANGED <<manifest, temp, loaded>>
        /\ held["run"].manifest.of = held["run"].corpus
    BY <1>12, Names DEF PublishContexts, Go, RunnerAgrees
  <2>2. held' = [held EXCEPT !["run"] = [held["run"] EXCEPT !.manifest.sealed = held["run"].corpus]]
    BY <1>12 DEF PublishContexts
  <2>3. Honest([held["run"] EXCEPT !.manifest.sealed = held["run"].corpus].manifest)
    BY <2>1, SealedHonest
  <2>4. QED
    BY <2>1, <2>2, <2>3
<1>13. CASE ReadContexts
  BY <1>13 DEF ReadContexts, Read, Go, data
<1>14. CASE ReadOracle
  BY <1>14 DEF ReadOracle, Read, Go, data
<1>15. CASE ReadCases
  BY <1>15 DEF ReadCases, Read, Go, data
<1>16. CASE ReadManifest
  <2>1. loaded \in Reads /\ loaded' = [loaded EXCEPT !.manifest = manifest]
    BY <1>16 DEF ReadManifest
  <2>2. loaded'.manifest = manifest
    BY <2>1 DEF Reads
  <2>3. QED
    BY <1>16, <2>2 DEF ReadManifest
<1>17. CASE HashContexts
  BY <1>17 DEF HashContexts, Hash, Go, data
<1>18. CASE HashOracle
  BY <1>18 DEF HashOracle, Hash, Go, data
<1>19. CASE HashCases
  BY <1>19 DEF HashCases, Hash, Go, data
<1>20. CASE ValidateMatrix
  BY <1>20 DEF ValidateMatrix, Go, data
<1>21. CASE EndScore
  BY <1>21 DEF EndScore, data
<1>22. CASE UNCHANGED vars
  BY <1>22 DEF vars, data
<1>23. QED
  BY <1>1, <1>2, <1>3, <1>4, <1>5, <1>6, <1>7, <1>8, <1>9, <1>10, <1>11, <1>12,
     <1>13, <1>14, <1>15, <1>16, <1>17, <1>18, <1>19, <1>20, <1>21, <1>22 DEF Next, WriteManifest

-----------------------------------------------------------------------------
(* What the scorer knows *)

LEMMA WriterIsNotScorer == \A p \in Writers : p # "score"
BY DEF Writers

LEMMA ScorerKnowsStep ==
  ReleaseTypes /\ RunnerAgrees /\ ScorerKnows /\ [Next]_vars => ScorerKnows'
<1> SUFFICES ASSUME ReleaseTypes, RunnerAgrees, ScorerKnows, [Next]_vars
             PROVE  ScorerKnows'
  OBVIOUS
<1> USE Names DEF ReleaseTypes, ScorerKnows, SourcesAgree
<1>1. ASSUME NEW p \in Writers, OpenTemp(p) PROVE ScorerKnows'
  BY <1>1, WriterIsNotScorer DEF OpenTemp, Go, data
<1>2. ASSUME NEW p \in Writers, Fill(p) PROVE ScorerKnows'
  BY <1>2, WriterIsNotScorer DEF Fill, Go, data
<1>3. ASSUME NEW p \in Writers, Replace(p) PROVE ScorerKnows'
  BY <1>3, WriterIsNotScorer DEF Replace, Go, data
<1>4. ASSUME NEW p \in Writers, CleanUp(p) PROVE ScorerKnows'
  BY <1>4, WriterIsNotScorer DEF CleanUp, Go, data
<1>5. ASSUME NEW p \in Writers, Kill(p) PROVE ScorerKnows'
  BY <1>5, WriterIsNotScorer DEF Kill, Abort, data
<1>6. ASSUME NEW c \in Corpora, Generate(c) PROVE ScorerKnows'
  BY <1>6 DEF Generate, Go, data
<1>7. CASE PublishCases
  BY <1>7 DEF PublishCases, Go, data
<1>8. CASE PublishOracle
  BY <1>8 DEF PublishOracle, Go, data, Scoring
<1>9. CASE LoadCases
  BY <1>9 DEF LoadCases, Go, data
<1>10. CASE LoadManifest
  BY <1>10 DEF LoadManifest, Abort, data
<1>11. CASE Validate
  BY <1>11 DEF Validate, Abort, data
<1>12. CASE PublishContexts
  BY <1>12 DEF PublishContexts, RunnerAgrees, Go, data
<1>13. CASE ReadContexts
  <2>1. loaded' = [loaded EXCEPT !["contexts"] = contexts]
    BY <1>13 DEF ReadContexts, Read
  <2>2. loaded'.oracle = loaded.oracle /\ loaded'.manifest = loaded.manifest
    BY <2>1 DEF Reads
  <2>3. QED
    BY <1>13, <2>2 DEF ReadContexts, Read, Go, data, Scoring
<1>14. CASE ReadOracle
  <2>1. loaded' = [loaded EXCEPT !["oracle"] = oracle]
    BY <1>14 DEF ReadOracle, Read
  <2>2. loaded'.oracle = oracle /\ loaded'.manifest = loaded.manifest
    BY <2>1 DEF Reads
  <2>3. QED
    BY <1>14, <2>2 DEF ReadOracle, Read, Go, data, Scoring
<1>15. CASE ReadCases
  <2>1. loaded' = [loaded EXCEPT !["cases"] = cases]
    BY <1>15 DEF ReadCases, Read
  <2>2. loaded'.oracle = loaded.oracle /\ loaded'.manifest = loaded.manifest
    BY <2>1 DEF Reads
  <2>3. QED
    BY <1>15, <2>2 DEF ReadCases, Read, Go, data, Scoring
<1>16. CASE ReadManifest
  <2>1. loaded' = [loaded EXCEPT !.manifest = manifest]
    BY <1>16 DEF ReadManifest
  <2>2. loaded'.manifest = manifest /\ loaded'.oracle = loaded.oracle
    BY <2>1 DEF Reads
  <2>3. QED
    BY <1>16, <2>2 DEF ReadManifest, Go, data, Scoring
<1>17. CASE HashContexts
  BY <1>17 DEF HashContexts, Hash, Matches, Go, data, Scoring
<1>18. CASE HashOracle
  BY <1>18 DEF HashOracle, Hash, Matches, Go, data, Scoring
<1>19. CASE HashCases
  BY <1>19 DEF HashCases, Hash, Matches, Go, data, Scoring
<1>20. CASE ValidateMatrix
  BY <1>20 DEF ValidateMatrix, Go, data, Scoring
<1>21. CASE EndScore
  BY <1>21 DEF EndScore, Scoring
<1>22. CASE UNCHANGED vars
  BY <1>22 DEF vars, data
<1>23. QED
  BY <1>1, <1>2, <1>3, <1>4, <1>5, <1>6, <1>7, <1>8, <1>9, <1>10, <1>11, <1>12,
     <1>13, <1>14, <1>15, <1>16, <1>17, <1>18, <1>19, <1>20, <1>21, <1>22 DEF Next, WriteManifest

LEMMA ReleaseInvariant == Spec => []ReleaseInv
<1>1. Init => ReleaseInv
  <2> SUFFICES ASSUME Init PROVE ReleaseInv
    OBVIOUS
  <2>1. ManifestsHonest
    BY MadeHonest, MemoriesTyped DEF Init, ManifestsHonest
  <2>2. RunnerAgrees /\ ScorerKnows
    BY Names DEF Init, RunnerAgrees, ScorerKnows, Scoring
  <2>3. QED
    BY <2>1, <2>2, ReleaseTypesInit DEF ReleaseInv
<1>2. ReleaseInv /\ [Next]_vars => ReleaseInv'
  BY ReleaseTypesStep, ManifestsHonestStep, RunnerAgreesStep, ScorerKnowsStep DEF ReleaseInv
<1>3. QED
  BY <1>1, <1>2, PTL DEF Spec

-----------------------------------------------------------------------------
(* The promises *)

\* The files of a release, and what its three commands hold of them, have their types
\* in every reachable state.
THEOREM ReleaseTypeCorrect == Spec => []ReleaseTypes
<1>1. ReleaseInv => ReleaseTypes
  BY DEF ReleaseInv
<1>2. QED
  BY <1>1, ReleaseInvariant, PTL

\* A score that passes its digests is of one corpus, whoever published, sealed or was
\* killed while the scorer read; its oracle too, unless one was published meanwhile.
THEOREM ReleaseScoredIsCoherent == Spec => []ScoredIsCoherent
<1>1. ReleaseInv => ScoredIsCoherent
  <2> SUFFICES ASSUME ReleaseInv, at["score"] = "scored"
               PROVE  /\ loaded.contexts = loaded.cases
                      /\ loaded.manifest = Manifest(loaded.cases, loaded.contexts)
                      /\ ~swapped => loaded.oracle = loaded.cases
    BY DEF ScoredIsCoherent
  <2>1. /\ loaded.contexts = loaded.cases /\ loaded.manifest.of = loaded.contexts
        /\ loaded.manifest.whole /\ loaded.manifest.sealed # None
        /\ ~swapped => loaded.oracle = loaded.manifest.of
    BY DEF ReleaseInv, ScorerKnows, Scoring, SourcesAgree
  <2>2. loaded.manifest.sealed = loaded.manifest.of
    BY <2>1 DEF ReleaseInv, ManifestsHonest, Honest
  <2>3. loaded.manifest \in Manifests
    BY DEF ReleaseInv, ReleaseTypes, Reads
  <2>4. loaded.manifest = Manifest(loaded.cases, loaded.contexts)
    BY <2>1, <2>2, <2>3 DEF Manifest, Manifests
  <2>5. QED
    BY <2>1, <2>4
<1>2. QED
  BY <1>1, ReleaseInvariant, PTL

-----------------------------------------------------------------------------
(* The treatments that pack a session: SessionContext, with SessionResolver,  *)
(* for any entities, queries, budgets and number of events.                   *)

Reports == [entity: Entities, supersedes: Nat, depends_on: SUBSET Nat]

\* What PublicCase accepts: an event rests on events of prior turns.
IsSession ==
  /\ events \in Seq(Reports)
  /\ \A t \in 1..Len(events) : events[t].depends_on \subseteq 1..(t - 1)

ClosedSet(C) == \A t \in C : events[t].depends_on \subseteq C

LEMMA SessionIs ==
  ASSUME IsSession
  PROVE  /\ Len(events) \in Nat /\ DOMAIN events = 1..Len(events)
         /\ \A t \in 1..Len(events) : events[t].depends_on \subseteq 1..(t - 1)
         /\ \A t \in 1..Len(events) : \A d \in events[t].depends_on :
              d \in 1..Len(events) /\ d < t
<1>1. Len(events) \in Nat /\ DOMAIN events = 1..Len(events)
  BY DEF IsSession
<1>2. \A t \in 1..Len(events) : \A d \in 1..(t - 1) : d \in 1..Len(events) /\ d < t
  BY <1>1
<1> QED  BY <1>1, <1>2 DEF IsSession

-----------------------------------------------------------------------------
(* The folds of the resolver; first the greatest and the least of numbers. *)

Greatest(T) == CHOOSE x \in T : \A y \in T : x >= y

PullStep(back, closed) ==
  LET t == Len(events) + 1 - back
  IN IF t \in closed THEN closed \cup events[t].depends_on ELSE closed
Closing == INSTANCE FoldLemmas WITH op <- PullStep, pick <- Greatest

LEMMA GreatestIs ==
  ASSUME NEW n \in Nat, NEW T \in SUBSET (0..n), T # {}
  PROVE  Max(T) \in T /\ \A y \in T : Max(T) >= y
<1> DEFINE D == {n - x : x \in T}
<1>1. D \in SUBSET Nat /\ D # {}
  <2>1. \A x \in T : x \in 0..n
    OBVIOUS
  <2>2. \A x \in 0..n : n - x \in Nat
    OBVIOUS
  <2> QED  BY <2>1, <2>2
<1>2. PICK t \in D : \A u \in D : t <= u
  <2> HIDE DEF D
  <2> QED  BY <1>1, Closing!LeastOfNaturals
<1>3. PICK x \in T : t = n - x
  BY <1>2
<1>4. ASSUME NEW y \in T  PROVE x >= y
  <2>1. n - x <= n - y
    BY <1>2, <1>3
  <2>2. x \in Int /\ y \in Int
    OBVIOUS
  <2> QED  BY <2>1, <2>2
<1>5. \E z \in T : \A y \in T : z >= y
  BY <1>4
<1> QED  BY <1>5, Zenon DEF Max

LEMMA LeastIs ==
  ASSUME NEW T \in SUBSET Nat, T # {}
  PROVE  Min(T) \in T
<1>1. \E t \in T : \A y \in T : t =< y
  BY Closing!LeastOfNaturals
<1> QED  BY <1>1, Zenon DEF Min

-----------------------------------------------------------------------------
(* Closure: one pass from the newest turn. *)

Pulled(T, i) == Closing!Fold([j \in 1..Len(events) |-> j], T, 1..i)

LEMMA PullChain ==
  ASSUME IsSession, NEW T
  PROVE  /\ Pulled(T, 0) = T
         /\ \A i \in 1..Len(events) : Pulled(T, i) = PullStep(i, Pulled(T, i - 1))
         /\ Closure(events, T) = Pulled(T, Len(events))
<1> DEFINE n == Len(events)
           f == [j \in 1..n |-> j]
<1>1. n \in Nat /\ DOMAIN f = 1..n /\ \A i \in 1..n : f[i] = i
  BY SessionIs
<1>2. \A s \in SUBSET (1..n) : Greatest(s) = CHOOSE x \in s : \A y \in s : x >= y
  BY DEF Greatest
<1>3. Closing!IsChain(f, T, n)
  <2> HIDE DEF n, f
  <2> QED  BY <1>1, <1>2, Closing!FoldChain
<1>4. Closure(events, T) = Closing!Fold(f, T, DOMAIN f)
  BY DEF Closure, FoldLeft, MapThenFoldSet, Closing!Fold, Closing!Solves,
         Closing!Step, PullStep, Greatest, Max
<1> QED  BY <1>1, <1>3, <1>4 DEF Closing!IsChain, Pulled

\* The closure is within every closed set that holds what it started from.
LEMMA ClosureLeast ==
  ASSUME IsSession, NEW T, NEW C, T \subseteq C, ClosedSet(C)
  PROVE  Closure(events, T) \subseteq C
<1> DEFINE Reached == {i \in 0..Len(events) : Pulled(T, i) \subseteq C}
<1>1. Len(events) \in Nat
  BY SessionIs
<1>2. 0 \in Reached
  BY <1>1, PullChain
<1>3. ASSUME NEW i \in 1..Len(events), i - 1 \in Reached  PROVE i \in Reached
  <2>1. Pulled(T, i) = PullStep(i, Pulled(T, i - 1))
    BY PullChain
  <2>2. Pulled(T, i - 1) \subseteq C
    BY <1>3
  <2> QED  BY <2>1, <2>2 DEF PullStep, ClosedSet
<1>4. \A i \in 0..Len(events) : i \in Reached
  <2> HIDE DEF Reached
  <2> QED  BY <1>1, <1>2, <1>3, Closing!StepsInduction
<1> QED  BY <1>1, <1>4, PullChain

\* After i turns what is pulled is closed for those turns.
LEMMA ClosureClosed ==
  ASSUME IsSession, NEW T \in SUBSET (1..Len(events))
  PROVE  /\ T \subseteq Closure(events, T)
         /\ Closure(events, T) \subseteq 1..Len(events)
         /\ ClosedSet(Closure(events, T))
<1> DEFINE n == Len(events)
           Good(i, P) == /\ T \subseteq P /\ P \subseteq 1..n
                         /\ \A t \in P : t >= n + 1 - i => events[t].depends_on \subseteq P
           Reached == {i \in 0..n : Good(i, Pulled(T, i))}
<1>1. n \in Nat
  BY SessionIs
<1>2. 0 \in Reached
  <2>1. Good(0, T)
    <3>1. \A t \in 1..n : ~(t >= n + 1 - 0)
      BY <1>1
    <3>2. \A t \in T : t \in 1..n
      OBVIOUS
    <3> HIDE DEF n
    <3> QED  BY <3>1, <3>2
  <2>2. Pulled(T, 0) = T
    BY PullChain
  <2>3. Good(0, Pulled(T, 0))
    BY <2>1, <2>2, Zenon
  <2>4. 0 \in 0..n
    BY <1>1
  <2> QED  BY <2>3, <2>4, Zenon
<1>3. ASSUME NEW i \in 1..n, i - 1 \in Reached  PROVE i \in Reached
  <2> DEFINE P == Pulled(T, i - 1)
             u == n + 1 - i
  <2>1. Good(i - 1, P)
    BY <1>3
  <2>2. Pulled(T, i) = IF u \in P THEN P \cup events[u].depends_on ELSE P
    BY PullChain DEF PullStep
  <2>3. u \in 1..n /\ u + 1 = n + 1 - (i - 1) /\ \A d \in events[u].depends_on : d \in 1..n /\ d < u
    <3>1. u \in 1..n /\ u + 1 = n + 1 - (i - 1)
      BY <1>1
    <3> QED  BY <3>1, SessionIs
  <2> HIDE DEF P, u
  <2>4. CASE u \in P
    <3> DEFINE R == P \cup events[u].depends_on
    <3>1. ASSUME NEW t \in R, t >= u  PROVE events[t].depends_on \subseteq R
      <4>1. t \in P /\ t \in Int /\ u \in Int
        BY <2>1, <2>3, <3>1
      <4>2. CASE t = u
        BY <4>2
      <4>3. CASE t # u
        <5>1. t >= n + 1 - (i - 1)
          BY <2>3, <3>1, <4>1, <4>3
        <5> QED  BY <2>1, <4>1, <5>1
      <4> QED  BY <4>2, <4>3
    <3>2. Good(i, R)
      BY <2>1, <2>3, <3>1 DEF u
    <3> QED  BY <2>2, <2>4, <3>2
  <2>5. CASE u \notin P
    <3>1. \A t \in P : t >= u => t >= n + 1 - (i - 1)
      BY <2>1, <2>3, <2>5
    <3>2. Good(i, P)
      BY <2>1, <3>1 DEF u
    <3>3. Pulled(T, i) = P
      BY <2>2, <2>5
    <3> HIDE DEF Good
    <3> QED  BY <3>2, <3>3
  <2> QED  BY <2>4, <2>5
<1>4. \A i \in 0..n : i \in Reached
  <2> HIDE DEF Reached, n
  <2> QED  BY <1>1, <1>2, <1>3, Closing!StepsInduction
<1>5. Good(n, Pulled(T, n))
  BY <1>1, <1>4
<1>6. \A t \in Pulled(T, n) : t >= n + 1 - n
  BY <1>1, <1>5
<1> QED  BY <1>1, <1>5, <1>6, PullChain DEF ClosedSet

-----------------------------------------------------------------------------
(* The answer key's depth-first visit is a closure. *)

Rests(u, v) == {u} \cup UNION {v[d] : d \in events[u].depends_on}
Visits(v, n) == v = [u \in 1..n |-> Rests(u, v)]
Visit == CHOOSE v : Visits(v, Len(events))

LEMMA VisitExists ==
  ASSUME IsSession
  PROVE  Visits(Visit, Len(events))
<1> DEFINE n == Len(events)
           Reached == {m \in 0..n : \E v : Visits(v, m)}
<1>1. n \in Nat
  BY SessionIs
<1>2. 0 \in Reached
  <2> DEFINE v == [u \in 1..0 |-> {}]
  <2>1. Visits(v, 0)
    BY DEF Visits
  <2> HIDE DEF v
  <2> QED  BY <1>1, <2>1
<1>3. ASSUME NEW m \in 1..n, m - 1 \in Reached  PROVE m \in Reached
  <2>1. PICK g : Visits(g, m - 1)
    BY <1>3
  <2> DEFINE h == [u \in 1..m |-> IF u = m THEN Rests(m, g) ELSE g[u]]
  <2>2. ASSUME NEW u \in 1..m  PROVE h[u] = Rests(u, h)
    <3>1. \A d \in events[u].depends_on : d \in 1..m /\ d # m
      <4>1. u \in 1..n
        BY <1>1
      <4>2. \A d \in 1..(u - 1) : d \in 1..m /\ d # m
        BY <1>1
      <4> QED  BY <4>1, <4>2, SessionIs
    <3>2. \A d \in events[u].depends_on : h[d] = g[d]
      BY <3>1
    <3>3. {h[d] : d \in events[u].depends_on} = {g[d] : d \in events[u].depends_on}
      BY <3>2
    <3>4. Rests(u, h) = Rests(u, g)
      <4> HIDE DEF h
      <4> QED  BY <3>3, Zenon DEF Rests
    <3>5. h[u] = Rests(u, g)
      <4>1. CASE u = m
        BY <4>1
      <4>2. CASE u # m
        <5>1. u \in 1..(m - 1)
          BY <1>1, <4>2
        <5>2. [x \in 1..(m - 1) |-> Rests(x, g)][u] = Rests(u, g)
          BY <5>1
        <5>3. g[u] = Rests(u, g)
          BY <2>1, <5>2, Zenon DEF Visits
        <5> QED  BY <4>2, <5>3
      <4> QED  BY <4>1, <4>2
    <3> QED  BY <3>4, <3>5
  <2>3. h = [u \in 1..m |-> h[u]]
    OBVIOUS
  <2> HIDE DEF h
  <2>4. [u \in 1..m |-> h[u]] = [u \in 1..m |-> Rests(u, h)]
    BY <2>2
  <2>5. Visits(h, m)
    BY <2>3, <2>4 DEF Visits
  <2> QED  BY <2>5
<1>4. \A m \in 0..n : m \in Reached
  <2> HIDE DEF Reached, n
  <2> QED  BY <1>1, <1>2, <1>3, Closing!StepsInduction
<1>5. \E v : Visits(v, n)
  BY <1>1, <1>4
<1> QED  BY <1>5, Zenon DEF Visit

LEMMA VisitedIs ==
  ASSUME IsSession, NEW t
  PROVE  Visited(events, t) = Visit[t]
<1>1. DOMAIN events = 1..Len(events)
  BY SessionIs
<1> QED  BY <1>1, Zenon DEF Visited, Turns, Visit, Visits, Rests

\* It holds the event, is closed, and is within what is closed and holds it.
LEMMA VisitedCloses ==
  ASSUME IsSession, NEW C, C \subseteq 1..Len(events), ClosedSet(C)
  PROVE  \A t \in 1..Len(events) :
           /\ t \in Visited(events, t) /\ Visited(events, t) \subseteq 1..Len(events)
           /\ ClosedSet(Visited(events, t))
           /\ t \in C => Visited(events, t) \subseteq C
<1> DEFINE n == Len(events)
           Good(t) == /\ t \in Visit[t] /\ Visit[t] \subseteq 1..n /\ ClosedSet(Visit[t])
                      /\ t \in C => Visit[t] \subseteq C
           Reached == {m \in 0..n : \A t \in 1..m : Good(t)}
<1>1. n \in Nat
  BY SessionIs
<1>2. 0 \in Reached
  BY <1>1
<1>3. \A t \in 1..n : Visit[t] = Rests(t, Visit)
  <2>1. \A t \in 1..n : [u \in 1..n |-> Rests(u, Visit)][t] = Rests(t, Visit)
    OBVIOUS
  <2> QED  BY <2>1, VisitExists, Zenon DEF Visits
<1>4. ASSUME NEW m \in 1..n, m - 1 \in Reached  PROVE m \in Reached
  <2>1. \A t \in 1..(m - 1) : Good(t)
    BY <1>4
  <2> HIDE DEF Good
  <2>2. \A d \in events[m].depends_on : d \in 1..n /\ Good(d)
    <3>1. events[m].depends_on \subseteq 1..(m - 1) /\ 1..(m - 1) \subseteq 1..n
      BY <1>1, SessionIs
    <3> QED  BY <2>1, <3>1
  <2>3. Visit[m] = {m} \cup UNION {Visit[d] : d \in events[m].depends_on}
    BY <1>3 DEF Rests
  <2>4. ClosedSet(Visit[m])
    <3>1. ASSUME NEW x \in Visit[m], NEW y \in events[x].depends_on  PROVE y \in Visit[m]
      <4>1. CASE x = m
        BY <2>2, <2>3, <3>1, <4>1 DEF Good
      <4>2. CASE x # m
        <5>1. PICK d \in events[m].depends_on : x \in Visit[d]
          BY <2>3, <4>2
        <5>2. y \in Visit[d]
          BY <2>2, <3>1, <5>1 DEF Good, ClosedSet
        <5> QED  BY <2>3, <5>1, <5>2
      <4> QED  BY <4>1, <4>2
    <3> QED  BY <3>1 DEF ClosedSet
  <2>5. Good(m)
    <3>1. m \in C => events[m].depends_on \subseteq C
      BY DEF ClosedSet
    <3> QED  BY <2>2, <2>3, <2>4, <3>1 DEF Good
  <2>6. \A t \in 1..m : t \in 1..(m - 1) \/ t = m
    BY <1>1
  <2> QED  BY <2>1, <2>5, <2>6
<1>5. \A m \in 0..n : m \in Reached
  <2> HIDE DEF Reached, n
  <2> QED  BY <1>1, <1>2, <1>4, Closing!StepsInduction
<1>6. \A t \in 1..n : Good(t)
  BY <1>1, <1>5
<1> QED  BY <1>6, VisitedIs

-----------------------------------------------------------------------------
(* What a query needs. *)

LEMMA ChosenIs ==
  ASSUME IsSession, NEW e \in Known(events, query), NEW version
  PROVE  Choice(events, e, version) \in Versions(events, e)
<1> DEFINE V == Versions(events, e)
<1>1. V \subseteq 1..Len(events) /\ V # {} /\ Len(events) \in Nat
  BY SessionIs DEF Versions, Turns, Known
<1> HIDE DEF V
<1>2. ASSUME NEW T \in SUBSET V, T # {}  PROVE Max(T) \in V /\ Min(T) \in V
  <2>1. T \in SUBSET (0..Len(events)) /\ T \in SUBSET Nat
    BY <1>1
  <2> QED  BY <1>1, <1>2, <2>1, GreatestIs, LeastIs
<1>3. Heads(events, V) \subseteq V /\ Roots(events, V) \subseteq V
  BY DEF Heads, Roots
<1> DEFINE H == IF Heads(events, V) = {} THEN V ELSE Heads(events, V)
           R == IF Roots(events, V) = {} THEN V ELSE Roots(events, V)
<1>4. H \in SUBSET V /\ H # {} /\ R \in SUBSET V /\ R # {}
  BY <1>1, <1>3
<1>5. Latest(events, V) \in V /\ First(events, V) \in V
  <2>1. Latest(events, V) = Max(H) /\ First(events, V) = Min(R)
    BY DEF Latest, First
  <2> HIDE DEF H, R
  <2> QED  BY <1>2, <1>4, <2>1
<1> QED  BY <1>5 DEF Choice, V

LEMMA TargetsIn ==
  ASSUME IsSession, NEW version
  PROVE  Targets(events, query, version) \subseteq 1..Len(events)
<1>1. ASSUME NEW e \in Known(events, query)
      PROVE  Choice(events, e, version) \in 1..Len(events)
  BY ChosenIs, SessionIs DEF Versions, Turns
<1> QED  BY <1>1 DEF Targets

LEMMA RequiredIs ==
  ASSUME IsSession, NEW version
  PROVE  /\ Targets(events, query, version) \subseteq Required(events, query, version)
         /\ Required(events, query, version) \subseteq 1..Len(events)
         /\ ClosedSet(Required(events, query, version))
BY TargetsIn, ClosureClosed DEF Required

\* The resolver and the answer key choose the same version, need the same events,
LEMMA CurrentIsLatest ==
  ASSUME IsSession, NEW e \in Known(events, query)
  PROVE  GoldCurrent(events, About(events, e)) = Latest(events, Versions(events, e))
<1> DEFINE V == Versions(events, e)
           superseded == {events[t].supersedes : t \in V}
           H == IF Heads(events, V) = {} THEN V ELSE Heads(events, V)
           candidates == IF V \subseteq superseded THEN V ELSE V \ superseded
<1>1. About(events, e) = V
  BY DEF About, Versions
<1>2. V \subseteq 1..Len(events) /\ V # {} /\ Len(events) \in Nat
  BY SessionIs DEF Versions, Turns, Known
<1>3. Heads(events, V) = V \ superseded
  BY DEF Heads
<1>4. candidates = H
  BY <1>3
<1>5. GoldCurrent(events, V) = CHOOSE t \in candidates : \A u \in candidates : u <= t
  BY DEF GoldCurrent
<1>6. Latest(events, V) = Max(H)
  BY DEF Latest
<1>7. H \in SUBSET (0..Len(events)) /\ H # {}
  BY <1>2, <1>3
<1> HIDE DEF V, superseded, H, candidates
<1>8. Max(H) \in H /\ \A u \in H : Max(H) >= u
  BY <1>2, <1>7, GreatestIs
<1>9. \A t \in H, u \in H : t \in Int /\ u \in Int
  BY <1>2, <1>7
<1>10. \A u \in H : u <= Max(H)
  BY <1>8, <1>9
<1>11. \A t \in H : (\A u \in H : u <= t) => t = Max(H)
  BY <1>8, <1>9
<1>12. (CHOOSE t \in H : \A u \in H : u <= t) = Max(H)
  BY <1>8, <1>10, <1>11, Zenon
<1> QED  BY <1>1, <1>4, <1>5, <1>6, <1>12 DEF V

\* ... and its completeness is the resolver's.
LEMMA KeyIsComplete ==
  ASSUME IsSession, query # {}
  PROVE  Gold(events, query).disposition
           = IF CompleteQuery(events, query) THEN "ready" ELSE "insufficient"
<1> DEFINE answered == {e \in query : About(events, e) # {}}
           current == {GoldCurrent(events, About(events, e)) : e \in answered}
<1>1. answered = Known(events, query)
  BY DEF About, Versions, Known
<1>2. answered # {} => current # {}
  OBVIOUS
<1>3. Gold(events, query).disposition
        = IF query = answered /\ current # {} THEN "ready" ELSE "insufficient"
  BY DEF Gold
<1> QED  BY <1>1, <1>2, <1>3 DEF CompleteQuery

LEMMA RequiredIsGold ==
  ASSUME IsSession
  PROVE  Required(events, query, "latest") = Gold(events, query).required
<1> DEFINE current == Targets(events, query, "latest")
           R == Required(events, query, "latest")
           G == UNION {Visited(events, t) : t \in current}
<1>1. Gold(events, query).required = G
  <2>1. current = {Latest(events, Versions(events, e)) : e \in Known(events, query)}
    BY DEF Targets, Choice
  <2>2. Known(events, query) = {e \in query : About(events, e) # {}}
    BY DEF About, Versions, Known
  <2>3. current = {GoldCurrent(events, About(events, e)) :
                     e \in {e \in query : About(events, e) # {}}}
    BY <2>1, <2>2, CurrentIsLatest
  <2> HIDE DEF current
  <2> QED  BY <2>3 DEF Gold
<1>2. current \subseteq R /\ R \subseteq 1..Len(events) /\ ClosedSet(R)
  BY RequiredIs
<1>3. R = Closure(events, current)
  BY DEF Required
<1> HIDE DEF current, R
<1>4. \A t \in current : /\ t \in Visited(events, t) /\ ClosedSet(Visited(events, t))
                         /\ Visited(events, t) \subseteq R
  BY <1>2, VisitedCloses
<1>5. G \subseteq R
  BY <1>4
<1>6. R \subseteq G
  <2>1. current \subseteq G
    BY <1>4
  <2>2. ClosedSet(G)
    BY <1>4 DEF ClosedSet
  <2> HIDE DEF G
  <2> QED  BY <1>3, <2>1, <2>2, ClosureLeast
<1> QED  BY <1>1, <1>5, <1>6 DEF R

-----------------------------------------------------------------------------
(* The order: an event comes out once what it depends on is out. *)

PopStep(chosen, out) ==
  LET available == {t \in chosen \ ToSet(out) :
                      events[t].depends_on \cap chosen \subseteq ToSet(out)}
  IN Append(out, Max(available))

Popping == INSTANCE FoldLemmas WITH op <- PopStep, pick <- Greatest

Every(chosen, k) == [i \in 1..k |-> chosen]
Popped(chosen, k, i) == Popping!Fold(Every(chosen, k), <<>>, 1..i)

PopSolves(chosen, D, g) ==
  g = [s \in SUBSET D |-> IF s = {} THEN <<>> ELSE PopStep(chosen, g[s \ {Greatest(s)}])]
PopSolution(chosen, D) == (CHOOSE g : PopSolves(chosen, D, g))[D]

LEMMA PopFolds ==
  ASSUME NEW chosen, NEW k \in Nat
  PROVE  PopSolution(chosen, 1..k) = Popping!Fold(Every(chosen, k), <<>>, 1..k)
<1>1. \A s \in SUBSET (1..k) : Greatest(s) = CHOOSE x \in s : \A y \in s : x >= y
  BY DEF Greatest
<1>2. Popping!Picks(1..k)
  BY <1>1, Popping!LastPicks
<1>3. ASSUME NEW g, NEW s \in SUBSET (1..k)
      PROVE  Popping!Step(Every(chosen, k), <<>>, s, g)
               = IF s = {} THEN <<>> ELSE PopStep(chosen, g[s \ {Greatest(s)}])
  <2>1. s # {} => Greatest(s) \in 1..k
    BY <1>2 DEF Popping!Picks
  <2>2. s # {} => Every(chosen, k)[Greatest(s)] = chosen
    BY <2>1 DEF Every
  <2> QED  BY <2>2, Zenon DEF Popping!Step
<1>4. ASSUME NEW g
      PROVE  Popping!Solves(Every(chosen, k), <<>>, 1..k, g) <=> PopSolves(chosen, 1..k, g)
  <2>1. [s \in SUBSET (1..k) |-> Popping!Step(Every(chosen, k), <<>>, s, g)]
          = [s \in SUBSET (1..k) |-> IF s = {} THEN <<>>
                                     ELSE PopStep(chosen, g[s \ {Greatest(s)}])]
    BY <1>3, Zenon
  <2> QED  BY <2>1, Zenon DEF Popping!Solves, PopSolves
<1>5. (CHOOSE g : Popping!Solves(Every(chosen, k), <<>>, 1..k, g))
        = (CHOOSE g : PopSolves(chosen, 1..k, g))
  BY <1>4, Zenon
<1> QED  BY <1>5, Zenon DEF Popping!Fold, PopSolution

LEMMA PopChain ==
  ASSUME NEW chosen, Cardinality(chosen) \in Nat
  PROVE  LET k == Cardinality(chosen) IN
         /\ Popped(chosen, k, 0) = <<>>
         /\ \A i \in 1..k : Popped(chosen, k, i) = PopStep(chosen, Popped(chosen, k, i - 1))
         /\ TopologicalRecent(events, chosen) = Popped(chosen, k, k)
<1> DEFINE k == Cardinality(chosen)
           f == Every(chosen, k)
           seq == [i \in 1..k |-> i]
<1>1. k \in Nat /\ DOMAIN seq = 1..k
  OBVIOUS
<1>2. \A s \in SUBSET (1..k) : Greatest(s) = CHOOSE x \in s : \A y \in s : x >= y
  BY DEF Greatest
<1>3. Popping!IsChain(f, <<>>, k)
  <2> HIDE DEF k, f
  <2> QED  BY <1>1, <1>2, Popping!FoldChain
<1>4. \A i \in 1..k : f[i] = chosen
  BY DEF Every
<1>5. TopologicalRecent(events, chosen) = PopSolution(chosen, 1..k)
  <2>1. TopologicalRecent(events, chosen)
          = PopSolution(chosen, DOMAIN [i \in 1..Cardinality(chosen) |-> i])
    BY DEF TopologicalRecent, FoldLeft, MapThenFoldSet, PopSolution, PopSolves, PopStep,
           Greatest, Max
  <2> QED  BY <1>1, <2>1
<1>6. TopologicalRecent(events, chosen) = Popping!Fold(f, <<>>, 1..k)
  <2> HIDE DEF k
  <2> QED  BY <1>1, <1>5, PopFolds
<1>7. /\ Popping!Fold(f, <<>>, 1..0) = <<>>
      /\ \A i \in 1..k : Popping!Fold(f, <<>>, 1..i)
                           = PopStep(f[i], Popping!Fold(f, <<>>, 1..(i - 1)))
  BY <1>3 DEF Popping!IsChain
<1> QED  BY <1>4, <1>6, <1>7 DEF Popped

Explained(out) ==
  \A j \in 1..Len(out) : \A d \in events[out[j]].depends_on : \E h \in 1..(j - 1) : out[h] = d

\* Some events of Z, each once, none before what it depends on.
Partial(out, Z, i) ==
  /\ out \in Seq(Z) /\ Len(out) = i /\ Explained(out)
  /\ IsFiniteSet(ToSet(out)) /\ Cardinality(ToSet(out)) = i

LEMMA ElementsOf ==
  ASSUME NEW Z, NEW out \in Seq(Z)
  PROVE  /\ Len(out) \in Nat /\ DOMAIN out = 1..Len(out)
         /\ ToSet(out) \subseteq Z
         /\ \A t : t \in ToSet(out) <=> \E j \in 1..Len(out) : out[j] = t
BY DEF ToSet

LEMMA PopGrows ==
  ASSUME IsSession, NEW Z \in SUBSET (1..Len(events)), ClosedSet(Z),
         IsFiniteSet(Z), Cardinality(Z) \in Nat,
         NEW i \in Nat, i < Cardinality(Z), NEW out, Partial(out, Z, i)
  PROVE  Partial(PopStep(Z, out), Z, i + 1)
<1> DEFINE n == Len(events)
           O == ToSet(out)
           A == {t \in Z \ O : events[t].depends_on \cap Z \subseteq O}
           x == Max(A)
           next == Append(out, x)
<1>1. /\ out \in Seq(Z) /\ Len(out) = i /\ O \subseteq Z /\ IsFiniteSet(O)
      /\ Cardinality(O) = i /\ Explained(out) /\ n \in Nat /\ Z \subseteq 1..n
      /\ \A t : t \in O <=> \E j \in 1..i : out[j] = t
  BY ElementsOf, SessionIs DEF Partial
<1>2. PopStep(Z, out) = next
  BY DEF PopStep
<1>3. A # {}
  <2>1. Z \ O # {}
    <3>1. O # Z
      <4> HIDE DEF O
      <4> QED  BY <1>1
    <3> HIDE DEF O
    <3> QED  BY <1>1, <3>1
  <2>2. Z \ O \in SUBSET Nat
    <3>1. \A t \in Z : t \in Nat
      BY <1>1
    <3> HIDE DEF O
    <3> QED  BY <3>1
  <2>3. PICK m \in Z \ O : \A u \in Z \ O : m <= u
    <3> HIDE DEF O
    <3> QED  BY <2>1, <2>2, Closing!LeastOfNaturals
  <2>4. \A d \in events[m].depends_on : d \in Z /\ d \in Nat /\ m \in Nat /\ d < m
    BY <1>1, <2>3, SessionIs DEF ClosedSet
  <2>5. \A d \in events[m].depends_on : d \in O
    BY <2>3, <2>4
  <2> QED  BY <2>3, <2>5
<1>4. x \in Z \ O /\ \A d \in events[x].depends_on : d \in O
  <2>1. A \in SUBSET (0..n)
    <3>1. \A t \in Z : t \in 0..n
      BY <1>1
    <3> HIDE DEF O, n
    <3> QED  BY <3>1
  <2>2. x \in A
    <3> HIDE DEF A, n
    <3> QED  BY <1>1, <1>3, <2>1, GreatestIs
  <2>3. A \subseteq Z \ O /\ \A t \in A : events[t].depends_on \cap Z \subseteq O
    OBVIOUS
  <2> HIDE DEF x, A, O
  <2>4. events[x].depends_on \subseteq Z
    BY <2>2, <2>3 DEF ClosedSet
  <2> QED  BY <2>2, <2>3, <2>4
<1> HIDE DEF x, O, A
<1>5. /\ next \in Seq(Z) /\ Len(next) = i + 1 /\ next[i + 1] = x
      /\ \A j \in 1..i : next[j] = out[j]
  BY <1>1, <1>4
<1> HIDE DEF next
<1>6. ToSet(next) = O \cup {x}
  <2>1. \A t : t \in ToSet(next) <=> \E j \in 1..(i + 1) : next[j] = t
    BY <1>5, ElementsOf
  <2>2. \A j : j \in 1..(i + 1) <=> j \in 1..i \/ j = i + 1
    OBVIOUS
  <2>3. \A t : t \in ToSet(next) <=> t \in O \/ t = x
    BY <1>1, <1>5, <2>1, <2>2
  <2> QED  BY <2>3
<1>7. IsFiniteSet(ToSet(next)) /\ Cardinality(ToSet(next)) = i + 1
  <2>1. IsFiniteSet(O \cup {x}) /\ Cardinality(O \cup {x}) = Cardinality(O) + 1
    BY <1>1, <1>4, FS_AddElement
  <2> QED  BY <1>1, <1>6, <2>1
<1>8. Explained(next)
  <2>1. ASSUME NEW j \in 1..(i + 1), NEW d \in events[next[j]].depends_on
        PROVE  \E h \in 1..(j - 1) : next[h] = d
    <3>1. CASE j \in 1..i
      <4>1. next[j] = out[j]
        BY <1>5, <3>1
      <4>2. PICK h \in 1..(j - 1) : out[h] = d
        BY <1>1, <2>1, <3>1, <4>1 DEF Explained
      <4>3. h \in 1..i
        BY <3>1
      <4> QED  BY <1>5, <4>2, <4>3
    <3>2. CASE j = i + 1
      <4>1. d \in O
        BY <1>4, <1>5, <2>1, <3>2
      <4>2. PICK h \in 1..i : out[h] = d
        BY <1>1, <4>1
      <4>3. h \in 1..(j - 1)
        BY <3>2
      <4> QED  BY <1>5, <4>2, <4>3
    <3> QED  BY <2>1, <3>1, <3>2
  <2> QED  BY <1>5, <2>1 DEF Explained
<1> QED  BY <1>2, <1>5, <1>7, <1>8 DEF Partial

LEMMA Ordering ==
  ASSUME IsSession, NEW Z \in SUBSET (1..Len(events)), ClosedSet(Z)
  PROVE  LET out == TopologicalRecent(events, Z) IN
         /\ out \in Seq(Z) /\ ToSet(out) = Z /\ Explained(out)
         /\ Cardinality(Z) \in Nat /\ Len(out) = Cardinality(Z)
<1> DEFINE k == Cardinality(Z)
           Reached == {i \in 0..k : Partial(Popped(Z, k, i), Z, i)}
<1>1. IsFiniteSet(Z) /\ k \in Nat
  <2>1. IsFiniteSet(1..Len(events))
    <3>1. 1 \in Int /\ Len(events) \in Int
      BY SessionIs
    <3> QED  BY <3>1, FS_Interval
  <2>2. IsFiniteSet(Z)
    BY <2>1, FS_Subset
  <2> QED  BY <2>2, FS_CardinalityType
<1>2. /\ Popped(Z, k, 0) = <<>>
      /\ \A i \in 1..k : Popped(Z, k, i) = PopStep(Z, Popped(Z, k, i - 1))
      /\ TopologicalRecent(events, Z) = Popped(Z, k, k)
  BY <1>1, PopChain
<1>3. Partial(<<>>, Z, 0)
  <2>1. <<>> \in Seq(Z) /\ Len(<<>>) = 0 /\ ToSet(<<>>) = {}
    BY DEF ToSet
  <2>2. Explained(<<>>)
    BY <2>1 DEF Explained
  <2>3. IsFiniteSet({}) /\ Cardinality({}) = 0
    BY FS_EmptySet
  <2>4. IsFiniteSet(ToSet(<<>>)) /\ Cardinality(ToSet(<<>>)) = 0
    BY <2>1, <2>3, Zenon
  <2> QED  BY <2>1, <2>2, <2>4 DEF Partial
<1> HIDE DEF k
<1>4. ASSUME NEW i \in 1..k, i - 1 \in Reached  PROVE i \in Reached
  <2>1. i - 1 \in Nat /\ i - 1 < k /\ i - 1 + 1 = i /\ Partial(Popped(Z, k, i - 1), Z, i - 1)
    BY <1>1, <1>4
  <2>2. Partial(PopStep(Z, Popped(Z, k, i - 1)), Z, i - 1 + 1)
    BY <1>1, <2>1, PopGrows DEF k
  <2>3. Partial(Popped(Z, k, i), Z, i)
    BY <1>2, <2>1, <2>2
  <2> QED  BY <2>3
<1>5. 0 \in Reached
  BY <1>1, <1>2, <1>3
<1>6. \A i \in 0..k : i \in Reached
  <2> HIDE DEF Reached
  <2> QED  BY <1>1, <1>4, <1>5, Closing!StepsInduction
<1> DEFINE out == TopologicalRecent(events, Z)
<1>7. Partial(out, Z, k)
  BY <1>1, <1>2, <1>6
<1> HIDE DEF out
<1>8. ToSet(out) = Z
  <2>1. ToSet(out) \in SUBSET Z /\ Cardinality(ToSet(out)) = Cardinality(Z)
    BY <1>7, ElementsOf DEF Partial, k
  <2> QED  BY <1>1, <2>1, FS_Subset
<1> QED  BY <1>1, <1>7, <1>8 DEF Partial, out, k

\* A prefix of such an order is one too, of a closed set.
LEMMA PrefixExplained ==
  ASSUME IsSession, NEW Z \in SUBSET (1..Len(events)), NEW out \in Seq(Z), Explained(out),
         NEW m \in 0..Len(out)
  PROVE  LET prefix == SubSeq(out, 1, m) IN
         /\ prefix \in Seq(Z) /\ Len(prefix) = m /\ Explained(prefix)
         /\ ToSet(prefix) \subseteq Z /\ ClosedSet(ToSet(prefix))
<1> DEFINE prefix == SubSeq(out, 1, m)
<1>1. /\ prefix \in Seq(Z) /\ Len(prefix) = m /\ Len(out) \in Nat
      /\ \A j \in 1..m : prefix[j] = out[j] /\ j \in 1..Len(out)
  OBVIOUS
<1> HIDE DEF prefix
<1>2. Explained(prefix)
  <2>1. ASSUME NEW j \in 1..m, NEW d \in events[prefix[j]].depends_on
        PROVE  \E h \in 1..(j - 1) : prefix[h] = d
    <3>1. PICK h \in 1..(j - 1) : out[h] = d
      BY <1>1, <2>1 DEF Explained
    <3>2. h \in 1..m
      BY <1>1
    <3> QED  BY <1>1, <3>1, <3>2
  <2> QED  BY <1>1, <2>1 DEF Explained
<1>3. ClosedSet(ToSet(prefix))
  <2>1. \A t : t \in ToSet(prefix) <=> \E j \in 1..m : prefix[j] = t
    BY <1>1, ElementsOf
  <2>2. ASSUME NEW t \in ToSet(prefix), NEW d \in events[t].depends_on
        PROVE  d \in ToSet(prefix)
    <3>1. PICK j \in 1..m : prefix[j] = t
      BY <2>1
    <3>2. PICK h \in 1..(j - 1) : prefix[h] = d
      BY <1>1, <1>2, <2>2, <3>1 DEF Explained
    <3>3. h \in 1..m
      BY <1>1
    <3> QED  BY <2>1, <3>2, <3>3
  <2> QED  BY <2>2 DEF ClosedSet
<1> QED  BY <1>1, <1>2, <1>3, ElementsOf DEF prefix

-----------------------------------------------------------------------------
(* The filler. *)

FillOne(budget, reason, back, selected) ==
  LET t == Len(events) + 1 - back
      more == selected \cup FillerClosure(selected, t)
  IN IF t \notin selected /\ events[t].entity \notin query
        /\ Tokens(Cardinality(more), reason) <= budget
     THEN more ELSE selected
FillStep(e, selected) == FillOne(e.budget, e.reason, e.back, selected)

Filling == INSTANCE FoldLemmas WITH op <- FillStep, pick <- Greatest

Turn == [i \in 1..Len(events) |-> i]
Fillers(budget, reason) ==
  [i \in 1..Len(events) |-> [back |-> i, budget |-> budget, reason |-> reason]]
FilledTo(start, budget, reason, i) == Filling!Fold(Fillers(budget, reason), start, 1..i)

FillSolves(start, budget, reason, D, g) ==
  g = [s \in SUBSET D |->
         IF s = {} THEN start
         ELSE FillOne(budget, reason, Turn[Greatest(s)], g[s \ {Greatest(s)}])]
FillSolution(start, budget, reason, D) == (CHOOSE g : FillSolves(start, budget, reason, D, g))[D]

LEMMA FillRecord ==
  ASSUME NEW i, NEW budget, NEW reason, NEW c
  PROVE  FillStep([back |-> i, budget |-> budget, reason |-> reason], c)
           = FillOne(budget, reason, i, c)
<1> DEFINE e == [back |-> i, budget |-> budget, reason |-> reason]
<1>1. e.back = i /\ e.budget = budget /\ e.reason = reason
  OBVIOUS
<1> HIDE DEF e
<1>2. FillStep(e, c) = FillOne(budget, reason, i, c)
  BY <1>1, Zenon DEF FillStep
<1> QED  BY <1>2 DEF e

LEMMA FillFolds ==
  ASSUME IsSession, NEW start, NEW budget, NEW reason
  PROVE  FillSolution(start, budget, reason, 1..Len(events))
           = FilledTo(start, budget, reason, Len(events))
<1> DEFINE n == Len(events)
           f == Fillers(budget, reason)
<1>1. /\ n \in Nat
      /\ \A s \in SUBSET (1..n) : Greatest(s) = CHOOSE x \in s : \A y \in s : x >= y
  BY SessionIs DEF Greatest
<1>2. Filling!Picks(1..n)
  <2> HIDE DEF n
  <2> QED  BY <1>1, Filling!LastPicks
<1>3. \A i \in 1..n : /\ Turn[i] = i
                      /\ f[i] = [back |-> i, budget |-> budget, reason |-> reason]
  BY DEF Turn, Fillers
<1>4. ASSUME NEW i \in 1..n, NEW c
      PROVE  FillStep(f[i], c) = FillOne(budget, reason, Turn[i], c)
  <2>1. Turn[i] = i /\ f[i] = [back |-> i, budget |-> budget, reason |-> reason]
    BY <1>3
  <2> QED  BY <2>1, FillRecord
<1> HIDE DEF n, f
<1>5. ASSUME NEW g, NEW s \in SUBSET (1..n)
      PROVE  Filling!Step(f, start, s, g)
               = IF s = {} THEN start
                 ELSE FillOne(budget, reason, Turn[Greatest(s)], g[s \ {Greatest(s)}])
  <2>1. s # {} => Greatest(s) \in 1..n
    BY <1>2 DEF Filling!Picks
  <2> QED  BY <1>4, <2>1, Zenon DEF Filling!Step
<1>6. ASSUME NEW g
      PROVE  Filling!Solves(f, start, 1..n, g) <=> FillSolves(start, budget, reason, 1..n, g)
  <2>1. [s \in SUBSET (1..n) |-> Filling!Step(f, start, s, g)]
          = [s \in SUBSET (1..n) |->
               IF s = {} THEN start
               ELSE FillOne(budget, reason, Turn[Greatest(s)], g[s \ {Greatest(s)}])]
    BY <1>5, Zenon
  <2> QED  BY <2>1, Zenon DEF Filling!Solves, FillSolves
<1>7. (CHOOSE g : Filling!Solves(f, start, 1..n, g))
        = (CHOOSE g : FillSolves(start, budget, reason, 1..n, g))
  BY <1>6, Zenon
<1> QED  BY <1>7, Zenon DEF Filling!Fold, FillSolution, FilledTo, f, n

LEMMA FillChain ==
  ASSUME IsSession, NEW start, NEW budget, NEW reason
  PROVE  Filling!IsChain(Fillers(budget, reason), start, Len(events))
<1> DEFINE n == Len(events)
           f == Fillers(budget, reason)
<1>1. n \in Nat /\ \A s \in SUBSET (1..n) : Greatest(s) = CHOOSE x \in s : \A y \in s : x >= y
  BY SessionIs DEF Greatest
<1> HIDE DEF n, f
<1>2. Filling!IsChain(f, start, n)
  BY <1>1, Filling!FoldChain
<1> QED  BY <1>2 DEF f, n

LEMMA FillStart ==
  ASSUME IsSession, NEW start, NEW budget, NEW reason
  PROVE  FilledTo(start, budget, reason, 0) = start
BY FillChain DEF Filling!IsChain, FilledTo

LEMMA FillNext ==
  ASSUME IsSession, NEW start, NEW budget, NEW reason, NEW i \in 1..Len(events)
  PROVE  FilledTo(start, budget, reason, i)
           = FillOne(budget, reason, i, FilledTo(start, budget, reason, i - 1))
<1> DEFINE f == Fillers(budget, reason)
           c == Filling!Fold(f, start, 1..(i - 1))
<1>1. f[i] = [back |-> i, budget |-> budget, reason |-> reason]
  BY DEF Fillers
<1> HIDE DEF f
<1>2. Filling!IsChain(f, start, Len(events))
  BY FillChain DEF f
<1>3. Filling!Fold(f, start, 1..i) = FillStep(f[i], c)
  BY <1>2, Zenon DEF Filling!IsChain
<1> HIDE DEF c
<1>4. FillStep(f[i], c) = FillOne(budget, reason, i, c)
  BY <1>1, FillRecord
<1> QED  BY <1>3, <1>4 DEF FilledTo, f, c

\* Fillers come with what they depend on, and report no queried entity.
LEMMA FillerIs ==
  ASSUME IsSession, NEW B \in SUBSET (1..Len(events)), ClosedSet(B),
         NEW t \in 1..Len(events), NEW budget, NEW reason, NEW back, t = Len(events) + 1 - back
  PROVE  LET more == FillOne(budget, reason, back, B) IN
         /\ B \subseteq more /\ more \subseteq 1..Len(events) /\ ClosedSet(more)
         /\ \A u \in more \ B : events[u].entity \notin query
<1> DEFINE C == Closure(events, {t})
           F == FillerClosure(B, t)
<1>1. C \subseteq 1..Len(events) /\ ClosedSet(C)
  BY ClosureClosed
<1>2. \/ F = {}
      \/ F = C \ B /\ \A u \in F : events[u].entity \notin query
  BY DEF FillerClosure
<1>3. \/ FillOne(budget, reason, back, B) = B
      \/ FillOne(budget, reason, back, B) = B \cup F
  BY DEF FillOne
<1> HIDE DEF C, F
<1>4. ClosedSet(B \cup C)
  BY <1>1 DEF ClosedSet
<1>5. B \cup (C \ B) = B \cup C
  OBVIOUS
<1> DEFINE more == FillOne(budget, reason, back, B)
<1>6. \/ more = B
      \/ more = B \cup C /\ \A u \in more \ B : events[u].entity \notin query
  <2> HIDE DEF more
  <2> QED  BY <1>2, <1>3, <1>5 DEF more
<1> HIDE DEF more
<1> QED  BY <1>1, <1>4, <1>6 DEF more

LEMMA FilledIs ==
  ASSUME IsSession, NEW B \in SUBSET (1..Len(events)), ClosedSet(B), NEW budget, NEW reason
  PROVE  LET chosen == FilledTo(B, budget, reason, Len(events)) IN
         /\ B \subseteq chosen /\ chosen \subseteq 1..Len(events) /\ ClosedSet(chosen)
         /\ \A u \in chosen \ B : events[u].entity \notin query
<1> DEFINE n == Len(events)
           Good(c) == /\ B \subseteq c /\ c \subseteq 1..n /\ ClosedSet(c)
                      /\ \A u \in c \ B : events[u].entity \notin query
           Reached == {i \in 0..n : Good(FilledTo(B, budget, reason, i))}
<1>1. n \in Nat
  BY SessionIs
<1>2. 0 \in Reached
  <2>1. FilledTo(B, budget, reason, 0) = B
    BY FillStart
  <2>2. Good(B)
    OBVIOUS
  <2>3. Good(FilledTo(B, budget, reason, 0))
    <3> HIDE DEF Good
    <3> QED  BY <2>1, <2>2
  <2> HIDE DEF Good
  <2> QED  BY <1>1, <2>3
<1>3. ASSUME NEW i \in 1..n, i - 1 \in Reached  PROVE i \in Reached
  <2> DEFINE c == FilledTo(B, budget, reason, i - 1)
             t == n + 1 - i
             more == FillOne(budget, reason, i, c)
  <2>1. Good(c)
    BY <1>3
  <2>2. FilledTo(B, budget, reason, i) = more
    BY FillNext
  <2>3. t \in 1..n
    BY <1>1
  <2> HIDE DEF c, more
  <2>4. c \in SUBSET (1..Len(events)) /\ ClosedSet(c)
    BY <2>1
  <2>5. /\ c \subseteq more /\ more \subseteq 1..n /\ ClosedSet(more)
        /\ \A u \in more \ c : events[u].entity \notin query
    <3> HIDE DEF t
    <3>1. t = Len(events) + 1 - i
      BY DEF t
    <3> QED  BY <2>3, <2>4, <3>1, FillerIs DEF more
  <2>6. Good(more)
    BY <2>1, <2>5
  <2>7. Good(FilledTo(B, budget, reason, i))
    <3> HIDE DEF Good
    <3> QED  BY <2>2, <2>6
  <2> HIDE DEF Good
  <2> QED  BY <2>7
<1>4. \A i \in 0..n : i \in Reached
  <2> HIDE DEF Reached, n
  <2> QED  BY <1>1, <1>2, <1>3, Closing!StepsInduction
<1>5. Good(FilledTo(B, budget, reason, n))
  BY <1>1, <1>4
<1> QED  BY <1>5

\* The context that the filler makes of one that has the events B.
LEMMA FilledContext ==
  ASSUME IsSession, NEW base, NEW budget,
         ToSet(base.selected) \subseteq 1..Len(events), ClosedSet(ToSet(base.selected))
  PROVE  LET x == Filled(budget, base)
             B == ToSet(base.selected) IN
         /\ x.reason = base.reason /\ x.framed
         /\ x.selected \in Seq(1..Len(events)) /\ Explained(x.selected)
         /\ B \subseteq ToSet(x.selected)
         /\ \A u \in ToSet(x.selected) \ B : events[u].entity \notin query
<1> DEFINE n == Len(events)
           B == ToSet(base.selected)
           chosen == FilledTo(B, budget, base.reason, n)
           out == TopologicalRecent(events, chosen)
<1>1. Filled(budget, base)
        = Context(TopologicalRecent(events,
                      FillSolution(B, budget, base.reason, DOMAIN Turn)), base.reason)
  BY DEF Filled, FoldLeft, MapThenFoldSet, FillSolution, FillSolves, FillOne, Turn,
         Greatest, Max
<1>2. DOMAIN Turn = 1..n
  BY DEF Turn
<1>3. FillSolution(B, budget, base.reason, 1..n) = chosen
  BY FillFolds
<1>4. Filled(budget, base) = Context(out, base.reason)
  <2> HIDE DEF B, n, chosen
  <2> QED  BY <1>1, <1>2, <1>3
<1>5. /\ B \subseteq chosen /\ chosen \subseteq 1..n /\ ClosedSet(chosen)
      /\ \A u \in chosen \ B : events[u].entity \notin query
  <2> HIDE DEF B
  <2> QED  BY FilledIs DEF B
<1> HIDE DEF chosen
<1>6. out \in Seq(chosen) /\ ToSet(out) = chosen /\ Explained(out)
  BY <1>5, Ordering
<1> HIDE DEF out, B, n
<1>7. out \in Seq(1..n)
  <2>1. \A X, Y : X \subseteq Y /\ out \in Seq(X) => out \in Seq(Y)
    OBVIOUS
  <2> QED  BY <1>5, <1>6, <2>1
<1>8. /\ Filled(budget, base).selected = out /\ Filled(budget, base).reason = base.reason
      /\ Filled(budget, base).framed
  BY <1>4 DEF Context
<1> QED  BY <1>5, <1>6, <1>7, <1>8 DEF B, n

-----------------------------------------------------------------------------
(* What the treatments select. *)

Fits(n, reason, budget) == Tokens(n, reason) <= budget

LEMMA ContextIs ==
  ASSUME NEW s, NEW reason, NEW budget
  PROVE  /\ Context(s, reason).selected = s /\ Context(s, reason).reason = reason
         /\ Context(s, reason).framed
         /\ Fit(Context(s, reason), budget) <=> Fits(Len(s), reason, budget)
BY DEF Context, Fit, Fits

LEMMA TokensIs ==
  ASSUME NEW n \in Nat
  PROVE  /\ Tokens(n, "ready") = n + 2
         /\ Tokens(n, "budget") = n + 3 /\ Tokens(n, "insufficient_evidence") = n + 3
         /\ Tokens(n, "tail_omitted_required_evidence") = n + 4
BY DEF Tokens, ReasonTokens

LEMMA MinimalIs ==
  ASSUME NEW budget
  PROVE  /\ MinimalMissing(budget).selected = <<>> /\ MinimalMissing(budget).reason = "budget"
         /\ MinimalMissing(budget).framed <=> budget >= 3
BY DEF MinimalMissing

TailShape(x, budget) ==
  \/ x.selected = <<>> /\ x.reason = "budget" /\ (x.framed => budget >= 3)
  \/ \E m \in 0..Len(events) :
       /\ ToSet(x.selected) \subseteq (Len(events) - m + 1)..Len(events)
       /\ \/ x.reason = "ready" /\ CompleteQuery(events, query) /\ m + 2 <= budget
          \/ x.reason = "tail_omitted_required_evidence" /\ m + 4 <= budget

LEMMA TailShapes ==
  ASSUME IsSession, NEW budget \in Nat
  PROVE  TailShape(TailSelection(budget), budget)
<1> DEFINE n == Len(events)
           required == Required(events, query, "latest")
           Newest(m) == [i \in 1..m |-> n - m + i]
           reason(m) == IF TailReady(required, Newest(m)) THEN "ready"
                        ELSE "tail_omitted_required_evidence"
           Window(m) == Context(Newest(m), reason(m))
           fitting == {m \in 0..n : Fit(Window(m), budget)}
           x == TailSelection(budget)
<1>1. n \in Nat
  BY SessionIs
<1>2. x = IF fitting = {} THEN MinimalMissing(budget) ELSE Window(Max(fitting))
  BY DEF TailSelection
<1>3. CASE fitting = {}
  <2>1. x = MinimalMissing(budget)
    BY <1>2, <1>3
  <2> HIDE DEF x
  <2> QED  BY <2>1, MinimalIs DEF TailShape, x
<1>4. CASE fitting # {}
  <2> DEFINE m == Max(fitting)
  <2>1. m \in fitting
    <3>1. fitting \in SUBSET (0..n)
      OBVIOUS
    <3> HIDE DEF fitting, n
    <3> QED  BY <1>1, <1>4, <3>1, GreatestIs
  <2>2. m \in 0..n /\ Fit(Window(m), budget) /\ x = Window(m)
    BY <1>2, <1>4, <2>1
  <2> HIDE DEF m, x, fitting, required
  <2>3. /\ x.selected = Newest(m) /\ x.reason = reason(m)
        /\ Fits(Len(Newest(m)), reason(m), budget)
    <3>1. Window(m) = Context(Newest(m), reason(m))
      OBVIOUS
    <3> HIDE DEF Window, Newest, reason
    <3> QED  BY <2>2, <3>1, ContextIs
  <2>4. Len(Newest(m)) = m /\ m \in Nat
    BY <1>1, <2>2
  <2>5. ToSet(Newest(m)) \subseteq (n - m + 1)..n
    <3>1. \A i \in 1..m : n - m + i \in (n - m + 1)..n
      BY <1>1, <2>4
    <3> QED  BY <2>4, <3>1 DEF ToSet
  <2>6. CASE reason(m) = "ready"
    <3>1. CompleteQuery(events, query)
      BY <2>6 DEF TailReady
    <3>2. m + 2 <= budget
      BY <2>3, <2>4, <2>6, TokensIs DEF Fits
    <3> QED  BY <2>2, <2>3, <2>5, <2>6, <3>1, <3>2 DEF TailShape, x
  <2>7. CASE reason(m) # "ready"
    <3>1. reason(m) = "tail_omitted_required_evidence"
      BY <2>7
    <3>2. m + 4 <= budget
      BY <2>3, <2>4, <3>1, TokensIs DEF Fits
    <3> QED  BY <2>2, <2>3, <2>5, <3>1, <3>2 DEF TailShape, x
  <2> QED  BY <2>6, <2>7
<1> QED  BY <1>3, <1>4

StateShape(x, required, budget) ==
  /\ x.selected \in Seq(1..Len(events)) /\ Explained(x.selected)
  /\ \A u \in ToSet(x.selected) : u \in required \/ events[u].entity \notin query
  /\ x.reason = "ready" => CompleteQuery(events, query)
  /\ budget >= 3 => x.framed
  /\ CompleteQuery(events, query) /\ Cardinality(required) + 2 <= budget
       => x.reason = "ready" /\ required \subseteq ToSet(x.selected)
  /\ ~CompleteQuery(events, query) /\ Cardinality(required) + 3 <= budget
       => required \subseteq ToSet(x.selected)

LEMMA StateShapes ==
  ASSUME IsSession, NEW budget \in Nat, NEW version
  PROVE  /\ StateShape(StateSelection(budget, version),
                       Required(events, query, version), budget)
         /\ Cardinality(Required(events, query, version)) \in Nat
<1> DEFINE R == Required(events, query, version)
           ordered == TopologicalRecent(events, R)
           complete == CompleteQuery(events, query)
           reason == IF complete THEN "budget" ELSE "insufficient_evidence"
           Prefix(m) == Context(SubSeq(ordered, 1, m), reason)
           fitting == {m \in 0..Len(ordered) : Fit(Prefix(m), budget)}
           x == StateSelection(budget, version)
           whole == Context(ordered, "ready")
<1>1. x = IF complete /\ Fit(whole, budget) THEN Filled(budget, whole)
          ELSE IF fitting = {} THEN MinimalMissing(budget)
          ELSE Filled(budget, Prefix(Max(fitting)))
  BY DEF StateSelection
<1>2. R \in SUBSET (1..Len(events)) /\ ClosedSet(R)
  BY RequiredIs
<1> HIDE DEF R
<1>3. /\ ordered \in Seq(R) /\ ToSet(ordered) = R /\ Explained(ordered)
      /\ Cardinality(R) \in Nat /\ Len(ordered) = Cardinality(R)
  BY <1>2, Ordering
<1> HIDE DEF ordered, x, complete
<1>4. CASE complete /\ Fit(whole, budget)
  <2>1. x = Filled(budget, whole)
    BY <1>1, <1>4
  <2>2. whole.selected = ordered /\ whole.reason = "ready"
    BY ContextIs
  <2> HIDE DEF whole
  <2>3. /\ x.reason = "ready" /\ x.framed
        /\ x.selected \in Seq(1..Len(events)) /\ Explained(x.selected)
        /\ R \subseteq ToSet(x.selected)
        /\ \A u \in ToSet(x.selected) \ R : events[u].entity \notin query
    BY <1>2, <1>3, <2>1, <2>2, FilledContext
  <2>4. StateShape(x, R, budget)
    BY <1>4, <2>3 DEF StateShape, complete
  <2> QED  BY <1>3, <2>4 DEF x, R
<1>5. CASE ~(complete /\ Fit(whole, budget)) /\ fitting = {}
  <2>1. x.selected = <<>> /\ x.reason = "budget" /\ (budget >= 3 => x.framed)
    BY <1>1, <1>5, MinimalIs
  <2>2. <<>> \in Seq(1..Len(events)) /\ Explained(<<>>) /\ ToSet(<<>>) = {}
    BY DEF Explained, ToSet
  <2>3. ~(complete /\ Cardinality(R) + 2 <= budget)
    BY <1>3, <1>5, ContextIs, TokensIs DEF Fits
  <2>4. ~(~complete /\ Cardinality(R) + 3 <= budget)
    <3>1. Len(ordered) \in 0..Len(ordered) /\ SubSeq(ordered, 1, Len(ordered)) = ordered
      BY <1>3
    <3>2. ~Fit(Context(ordered, reason), budget)
      BY <1>5, <3>1
    <3>3. ~Fits(Len(ordered), reason, budget)
      <4> HIDE DEF reason
      <4> QED  BY <3>2, ContextIs
    <3> QED  BY <1>3, <3>3, TokensIs DEF Fits
  <2>5. StateShape(x, R, budget)
    BY <2>1, <2>2, <2>3, <2>4 DEF StateShape, complete
  <2> QED  BY <1>3, <2>5 DEF x, R
<1>6. CASE ~(complete /\ Fit(whole, budget)) /\ fitting # {}
  <2> DEFINE m == Max(fitting)
             prefix == SubSeq(ordered, 1, m)
  <2>1. m \in fitting /\ \A y \in fitting : m >= y
    <3>1. fitting \in SUBSET (0..Len(ordered)) /\ Len(ordered) \in Nat
      BY <1>3
    <3> HIDE DEF fitting
    <3> QED  BY <1>6, <3>1, GreatestIs
  <2>2. x = Filled(budget, Prefix(m)) /\ m \in 0..Len(ordered)
    BY <1>1, <1>6, <2>1
  <2> HIDE DEF m
  <2>3. /\ prefix \in Seq(R) /\ Explained(prefix)
        /\ ToSet(prefix) \subseteq R /\ ClosedSet(ToSet(prefix))
    BY <1>2, <1>3, <2>2, PrefixExplained
  <2>4. Prefix(m).selected = prefix /\ Prefix(m).reason = reason
    <3> HIDE DEF reason
    <3> QED  BY ContextIs
  <2>5. /\ x.reason = reason /\ x.framed
        /\ x.selected \in Seq(1..Len(events)) /\ Explained(x.selected)
        /\ ToSet(prefix) \subseteq ToSet(x.selected)
        /\ \A u \in ToSet(x.selected) \ ToSet(prefix) : events[u].entity \notin query
    <3> DEFINE base == Prefix(m)
    <3> HIDE DEF base, prefix, reason
    <3>1. /\ ToSet(base.selected) \subseteq 1..Len(events)
          /\ ClosedSet(ToSet(base.selected)) /\ base.selected = prefix /\ base.reason = reason
      BY <1>2, <2>3, <2>4 DEF base
    <3>2. x = Filled(budget, base)
      BY <2>2 DEF base
    <3> QED  BY <3>1, <3>2, FilledContext
  <2>6. ~(complete /\ Cardinality(R) + 2 <= budget)
    BY <1>3, <1>6, ContextIs, TokensIs DEF Fits
  <2>7. ~complete /\ Cardinality(R) + 3 <= budget => R \subseteq ToSet(x.selected)
    <3>1. SUFFICES ASSUME ~complete, Cardinality(R) + 3 <= budget
                   PROVE  R \subseteq ToSet(x.selected)
      OBVIOUS
    <3>2. Len(ordered) \in 0..Len(ordered) /\ SubSeq(ordered, 1, Len(ordered)) = ordered
      BY <1>3
    <3>3. Fit(Context(ordered, reason), budget)
      <4>1. Fits(Len(ordered), "insufficient_evidence", budget)
        BY <1>3, <3>1, TokensIs DEF Fits
      <4> QED  BY <3>1, <4>1, ContextIs
    <3>4. Len(ordered) \in fitting
      BY <3>2, <3>3
    <3>5. m = Len(ordered)
      BY <1>3, <2>1, <2>2, <3>4
    <3>6. prefix = ordered
      BY <3>2, <3>5
    <3> QED  BY <1>3, <2>5, <3>6
  <2>8. StateShape(x, R, budget)
    <3>1. x.reason # "ready"
      BY <2>5
    <3>2. \A u \in ToSet(x.selected) : u \in R \/ events[u].entity \notin query
      BY <2>3, <2>5
    <3> HIDE DEF prefix, reason
    <3> QED  BY <2>5, <2>6, <2>7, <3>1, <3>2 DEF StateShape, complete
  <2> QED  BY <1>3, <2>8 DEF x, R
<1> QED  BY <1>4, <1>5, <1>6

-----------------------------------------------------------------------------
(* The inductive invariant: a session the contract accepts, and contexts that *)
(* select from it what their treatments do.                                   *)

CellShape(c, x) ==
  IF c[1] = "tail" THEN TailShape(x, c[2])
  ELSE \E version \in {"latest", "first"} :
         /\ c[1] = "state_latest" => version = "latest"
         /\ StateShape(x, Required(events, query, version), c[2])

\* A shape is about the session and the query alone.
LEMMA ShapesStay ==
  ASSUME events' = events, query' = query, NEW x
  PROVE  /\ \A budget : TailShape(x, budget) => TailShape(x, budget)'
         /\ \A required, budget :
              StateShape(x, required, budget) => StateShape(x, required, budget)'
<1>1. ASSUME NEW budget, TailShape(x, budget)  PROVE TailShape(x, budget)'
  BY <1>1 DEF TailShape
<1>2. ASSUME NEW required, NEW budget, StateShape(x, required, budget)
      PROVE  StateShape(x, required, budget)'
  <2>1. Explained(x.selected) => Explained(x.selected)'
    BY DEF Explained
  <2> QED  BY <1>2, <2>1 DEF StateShape
<1> QED  BY <1>1, <1>2

LEMMA CellStays ==
  ASSUME events' = events, query' = query, NEW c, NEW x, CellShape(c, x)
  PROVE  CellShape(c, x)'
<1>1. CASE c[1] = "tail"
  BY <1>1, ShapesStay DEF CellShape
<1>2. CASE c[1] # "tail"
  <2>1. PICK version \in {"latest", "first"} :
          /\ c[1] = "state_latest" => version = "latest"
          /\ StateShape(x, Required(events, query, version), c[2])
    BY <1>2 DEF CellShape
  <2> DEFINE R == Required(events, query, version)
  <2>2. R = Required(events', query', version)
    OBVIOUS
  <2>3. PICK r : r = R
    OBVIOUS
  <2>4. StateShape(x, r, c[2])'
    <3>1. StateShape(x, r, c[2])
      BY <2>1, <2>3
    <3> QED  BY <3>1, ShapesStay
  <2>5. StateShape(x, Required(events, query, version), c[2])'
    BY <2>2, <2>3, <2>4
  <2> QED  BY <1>2, <2>1, <2>5 DEF CellShape
<1> QED  BY <1>1, <1>2

SessionInv ==
  /\ IsSession /\ query \in Queries \cup {{}}
  /\ Built => query # {} /\ \A c \in Cells : CellShape(c, packed[c])

LEMMA SessionStarts ==
  ASSUME SCInit
  PROVE  SessionInv
<1>1. events = <<>> /\ query = {} /\ packed = <<>>
  BY DEF SCInit
<1>2. IsSession
  BY <1>1 DEF IsSession
<1> QED  BY <1>1, <1>2 DEF SessionInv, Built

LEMMA ExtendKeeps ==
  ASSUME SessionInv, Extend
  PROVE  SessionInv'
<1>1. query = {} /\ packed = <<>> /\ query' = query /\ packed' = packed /\ IsSession
  BY DEF SessionInv, Built, Extend
<1>2. PICK entity \in Entities, supersedes \in 0..Len(events), on \in SUBSET (1..Len(events)) :
        events' = Append(events, [entity |-> entity, supersedes |-> supersedes,
                                  depends_on |-> on])
  BY DEF Extend
<1> DEFINE e == [entity |-> entity, supersedes |-> supersedes, depends_on |-> on]
<1>3. e \in Reports /\ e.depends_on = on
  <2>1. on \in SUBSET Nat /\ supersedes \in Nat
    BY <1>1, SessionIs
  <2> QED  BY <2>1 DEF Reports
<1> HIDE DEF e
<1>4. /\ events' \in Seq(Reports) /\ Len(events') = Len(events) + 1
      /\ Len(events) \in Nat /\ events'[Len(events) + 1] = e
      /\ \A t \in 1..Len(events) : events'[t] = events[t]
  BY <1>1, <1>2, <1>3 DEF IsSession, e
<1>5. ASSUME NEW t \in 1..Len(events')
      PROVE  events'[t].depends_on \subseteq 1..(t - 1)
  <2>1. CASE t \in 1..Len(events)
    BY <1>1, <1>4, <2>1, SessionIs
  <2>2. CASE t = Len(events) + 1
    <3>1. events'[t].depends_on = on /\ t - 1 = Len(events)
      BY <1>3, <1>4, <2>2
    <3> QED  BY <3>1
  <2> QED  BY <1>4, <1>5, <2>1, <2>2
<1>6. IsSession'
  BY <1>4, <1>5 DEF IsSession
<1> QED  BY <1>1, <1>6 DEF SessionInv, Built

LEMMA SessionSteps ==
  ASSUME SessionInv, [SCNext]_SCvars
  PROVE  SessionInv'
<1>1. CASE Extend
  BY <1>1, ExtendKeeps
<1>2. CASE Checkpoint
  BY <1>2, QueriesAssumption DEF Checkpoint, SessionInv, Built, IsSession
<1>3. CASE BuildContexts
  <2>1. /\ query # {} /\ UNCHANGED <<events, query>> /\ IsSession
        /\ packed' = [c \in Cells |-> Pack(c[1], c[2])]
    BY <1>3 DEF BuildContexts, SessionInv
  <2>2. ASSUME NEW c \in Cells
        PROVE  CellShape(c, packed'[c])
    <3>1. c[2] \in Nat /\ packed'[c] = Pack(c[1], c[2])
      BY <2>1, BudgetsAssumption DEF Cells
    <3>2. CASE c[1] = "tail"
      BY <2>1, <3>1, <3>2, TailShapes DEF CellShape, Pack
    <3>3. CASE c[1] # "tail"
      <4>1. PICK version \in {"latest", "first"} :
              /\ c[1] = "state_latest" => version = "latest"
              /\ packed'[c] = StateSelection(c[2], version)
        BY <3>1, <3>3 DEF Pack
      <4> QED  BY <2>1, <3>1, <3>3, <4>1, StateShapes DEF CellShape
    <3> QED  BY <3>2, <3>3
  <2>3. ASSUME NEW c \in Cells
        PROVE  CellShape(c, packed[c])'
    <3>1. PICK x : x = packed'[c]
      OBVIOUS
    <3>2. CellShape(c, x)'
      <4>1. CellShape(c, x)
        BY <2>2, <3>1
      <4> QED  BY <2>1, <4>1, CellStays
    <3> QED  BY <3>1, <3>2
  <2> QED  BY <1>3, <2>1, <2>3 DEF SessionInv, IsSession
<1>4. CASE UNCHANGED SCvars
  <2>1. events' = events /\ query' = query /\ packed' = packed
    BY <1>4 DEF SCvars
  <2>2. ASSUME Built, NEW c \in Cells
        PROVE  CellShape(c, packed[c])'
    <3>1. PICK x : x = packed[c]
      OBVIOUS
    <3>2. CellShape(c, x)'
      <4>1. CellShape(c, x)
        BY <2>2, <3>1 DEF SessionInv
      <4> QED  BY <2>1, <4>1, CellStays
    <3> QED  BY <2>1, <3>1, <3>2
  <2> QED  BY <2>1, <2>2 DEF SessionInv, Built, IsSession
<1> QED  BY <1>1, <1>2, <1>3, <1>4 DEF SCNext

LEMMA SessionAlways == SCSpec => []SessionInv
<1>1. SCInit => SessionInv
  BY SessionStarts
<1>2. SessionInv /\ [SCNext]_SCvars => SessionInv'
  BY SessionSteps
<1> QED  BY <1>1, <1>2, PTL DEF SCSpec

\* state_latest against the answer key.
LEMMA LatestShape ==
  ASSUME SessionInv, Built, NEW b \in Budgets
  PROVE  LET gold == Gold(events, query)
             x == packed[<<"state_latest", b>>] IN
         /\ StateShape(x, gold.required, b) /\ Cardinality(gold.required) \in Nat
         /\ b \in Nat /\ IsSession /\ query # {}
         /\ gold.required \subseteq 1..Len(events) /\ ClosedSet(gold.required)
         /\ ToSet(x.selected) \cap gold.stale = {}
<1> DEFINE gold == Gold(events, query)
           x == packed[<<"state_latest", b>>]
           R == Required(events, query, "latest")
<1>1. StateShape(x, R, b) /\ b \in Nat /\ IsSession /\ query # {}
  <2> DEFINE c == <<"state_latest", b>>
  <2>1. c \in Cells /\ c[1] = "state_latest" /\ c[2] = b
    BY DEF Cells, Treatments
  <2>2. packed[c] = x
    OBVIOUS
  <2> HIDE DEF c, x
  <2>3. CellShape(c, x)
    BY <2>1, <2>2 DEF SessionInv
  <2> QED  BY <2>1, <2>3, BudgetsAssumption, QueriesAssumption DEF CellShape, SessionInv
<1>2. gold.required = R
  BY <1>1, RequiredIsGold
<1>3. Cardinality(R) \in Nat /\ R \subseteq 1..Len(events) /\ ClosedSet(R)
  BY <1>1, StateShapes, RequiredIs
<1>4. \A u \in gold.stale : u \notin gold.required /\ events[u].entity \in query
  BY DEF Gold, About
<1> HIDE DEF x, gold, R
<1>5. ToSet(x.selected) \cap gold.stale = {}
  BY <1>1, <1>2, <1>4 DEF StateShape
<1> QED  BY <1>1, <1>2, <1>3, <1>5 DEF x, gold

\* A complete query needs some event: it asks about some entity.
LEMMA KeyNeedsEvidence ==
  ASSUME IsSession, query # {}, CompleteQuery(events, query)
  PROVE  Gold(events, query).required # {}
<1>1. PICK e \in Known(events, query) : TRUE
  BY DEF CompleteQuery
<1>2. Choice(events, e, "latest") \in Targets(events, query, "latest")
  BY DEF Targets
<1> QED  BY <1>2, RequiredIs, RequiredIsGold

\* No treatment claims evidence for a question whose answer key says there is
\* none (tail, state_latest, state_first; score_context): a context says ready
\* only where the query is complete, which the key finds for itself.
THEOREM SessionNoFabrication == SCSpec => []NoFabricatedSufficiency
<1>1. ASSUME SessionInv, Built, NEW c \in Cells
      PROVE  ~Score(packed[c], Gold(events, query)).fabricated
  <2>1. packed[c].reason = "ready" => CompleteQuery(events, query)
    <3>1. CellShape(c, packed[c])
      BY <1>1 DEF SessionInv
    <3> QED  BY <3>1 DEF CellShape, TailShape, StateShape
  <2>2. CompleteQuery(events, query)
          => Gold(events, query).disposition # "insufficient"
    BY <1>1, KeyIsComplete DEF SessionInv
  <2> QED  BY <2>1, <2>2 DEF Score
<1>2. SessionInv => NoFabricatedSufficiency
  BY <1>1 DEF NoFabricatedSufficiency
<1> QED  BY <1>2, SessionAlways, PTL

\* A state treatment never shows an event before, or without, what it depends
\* on, whatever the budget cut off and the filler added (resolve_state,
\* _topological_recent, the filler of rcwt_session_run.py).
THEOREM SessionEvidenceFirst == SCSpec => []EvidenceComesFirst
<1>1. ASSUME SessionInv, Built, NEW c \in Cells, c[1] # "tail",
             NEW i \in DOMAIN packed[c].selected,
             NEW d \in events[packed[c].selected[i]].depends_on
      PROVE  Before(packed[c].selected, d, packed[c].selected[i])
  <2> DEFINE s == packed[c].selected
  <2>1. s \in Seq(1..Len(events)) /\ Explained(s)
    BY <1>1 DEF SessionInv, CellShape, StateShape
  <2> HIDE DEF s
  <2>2. Len(s) \in Nat /\ DOMAIN s = 1..Len(s)
    BY <2>1
  <2>3. i \in 1..Len(s) /\ d \in events[s[i]].depends_on
    BY <2>2 DEF s
  <2>4. PICK h \in 1..(i - 1) : s[h] = d
    BY <2>1, <2>3 DEF Explained
  <2>5. h \in DOMAIN s /\ i \in DOMAIN s /\ h < i
    BY <2>2, <2>3
  <2>6. Before(s, d, s[i])
    BY <2>4, <2>5 DEF Before
  <2> QED  BY <2>6 DEF s
<1>2. SessionInv => EvidenceComesFirst
  BY <1>1 DEF EvidenceComesFirst
<1> QED  BY <1>2, SessionAlways, PTL

\* state_latest shows no version that the answer key calls stale: the filler
\* brings no event of a queried entity, and what is required is the key's.
THEOREM SessionLatestIsNeverStale == SCSpec => []LatestIsNeverStale
<1>1. ASSUME SessionInv, Built, NEW b \in Budgets
      PROVE  ToSet(packed[<<"state_latest", b>>].selected) \cap Gold(events, query).stale = {}
  BY <1>1, LatestShape DEF StateShape
<1>2. SessionInv => LatestIsNeverStale
  BY <1>1 DEF LatestIsNeverStale
<1> QED  BY <1>2, SessionAlways, PTL

\* Where the tail is accepted and decision ready so is state_latest, at the same
\* budget (score_context, _validate_context_source):
\* what the tail holds of the required events is all of them, and the marker
\* of state_latest takes no more tokens than the tail's.
THEOREM SessionTailNeverBeatsState == SCSpec => []TailNeverBeatsState
<1>1. ASSUME SessionInv, Built, NEW b \in Budgets, Ready("tail", b)
      PROVE  Ready("state_latest", b)
  <2> DEFINE gold == Gold(events, query)
             x == packed[<<"state_latest", b>>]
             y == packed[<<"tail", b>>]
             R == gold.required
             complete == CompleteQuery(events, query)
  <2>1. /\ StateShape(x, R, b) /\ Cardinality(R) \in Nat /\ b \in Nat /\ IsSession
        /\ query # {} /\ R \subseteq 1..Len(events) /\ ClosedSet(R)
        /\ ToSet(x.selected) \cap gold.stale = {}
    BY <1>1, LatestShape
  <2>2. TailShape(y, b)
    <3> DEFINE c == <<"tail", b>>
    <3>1. c \in Cells /\ c[1] = "tail" /\ c[2] = b
      BY DEF Cells, Treatments
    <3>2. packed[c] = y
      OBVIOUS
    <3> HIDE DEF c, y
    <3>3. CellShape(c, y)
      BY <1>1, <3>1, <3>2 DEF SessionInv
    <3> QED  BY <3>1, <3>3 DEF CellShape
  <2>3. R \subseteq ToSet(y.selected) /\ y.framed
    BY <1>1 DEF Ready, Accepted, Score
  <2>4. gold.disposition = IF complete THEN "ready" ELSE "insufficient"
    BY <2>1, KeyIsComplete
  <2>5. gold.edges = UNION {{<<d, t>> : d \in events[t].depends_on} : t \in R}
    BY DEF Gold
  <2>6. complete => R # {}
    BY <2>1, KeyNeedsEvidence
  <2>7. ~complete => y.reason # "ready"
    BY <2>2 DEF TailShape
  <2> HIDE DEF gold, x, y, R, complete
  <2>8. /\ complete => Cardinality(R) + 2 <= b
        /\ ~complete => R = {} \/ Cardinality(R) + 3 <= b
    <3>1. CASE y.selected = <<>>
      <4>1. R = {}
        BY <2>3, <3>1 DEF ToSet
      <4> QED  BY <2>6, <4>1
    <3>2. CASE y.selected # <<>>
      <4>1. PICK m \in 0..Len(events) :
              /\ ToSet(y.selected) \subseteq (Len(events) - m + 1)..Len(events)
              /\ \/ y.reason = "ready" /\ complete /\ m + 2 <= b
                 \/ y.reason = "tail_omitted_required_evidence" /\ m + 4 <= b
        BY <2>2, <3>2 DEF TailShape, complete
      <4>2. Cardinality(R) <= m
        <5> DEFINE I == (Len(events) - m + 1)..Len(events)
        <5>1. Len(events) \in Nat /\ Len(events) - m + 1 \in Int /\ m \in Nat
          BY <2>1, <4>1, SessionIs
        <5>2. IsFiniteSet(I) /\ Cardinality(I) = m
          BY <5>1, FS_Interval
        <5>3. R \in SUBSET I
          BY <2>3, <4>1
        <5> HIDE DEF I
        <5> QED  BY <5>2, <5>3, FS_Subset
      <4> QED  BY <2>1, <4>1, <4>2
    <3> QED  BY <3>1, <3>2
  <2>9. R \subseteq ToSet(x.selected) /\ (complete <=> x.reason = "ready")
    BY <2>1, <2>8 DEF StateShape, complete
  <2>10. ASSUME NEW t \in R, NEW d \in events[t].depends_on
         PROVE  Before(x.selected, d, t)
    <3> DEFINE s == x.selected
    <3>1. s \in Seq(1..Len(events)) /\ Explained(s)
      BY <2>1 DEF StateShape
    <3>2. t \in ToSet(s)
      BY <2>9
    <3> HIDE DEF s
    <3>3. Len(s) \in Nat /\ DOMAIN s = 1..Len(s)
      BY <3>1
    <3>4. PICK j \in 1..Len(s) : s[j] = t
      BY <3>2, <3>3 DEF ToSet
    <3>5. PICK h \in 1..(j - 1) : s[h] = d
      BY <2>10, <3>1, <3>4 DEF Explained
    <3>6. h \in DOMAIN s /\ j \in DOMAIN s /\ h < j
      BY <3>3
    <3> QED  BY <3>4, <3>5, <3>6 DEF Before, s
  <2>11. \A e \in gold.edges : Before(x.selected, e[1], e[2])
    BY <2>5, <2>10
  <2>12. gold.stale \cap ToSet(x.selected) = {}
    BY <2>1
  <2>13. Score(x, gold).decisionReady
    BY <2>4, <2>9, <2>11, <2>12 DEF Score, R
  <2>14. Accepted(x)
    <3>1. CASE y.reason = "budget"
      <4>1. b >= 3
        BY <2>2, <2>3, <3>1 DEF TailShape
      <4> QED  BY <2>1, <4>1 DEF StateShape, Accepted
    <3>2. CASE y.reason # "budget" /\ complete
      <4>1. Cardinality(R) # 0
        <5>1. IsFiniteSet(1..Len(events))
          BY <2>1, SessionIs, FS_Interval
        <5>2. IsFiniteSet(R)
          BY <2>1, <5>1, FS_Subset
        <5> QED  BY <2>6, <3>2, <5>2, FS_EmptySet
      <4>2. b >= 3
        BY <2>1, <2>8, <3>2, <4>1
      <4> QED  BY <2>1, <4>2 DEF StateShape, Accepted
    <3>3. CASE y.reason # "budget" /\ ~complete
      <4>1. b >= 3
        BY <2>1, <2>2, <2>7, <3>3 DEF TailShape
      <4> QED  BY <2>1, <4>1 DEF StateShape, Accepted
    <3> QED  BY <3>1, <3>2, <3>3
  <2> QED  BY <2>13, <2>14 DEF Ready, x, gold
<1>2. SessionInv => TailNeverBeatsState
  BY <1>1 DEF TailNeverBeatsState
<1> QED  BY <1>2, SessionAlways, PTL
=============================================================================
