------------------------------- MODULE TrialLog -------------------------------
(***************************************************************************)
(* The resumable API experiments: one invocation per shard walks its part  *)
(* of a shuffled schedule, asks a provider for every trial its JSONL file  *)
(* does not hold, appends one line per trial, and may be killed or give up *)
(* after its retries; the same command is then typed again.  A merge reads *)
(* the shards' files.  rcwt_controlled_resume.py and                       *)
(* rcwt_benchmark_core.py share this life cycle, and `cli` tells them      *)
(* apart.  A trial of the first is two requests, the model's and then the  *)
(* judge's, and is repeated whole when any of it fails; the second scores  *)
(* by itself and repeats the model's request only.  They also differ in    *)
(* where the cap on new calls is tested.  The tables derived from a file   *)
(* or from a merge are functions of it, left out.                          *)
(*                                                                         *)
(* A shard has one invocation at a time: no lock says so in the code, the  *)
(* operator does.                                                          *)
(***************************************************************************)
EXTENDS Integers, SequencesExt

CONSTANTS NumTrials,    \* the length of the shuffled schedule
          NumShards,    \* --num-shards
          MaxNewCalls,  \* --max-new-calls, --max-calls
          MaxRetries,   \* --max-retries
          MaxKills,     \* bound: invocations killed, over all shards
          MaxErrors     \* bound: exceptions of a trial, over all shards

ASSUME TrialLogAssumption ==
  /\ NumTrials \in Nat /\ NumShards \in Nat \ {0}
  /\ MaxNewCalls \in Nat \ {0} /\ MaxRetries \in Nat
  /\ MaxKills \in Nat /\ MaxErrors \in Nat

Trials == 0 .. NumTrials - 1
Shards == 0 .. NumShards - 1

VARIABLES cli,       \* which of the two command lines the campaign uses
          log,       \* log[s]: the trials of the lines of the shard's file
          tail,      \* tail[s]: how that file ends
          pc,        \* pc[s]: where the shard's invocation is
          existing,  \* existing[s]: the records the invocation knows of
          newCalls,  \* newCalls[s]: the records it has appended
          attempt,   \* attempt[s]: the failed attempts at the current trial
          finished,  \* finished[s]: an invocation walked the whole schedule
          answered,  \* answered[t]: requests for t answered, thus paid for
          kills, errors

files  == <<log, tail>>
memory == <<pc, existing, newCalls, attempt>>
vars   == <<cli, files, memory, finished, answered, kills, errors>>

(* mutant: the shard index is compared as if shards were counted from one. *)
FromOne(s) == {t \in Trials : t % NumShards = s + 1}

Schedule(s) == {t \in Trials : t % NumShards = s}

(* A file parses when every line is one record; a fragment, or two records *)
(* on one line, raises JSONDecodeError in every reader.                    *)
Readable(s) == tail[s] # "broken"

(* mutant: the file is not read back before the loop starts. *)
NothingLoaded(s) == {}

LoadExisting(s) == ToSet(log[s])

Missing(s) == Schedule(s) \ existing[s]

(* The first trial of the schedule, in its order, that is not recorded. *)
Current(s) == CHOOSE t \in Missing(s) : \A u \in Missing(s) : t <= u

(* mutant: the rows of earlier invocations count against the cap. *)
ResumedRowsCount(s, n) == n + Cardinality(existing[s]) >= MaxNewCalls

CapReached(s, n) == n >= MaxNewCalls

(* The controlled runner tests the cap before a call; a benchmark after    *)
(* one, so that its invocations always make a call.                        *)
MayCall(s) ==
  \/ ~CapReached(s, newCalls[s])
  \/ cli = "benchmark" /\ newCalls[s] = 0

(* The requests behind one record. *)
Requests == IF cli = "controlled" THEN 2 ELSE 1

(* What the merge of the shards makes of the files it finds. *)
Merged == UNION {ToSet(log[s]) : s \in Shards}
-----------------------------------------------------------------------------
Init ==
  /\ cli \in {"controlled", "benchmark"}
  /\ log = [s \in Shards |-> <<>>]
  /\ tail = [s \in Shards |-> "clean"]
  /\ pc = [s \in Shards |-> "idle"]
  /\ existing = [s \in Shards |-> {}]
  /\ newCalls = [s \in Shards |-> 0]
  /\ attempt = [s \in Shards |-> 0]
  /\ finished = [s \in Shards |-> FALSE]
  /\ answered = [t \in Trials |-> 0]
  /\ kills = 0 /\ errors = 0

(* An invocation that cannot read its file ends there and changes nothing. *)
Start(s) ==
  /\ pc[s] = "idle" /\ Readable(s)
  /\ pc' = [pc EXCEPT ![s] = "loop"]
  /\ existing' = [existing EXCEPT ![s] = LoadExisting(s)]
  /\ newCalls' = [newCalls EXCEPT ![s] = 0]
  /\ UNCHANGED <<cli, files, attempt, finished, answered, kills, errors>>

(* The process is gone and what it held in memory with it. *)
Exit(s) ==
  /\ pc' = [pc EXCEPT ![s] = "idle"]
  /\ existing' = [existing EXCEPT ![s] = {}]
  /\ newCalls' = [newCalls EXCEPT ![s] = 0]
  /\ attempt' = [attempt EXCEPT ![s] = 0]

Break(s) ==
  /\ pc[s] = "loop" /\ (Missing(s) = {} \/ ~MayCall(s))
  /\ finished' = [finished EXCEPT ![s] = @ \/ Missing(s) = {}]
  /\ Exit(s)
  /\ UNCHANGED <<cli, files, answered, kills, errors>>

CallModel(s) ==
  /\ pc[s] = "loop" /\ Missing(s) # {} /\ MayCall(s)
  /\ pc' = [pc EXCEPT ![s] = "calling"]
  /\ attempt' = [attempt EXCEPT ![s] = 0]
  /\ UNCHANGED <<cli, files, existing, newCalls, finished, answered, kills, errors>>

Asking(s) == pc[s] = "calling" \/ (pc[s] = "judging" /\ cli = "controlled")
Paid(s) == answered' = [answered EXCEPT ![Current(s)] = @ + 1]

(* A request under way when its caller fails may have been answered: too   *)
(* late, or in a form that does not unpack.                                *)
MaybePaid(s) == UNCHANGED answered \/ (Asking(s) /\ Paid(s))

Answer(s) ==
  /\ pc[s] = "calling" /\ Paid(s)
  /\ pc' = [pc EXCEPT ![s] = "judging"]
  /\ UNCHANGED <<cli, files, existing, newCalls, attempt, finished, kills, errors>>

(* The judge's request, or the benchmark's own scoring. *)
Judge(s) ==
  /\ pc[s] = "judging"
  /\ IF Asking(s) THEN Paid(s) ELSE UNCHANGED answered
  /\ pc' = [pc EXCEPT ![s] = "answered"]
  /\ UNCHANGED <<cli, files, existing, newCalls, attempt, finished, kills, errors>>

(* The controlled runner retries the trial, from the model's request on,   *)
(* whatever was answered before; a benchmark retries the request.          *)
Retry(s) ==
  /\ Asking(s) /\ errors < MaxErrors /\ attempt[s] < MaxRetries
  /\ pc' = [pc EXCEPT ![s] = "calling"]
  /\ attempt' = [attempt EXCEPT ![s] = @ + 1]
  /\ errors' = errors + 1
  /\ MaybePaid(s)
  /\ UNCHANGED <<cli, files, existing, newCalls, finished, kills>>

(* Nothing repeats a benchmark whose scoring raises. *)
GiveUp(s) ==
  /\ pc[s] \in {"calling", "judging"} /\ errors < MaxErrors
  /\ Asking(s) => attempt[s] >= MaxRetries
  /\ errors' = errors + 1
  /\ MaybePaid(s) /\ Exit(s)
  /\ UNCHANGED <<cli, files, finished, kills>>

(* A record written after a line without its newline is glued to it. *)
AppendTrial(s) ==
  /\ pc[s] = "answered"
  /\ log' = [log EXCEPT ![s] = Append(@, Current(s))]
  /\ tail' = [tail EXCEPT ![s] = IF @ = "open" THEN "broken" ELSE @]
  /\ existing' = [existing EXCEPT ![s] = @ \cup {Current(s)}]
  /\ newCalls' = [newCalls EXCEPT ![s] = @ + 1]
  /\ pc' = [pc EXCEPT ![s] = "loop"]
  /\ UNCHANGED <<cli, attempt, finished, answered, kills, errors>>

Kill(s) ==
  /\ pc[s] # "idle" /\ kills < MaxKills
  /\ kills' = kills + 1
  /\ MaybePaid(s) /\ Exit(s)
  /\ UNCHANGED <<cli, files, finished, errors>>

(* A kill inside the append, or an append that raises on a full disk,      *)
(* leaves a fragment of the line, or the whole record without its newline. *)
KillInAppend(s) ==
  /\ pc[s] = "answered" /\ kills < MaxKills
  /\ kills' = kills + 1
  /\ \/ /\ tail' = [tail EXCEPT ![s] = "broken"]
        /\ UNCHANGED log
     \/ /\ tail' = [tail EXCEPT ![s] = IF @ = "clean" THEN "open" ELSE "broken"]
        /\ log' = [log EXCEPT ![s] = Append(@, Current(s))]
  /\ Exit(s)
  /\ UNCHANGED <<cli, finished, answered, errors>>

Run(s) ==
  Start(s) \/ Break(s) \/ CallModel(s) \/ Answer(s) \/ Judge(s) \/ AppendTrial(s)

Next ==
  \E s \in Shards : Run(s) \/ Retry(s) \/ GiveUp(s) \/ Kill(s) \/ KillInAppend(s)

(* The operator types the command again while the shard is not finished,   *)
(* the process is scheduled, and a provider that has stopped failing       *)
(* answers: kills and errors are bounded by the two constants.             *)
Spec == Init /\ [][Next]_vars /\ \A s \in Shards : WF_vars(Run(s))
-----------------------------------------------------------------------------
Sequence(S) == {q \in UNION {[1 .. n -> S] : n \in 0 .. Cardinality(S)} : IsInjective(q)}

TypeOK ==
  /\ cli \in {"controlled", "benchmark"}
  /\ \A s \in Shards : log[s] \in Sequence(Trials)
  /\ tail \in [Shards -> {"clean", "open", "broken"}]
  /\ pc \in [Shards -> {"idle", "loop", "calling", "judging", "answered"}]
  /\ existing \in [Shards -> SUBSET Trials]
  /\ newCalls \in [Shards -> 0 .. MaxNewCalls]
  /\ attempt \in [Shards -> 0 .. MaxRetries]
  /\ finished \in [Shards -> BOOLEAN]
  /\ answered \in [Trials -> Nat]
  /\ kills \in 0 .. MaxKills /\ errors \in 0 .. MaxErrors

(* A trial is paid for again only after a failure, and one failure costs   *)
(* the requests of one trial at most: over any number of invocations, what *)
(* the provider answered are the requests behind the records of the files, *)
(* those in the hands of an invocation, and those that a kill or an        *)
(* exception dropped, a model's answer whose judge failed included.        *)
PaidAgainOnlyAfterFailure ==
  SumFunction(answered) <=
    Requests * (Cardinality(Merged) + Cardinality({s \in Shards : pc[s] = "answered"})
                  + kills + errors)
      + Cardinality({s \in Shards : pc[s] = "judging"})

(* When every shard was walked to its end, a merge that can read the files *)
(* holds exactly the schedule, whatever was killed and resumed on the way  *)
(* and however the shards were interleaved.                                *)
MergeIsWhole ==
  (\A s \in Shards : finished[s] /\ Readable(s)) => Merged = Trials

(* Re-run often enough, every shard is walked to its end or its file can   *)
(* never be read again: the cap on new calls of one invocation does not    *)
(* stop the campaign.                                                      *)
ShardsSettle == \A s \in Shards : <>[](finished[s] \/ ~Readable(s))
=============================================================================
