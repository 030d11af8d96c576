---------------------------- MODULE SessionContext -----------------------------
(***************************************************************************)
(* The three treatments that pack a session into a token budget            *)
(* (rcwt_session_run.py) and the score of what they packed                 *)
(* (score_context of rcwt_session_score.py), over every session the        *)
(* PublicCase contract accepts.  A context is the sequence of its events   *)
(* and its disposition; its size is counted in lines, each line a token.   *)
(***************************************************************************)
EXTENDS SessionResolver

CONSTANTS
  Entities,   \* entities that report events
  Absent,     \* an entity no event is about
  Queries,    \* the sets of entities a checkpoint may ask about
  MaxTurns,   \* events in a session
  Budgets     \* token budgets

ASSUME BudgetsAssumption == Budgets \subseteq Nat \ {0}
ASSUME AbsentAssumption == Absent \notin Entities
ASSUME QueriesAssumption == Queries \subseteq SUBSET (Entities \cup {Absent}) \ {{}}

VARIABLES
  events,  \* the session up to the checkpoint
  query,   \* what the checkpoint asks about; {} before it
  packed   \* the contexts of that checkpoint

SCvars == <<events, query, packed>>

Treatments == {"tail", "state_latest", "state_first"}
Cells == Treatments \X Budgets

\* Every longer reason takes more tokens; the header is the query's lines.
ReasonTokens(reason) ==
  CASE reason = "ready" -> 1
    [] reason \in {"budget", "insufficient_evidence"} -> 2
    [] reason = "tail_omitted_required_evidence" -> 3
Tokens(n, reason) == 1 + n + ReasonTokens(reason)

Context(selected, reason) ==
  [selected |-> selected, reason |-> reason, framed |-> TRUE,
   tokens |-> Tokens(Len(selected), reason)]
Fit(context, budget) == context.tokens <= budget

\* The marker with the header around it, or shorter ones without, the last of
\* which every accepted budget holds.
MinimalMissing(budget) ==
  [selected |-> <<>>, reason |-> "budget", framed |-> budget >= 3,
   tokens |-> IF budget < 3 THEN budget ELSE 3]

-----------------------------------------------------------------------------
(* tail *)

OmittedOnly(required, selected) == required \subseteq ToSet(selected)  \* mutant: completeness is not asked
TailReady(required, selected) ==
  CompleteQuery(events, query) /\ required \subseteq ToSet(selected)

TailSelection(budget) ==
  LET required == Required(events, query, "latest")
      Newest(n) == [i \in 1..n |-> Len(events) - n + i]
      Window(n) == Context(Newest(n), IF TailReady(required, Newest(n)) THEN "ready"
                                      ELSE "tail_omitted_required_evidence")
      fitting == {n \in 0..Len(events) : Fit(Window(n), budget)}
  IN IF fitting = {} THEN MinimalMissing(budget) ELSE Window(Max(fitting))

-----------------------------------------------------------------------------
(* state_latest and state_first *)

\* A filler brings what it depends on, and nothing about a queried entity.
AnyFiller(selected, t) ==  \* mutant: only the filler itself is checked
  Closure(events, {t}) \ selected
FillerClosure(selected, t) ==
  LET new == Closure(events, {t}) \ selected
  IN IF \E d \in new : events[d].entity \in query THEN {} ELSE new

Filled(budget, base) ==
  LET AddFiller(selected, back) ==
        LET t == Len(events) + 1 - back
            more == selected \cup FillerClosure(selected, t)
        IN IF t \notin selected /\ events[t].entity \notin query
              /\ Tokens(Cardinality(more), base.reason) <= budget
           THEN more ELSE selected
      chosen == FoldLeft(AddFiller, ToSet(base.selected), [i \in 1..Len(events) |-> i])
  IN Context(TopologicalRecent(events, chosen), base.reason)

StateSelection(budget, version) ==
  LET ordered == TopologicalRecent(events, Required(events, query, version))
      complete == CompleteQuery(events, query)
      reason == IF complete THEN "budget" ELSE "insufficient_evidence"
      Prefix(n) == Context(SubSeq(ordered, 1, n), reason)
      fitting == {n \in 0..Len(ordered) : Fit(Prefix(n), budget)}
  IN IF complete /\ Fit(Context(ordered, "ready"), budget)
       THEN Filled(budget, Context(ordered, "ready"))
     ELSE IF fitting = {} THEN MinimalMissing(budget)
     ELSE Filled(budget, Prefix(Max(fitting)))

Pack(treatment, budget) ==
  IF treatment = "tail" THEN TailSelection(budget)
  ELSE StateSelection(budget, IF treatment = "state_latest" THEN "latest" ELSE "first")

-----------------------------------------------------------------------------
(* score_context *)

\* A context that lost its header is refused, not scored.
Accepted(context) == context.framed

Before(s, a, b) == \E i, j \in DOMAIN s : s[i] = a /\ s[j] = b /\ i < j

Score(context, gold) ==
  LET included == ToSet(context.selected)
      declaresReady == context.reason = "ready"
      fabricated == gold.disposition = "insufficient" /\ declaresReady
      baseReady == /\ gold.required \subseteq included
                   /\ gold.stale \cap included = {}
                   /\ \A e \in gold.edges : Before(context.selected, e[1], e[2])
  IN [fabricated |-> fabricated,
      decisionReady |-> IF gold.disposition = "ready" THEN baseReady
                        ELSE baseReady /\ ~declaresReady /\ ~fabricated]

-----------------------------------------------------------------------------
(* The sessions PublicCase accepts: references go to prior turns *)

SCInit == events = <<>> /\ query = {} /\ packed = <<>>

Extend ==
  /\ query = {} /\ Len(events) < MaxTurns
  /\ \E entity \in Entities, supersedes \in 0..Len(events),
        depends_on \in SUBSET (1..Len(events)) :
       events' = Append(events, [entity |-> entity, supersedes |-> supersedes,
                                 depends_on |-> depends_on])
  /\ UNCHANGED <<query, packed>>

Checkpoint ==
  /\ query = {} /\ events # <<>>
  /\ query' \in Queries
  /\ UNCHANGED <<events, packed>>

BuildContexts ==
  /\ query # {} /\ packed = <<>>
  /\ packed' = [c \in Cells |-> Pack(c[1], c[2])]
  /\ UNCHANGED <<events, query>>

SCNext == Extend \/ Checkpoint \/ BuildContexts
SCSpec == SCInit /\ [][SCNext]_SCvars

-----------------------------------------------------------------------------
(* Properties *)

Built == packed # <<>>
Ready(treatment, budget) ==
  LET context == packed[<<treatment, budget>>]
  IN Accepted(context) /\ Score(context, Gold(events, query)).decisionReady

\* Every context holds its budget and shows events of the session, each once.
SCTypeOK ==
  /\ query \in Queries \cup {{}}
  /\ Built => \A c \in Cells :
       /\ packed[c].tokens <= c[2]
       /\ ToSet(packed[c].selected) \subseteq Turns(events) /\ IsInjective(packed[c].selected)

\* Whatever the budget cuts off and the filler adds, a state treatment never
\* shows an event before, or without, the events it depends on.
EvidenceComesFirst ==
  Built => \A c \in Cells : c[1] # "tail" =>
    LET s == packed[c].selected
    IN \A i \in DOMAIN s : \A d \in events[s[i]].depends_on : Before(s, d, s[i])

\* The filler never brings back a version the answer key calls stale.
LatestIsNeverStale ==
  Built => \A b \in Budgets :
    ToSet(packed[<<"state_latest", b>>].selected) \cap Gold(events, query).stale = {}

\* No treatment, the stale ablation included, claims evidence for a question
\* whose answer key says there is none.
NoFabricatedSufficiency ==
  Built => \A c \in Cells : ~Score(packed[c], Gold(events, query)).fabricated

\* Where the recency tail is accepted and decision ready so is state_latest: at
\* the same budget the comparison of the treatments cannot go against it.
TailNeverBeatsState ==
  Built => \A b \in Budgets : Ready("tail", b) => Ready("state_latest", b)
=============================================================================
