---------------------------- MODULE SessionResolver ----------------------------
(***************************************************************************)
(* What a session query needs (resolve_state of rcwt_session_run.py) and   *)
(* what its answer key holds (_derive_gold of rcwt_session_generate.py).   *)
(* A session is the sequence of its events; an event is named by its turn. *)
(* Every event reports one field of its entity.                            *)
(***************************************************************************)
EXTENDS Integers, Sequences, FiniteSets, FiniteSetsExt, SequencesExt

Turns(events) == DOMAIN events
Versions(events, entity) == {t \in Turns(events) : events[t].entity = entity}

Heads(events, S) == S \ {events[t].supersedes : t \in S}
Latest(events, S) == Max(IF Heads(events, S) = {} THEN S ELSE Heads(events, S))

Roots(events, S) == {t \in S : events[t].supersedes \notin S}
First(events, S) == Min(IF Roots(events, S) = {} THEN S ELSE Roots(events, S))

Choice(events, entity, version) ==
  IF version = "latest" THEN Latest(events, Versions(events, entity))
                        ELSE First(events, Versions(events, entity))

Known(events, query) == {e \in query : Versions(events, e) # {}}
Targets(events, query, version) ==
  {Choice(events, e, version) : e \in Known(events, query)}

OneLevel(events, S) == S \cup UNION {events[t].depends_on : t \in S}  \* mutant: only direct dependencies
\* References are to prior turns, so that one pass from the newest turn closes S.
Closure(events, S) ==
  LET Pull(closed, back) ==
        LET t == Len(events) + 1 - back
        IN IF t \in closed THEN closed \cup events[t].depends_on ELSE closed
  IN FoldLeft(Pull, S, [i \in 1..Len(events) |-> i])

Required(events, query, version) == Closure(events, Targets(events, query, version))

\* A query is complete when every entity it names has evidence: dependencies
\* are prior events of the session, so that they are always there.
CompleteQuery(events, query) == Known(events, query) = query

\* _topological_recent: of the events whose dependencies are out, the newest.
NewestFirst(events, S) == Reverse(SetToSortSeq(S, <))  \* mutant: recency only
TopologicalRecent(events, S) ==
  LET Available(out) ==
        {t \in S \ ToSet(out) : events[t].depends_on \cap S \subseteq ToSet(out)}
      Pop(out, i) == Append(out, Max(Available(out)))
  IN FoldLeft(Pop, <<>>, [i \in 1..Cardinality(S) |-> i])

-----------------------------------------------------------------------------
(* The answer key, derived with nothing of the resolver's: its own heads,  *)
(* its own closure and its own completeness.                               *)

About(events, entity) == {t \in Turns(events) : events[t].entity = entity}

\* Of what no version supersedes, or of all versions, the last.
GoldCurrent(events, versions) ==
  LET superseded == {events[t].supersedes : t \in versions}
      candidates == IF versions \subseteq superseded THEN versions ELSE versions \ superseded
  IN CHOOSE t \in candidates : \A u \in candidates : u <= t

\* A depth-first visit: what an event rests on, and the event.
Visited(events, t) ==
  LET visit[u \in Turns(events)] == {u} \cup UNION {visit[d] : d \in events[u].depends_on}
  IN visit[t]

Gold(events, query) ==
  LET answered == {e \in query : About(events, e) # {}}
      current == {GoldCurrent(events, About(events, e)) : e \in answered}
      required == UNION {Visited(events, t) : t \in current}
      versions == UNION {About(events, e) : e \in query}
  IN [required |-> required,
      stale |-> (versions \ current) \ required,
      edges |-> UNION {{<<d, t>> : d \in events[t].depends_on} : t \in required},
      disposition |-> IF query = answered /\ current # {} THEN "ready"
                      ELSE "insufficient"]
=============================================================================
