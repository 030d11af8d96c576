------------------------------- MODULE StepCalls -------------------------------
(***************************************************************************)
(* One agent step as the sequence of client operations it asks for         *)
(* (perform_step of rcwt_online_v4.py, with build_context,                 *)
(* compact_structured, compact_memory and _capped_text).  A step is a      *)
(* record that says what it asks next, Ask, and how it goes on with the    *)
(* answer, Take.  Answers are numbers: a token count, a completion (0      *)
(* breaks the inference contract) or a decoded text.                       *)
(***************************************************************************)
EXTENDS Integers, Sequences, FiniteSets

CONSTANTS
  Budget,       \* the token cap of the memory and of the card
  Answers,      \* texts a completion may return
  Steps,        \* steps in an episode
  Components    \* most components a structured memory holds

ASSUME BudgetAssumption == Budget \in Nat \ {0}
ASSUME AnswersAssumption == Answers \subseteq Nat \ {0}
ASSUME StepsAssumption == Steps \in Nat \ {0}
ASSUME ComponentsAssumption == Components \in Nat

Policies == {"summary", "structured"}

\* A text by what it was made from: its kind, the answer it carries, how many
\* components or leading tokens of it are left (0: the whole answer), and what
\* those tokens were decoded to (0: not decoded).
Text(kind, from, left) == [kind |-> kind, from |-> from, left |-> left, decoded |-> 0]
Empty == Text("empty", 0, 0)
Braces == Text("ledger", 0, 0)

Ledger(from, left) == IF left = 0 THEN Braces ELSE Text("ledger", from, left)

\* The fields an operation does not have are 0.
Operation(method, text, index, draft) ==
  [method |-> method, text |-> text, index |-> index, draft |-> draft]
Tokenize(text) == Operation("tokenize", text, 0, 0)
Detokenize(text) == Operation("detokenize", text, 0, 0)
Complete(purpose, text, index, draft) == Operation(purpose, text, index, draft)

Completions == {"draft", "action", "memory"}

-----------------------------------------------------------------------------
(* The step *)

Step(policy, memory, index) ==
  [policy |-> policy, memory |-> memory, index |-> index,
   stage |-> IF policy = "summary" THEN "actor"
             ELSE IF memory = Empty THEN "card" ELSE "check",
   draft |-> 0, action |-> 0, after |-> memory, size |-> 0]

\* The structured arm shows the card, the other arm the memory itself.
ActorMemory(s) ==
  IF s.policy = "structured" THEN Text("card", s.memory.from, s.memory.left) ELSE s.memory

Ended(s) == s.stage \in {"done", "raised"}

Ask(s) ==
  CASE s.stage = "check" -> Tokenize(s.memory)
    [] s.stage \in {"card", "actor"} -> Tokenize(ActorMemory(s))
    [] s.stage = "draft" -> Complete("draft", ActorMemory(s), s.index, 0)
    [] s.stage = "action" -> Complete("action", ActorMemory(s), s.index, s.draft)
    [] s.stage = "braces" -> Tokenize(Braces)
    [] s.stage = "memory" -> Complete("memory", s.memory, s.index, s.action)
    [] s.stage = "decode" -> Detokenize(s.after)
    [] s.stage = "none" -> Tokenize(Empty)
    [] s.stage \in {"represent", "cap", "recount", "store"} -> Tokenize(s.after)

At(s, stage) == [s EXCEPT !.stage = stage]
Fitting(s, size, stage) == IF size <= Budget THEN At(s, stage) ELSE At(s, "raised")

AfterAction(s) ==
  IF s.index = Steps - 1 THEN At(s, "store")
  ELSE At(s, IF s.policy = "summary" THEN "memory" ELSE "braces")

\* The step's observations and receipt add a component, unless it is known.
AfterIngest(s) ==
  LET n == IF s.memory = Empty THEN 1 ELSE s.memory.left + 1
  IN [At(s, "represent") EXCEPT
        !.after = Ledger(s.action, IF n > Components THEN Components ELSE n)]

\* compact_structured: the oldest component goes until the text fits.
AfterRepresent(s, size) ==
  IF size <= Budget THEN At(s, "store")
  ELSE IF s.after.left = 0 THEN At(s, "raised")
  ELSE [s EXCEPT !.after = Ledger(s.after.from, s.after.left - 1)]

\* _capped_text: decode ever fewer tokens until what they decode to fits when
\* it is encoded again; retained is the length of the slice.
Retain(s, retained) ==
  IF retained = 0 THEN [At(s, "none") EXCEPT !.after = Empty]
  ELSE [At(s, "decode") EXCEPT !.after.left = retained, !.after.decoded = 0]

AfterCap(s, size) == IF size <= Budget THEN At(s, "store") ELSE Retain(s, Budget)
AfterRecount(s, size) ==
  IF size <= Budget THEN At(s, "store") ELSE Retain(s, s.after.left - 1)

NeverEncodedAgain(s, answer) ==  \* mutant: the decoded slice is taken as it is
  [At(s, "store") EXCEPT !.after.decoded = answer]
AfterDecode(s, answer) == [At(s, "recount") EXCEPT !.after.decoded = answer]

Contract(s, answer) == Ask(s).method \in Completions => answer # 0

Take(s, answer) ==
  IF ~Contract(s, answer) THEN At(s, "raised")
  ELSE CASE s.stage = "check" -> Fitting(s, answer, "card")
         [] s.stage = "card" -> Fitting(s, answer, "actor")
         [] s.stage = "actor" -> Fitting(s, answer, "draft")
         [] s.stage = "draft" -> [At(s, "action") EXCEPT !.draft = answer]
         [] s.stage = "action" -> AfterAction([s EXCEPT !.action = answer])
         [] s.stage = "braces" -> IF answer <= Budget THEN AfterIngest(s) ELSE At(s, "raised")
         [] s.stage = "represent" -> AfterRepresent(s, answer)
         [] s.stage = "memory" -> [At(s, "cap") EXCEPT !.after = Text("summary", answer, 0)]
         [] s.stage = "cap" -> AfterCap(s, answer)
         [] s.stage = "decode" -> AfterDecode(s, answer)
         [] s.stage = "recount" -> AfterRecount(s, answer)
         [] s.stage = "none" -> IF answer = 0 THEN At(s, "store") ELSE At(s, "raised")
         [] s.stage = "store" -> [Fitting(s, answer, "done") EXCEPT !.size = answer]

-----------------------------------------------------------------------------
(* What the client may answer: counts are those of one fixed tokenizer *)

Sizes == 0..(Budget + 1)

AnswersTo(op, events) ==
  IF op.method = "tokenize"
    THEN {n \in Sizes :
            /\ \A i \in DOMAIN events : events[i].op = op => events[i].answer = n
            /\ op.text = Empty => n = 0}
  ELSE IF op.method = "detokenize" THEN {1}
  ELSE Answers \cup {0}  \* 0 is also a blank memory, which raises as well
=============================================================================
