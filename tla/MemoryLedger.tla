----------------------------- MODULE MemoryLedger -----------------------------
(***************************************************************************)
(* The structured rolling memory (rcwt_memory_v3.py) as a value: rows of   *)
(* four sources, accepted monetary bookings, and the order of the memory   *)
(* components, oldest first.  Its persistent form is a list of joined      *)
(* records, one per component; Records writes it and Load reads it back.   *)
(* Token sizes and the lexical shortening of identifiers are left out.     *)
(***************************************************************************)
EXTENDS WorkflowRules, SequencesExt

\* Components are anchored by an invoice, or are rows no invoice links to.
Components == ({"invoice"} \X Cases) \cup ({"account"} \X Accounts)
              \cup ({"return"} \X Orders)

\* A booked amount of 0 stands for no booking; receipts carry positive ones.
NoBookings == [k \in Keys |-> 0]
EmptyMemory == [order |-> <<>>, rows |-> NoRecords, booked |-> NoBookings]

Linked(rows, field, id) ==
  {c \in Cases : rows.read_invoice[c] # None /\ rows.read_invoice[c][field] = id}

Anchored(m, c) ==
  \/ m.rows.read_invoice[c] # None \/ m.rows.read_payment[c] # None
  \/ \E operation \in Operations : m.booked[<<c, operation>>] > 0

Groups(m) ==
  {<<"invoice", c>> : c \in {c \in Cases : Anchored(m, c)}}
  \cup {<<"account", a>> : a \in {a \in Accounts : /\ m.rows.read_account[a] # None
                                                   /\ Linked(m.rows, "account_id", a) = {}}}
  \cup {<<"return", o>> : o \in {o \in Orders : /\ m.rows.read_return[o] # None
                                                /\ Linked(m.rows, "order_id", o) = {}}}

\* The components of a list that are in S, in the order of the list.
Among(list, S) ==
  FoldLeft(\o, <<>>, [i \in DOMAIN list |-> IF list[i] \in S THEN <<list[i]>> ELSE <<>>])

\* Mutant: nothing appears unobserved.
RetainedOrder(m) == [m EXCEPT !.order = Among(m.order, Groups(m))]

\* A component that appears without being observed, such as a row detached by
\* a newer invoice, comes first: it is the oldest.
SyncOrder(m) ==
  LET groups == Groups(m)
      appeared(kind) == SetToSeq({g \in groups : g[1] = kind /\ ~Contains(m.order, g)})
  IN [m EXCEPT !.order = appeared("account") \o appeared("invoice")
                         \o appeared("return") \o Among(m.order, groups)]

-----------------------------------------------------------------------------
(* Ingestion *)

\* The components a row of one source touches: those that show it.
Touched(rows, tool, id) ==
  LET sharing == CASE tool = "read_account" -> Linked(rows, "account_id", id)
                   [] tool = "read_return" -> Linked(rows, "order_id", id)
                   [] OTHER -> {id}
      alone == IF tool = "read_account" THEN <<"account", id>> ELSE <<"return", id>>
  IN IF sharing = {} THEN {alone} ELSE {"invoice"} \X sharing

StayInPlace(m, touched) == m  \* mutant: an observation does not renew

\* Touched components become the newest, in their present order.
MoveToBack(m, touched) ==
  [m EXCEPT !.order = Among(m.order, Components \ touched) \o Among(m.order, touched)]

\* A missing status is an explicit "unknown"; other missing fields are null.
ExplicitRow(tool, row) ==
  CASE tool = "read_account" ->
         IF row.status = None THEN [row EXCEPT !.status = "unknown"] ELSE row
    [] tool \in {"read_payment", "read_return"} ->
         IF row = None THEN "unknown" ELSE row
    [] OTHER -> row

\* Mutant: a source that is already known is not replaced.
InsertRow(m, tool, id, row) ==
  LET known == m.rows[tool][id]
      put == SyncOrder([m EXCEPT !.rows =
               Replace(m.rows, tool, id, IF known = None THEN ExplicitRow(tool, row) ELSE known)])
  IN MoveToBack(put, Touched(put.rows, tool, id))

PutRow(m, tool, id, row) ==
  LET put == SyncOrder([m EXCEPT !.rows = Replace(m.rows, tool, id, ExplicitRow(tool, row))])
  IN MoveToBack(put, Touched(put.rows, tool, id))

PutBooking(m, key, amount) ==
  MoveToBack(SyncOrder([m EXCEPT !.booked[key] = amount]), {<<"invoice", key[1]>>})

-----------------------------------------------------------------------------
(* Eviction of whole components *)

DropLinked(rows, field, id) == TRUE  \* mutant: shared rows go with the invoice
LastLink(rows, field, id) == Linked(rows, field, id) = {}

EvictInvoice(m, c) ==
  LET invoice == m.rows.read_invoice[c]
      rest == [m.rows EXCEPT !.read_invoice[c] = None, !.read_payment[c] = None]
      dropped(field, id) == invoice # None /\ invoice[field] = id /\ LastLink(rest, field, id)
  IN [m EXCEPT
        !.booked = [k \in Keys |-> IF k[1] = c THEN 0 ELSE m.booked[k]],
        !.rows = [rest EXCEPT
           !.read_account = [a \in Accounts |-> IF dropped("account_id", a) THEN None ELSE @[a]],
           !.read_return = [o \in Orders |-> IF dropped("order_id", o) THEN None ELSE @[o]]]]

EvictOldest(m) ==
  LET g == Head(m.order)
  IN SyncOrder(CASE g[1] = "invoice" -> EvictInvoice(m, g[2])
                 [] g[1] = "account" -> [m EXCEPT !.rows.read_account[g[2]] = None]
                 [] g[1] = "return" -> [m EXCEPT !.rows.read_return[g[2]] = None])

-----------------------------------------------------------------------------
(* The persistent text *)

\* What one component shows, by explicit joins only.
Record(m, g) ==
  LET invoice == IF g[1] = "invoice" THEN m.rows.read_invoice[g[2]] ELSE None
      account == CASE g[1] = "account" -> m.rows.read_account[g[2]]
                   [] invoice # None /\ invoice.account_id # None ->
                        m.rows.read_account[invoice.account_id]
                   [] OTHER -> None
  IN [component |-> g,
      invoice |-> invoice,
      account |-> account,
      ownership_match |->
        IF invoice = None \/ account = None THEN "unknown"
        ELSE IF None \in {invoice.merchant_id, account.holder} THEN "unknown"
        ELSE IF invoice.merchant_id = account.holder THEN "yes" ELSE "no",
      returned |-> CASE g[1] = "return" -> m.rows.read_return[g[2]]
                     [] invoice # None /\ invoice.order_id # None ->
                          m.rows.read_return[invoice.order_id]
                     [] OTHER -> None,
      payment |-> IF g[1] = "invoice" THEN m.rows.read_payment[g[2]] ELSE None,
      booked |-> [operation \in Operations |->
                    IF g[1] = "invoice" THEN m.booked[<<g[2], operation>>] ELSE 0]]

DumpRecords(m) == [i \in DOMAIN m.order |-> Record(m, m.order[i])]

\* The records that show the row of an account or a return.
Showing(records, kind, field, id) ==
  {r \in Range(records) :
     \/ r.component = <<kind, id>>
     \/ r.component[1] = "invoice" /\ r.invoice # None /\ r.invoice[field] = id}

TheOne(S, default) == IF S = {} THEN default ELSE CHOOSE x \in S : TRUE

\* Reading back: copies of a shared row must agree, no component may repeat,
\* and what was read must show exactly the same records; else it raises.
Load(records) ==
  LET Of(c) == {r \in Range(records) : r.component = <<"invoice", c>>}
      Accounted(a) == {r.account : r \in Showing(records, "account", "account_id", a)} \ {None}
      Inspected(o) == {r.returned : r \in Showing(records, "return", "order_id", o)} \ {None}
      m == [order |-> [i \in DOMAIN records |-> records[i].component],
            rows |-> [read_invoice |-> [c \in Cases |-> TheOne({r.invoice : r \in Of(c)}, None)],
                      read_account |-> [a \in Accounts |-> TheOne(Accounted(a), None)],
                      read_payment |-> [c \in Cases |-> TheOne({r.payment : r \in Of(c)}, None)],
                      read_return |-> [o \in Orders |-> TheOne(Inspected(o), None)]],
            booked |-> [k \in Keys |-> TheOne({r.booked[k[2]] : r \in Of(k[1])}, 0)]]
  IN IF /\ \A a \in Accounts : Cardinality(Accounted(a)) <= 1
        /\ \A o \in Orders : Cardinality(Inspected(o)) <= 1
        /\ IsInjective(m.order) /\ Range(m.order) = Groups(m)
        /\ DumpRecords(m) = records
     THEN m ELSE "raises"

-----------------------------------------------------------------------------
(* The learned retention policy (rcwt_policy_r2.py) *)

Features == {"invoice", "account", "payment", "return", "booked", "incomplete"}
ZeroWeights == [f \in Features |-> 0]

HasUnknown(r) ==
  CASE r.component[1] = "return" -> r.returned = "unknown"
    [] r.component[1] = "account" -> r.account.status = "unknown" \/ r.account.holder = None
    [] OTHER ->
         \/ r.invoice = None \/ r.account = None \/ r.payment \in {None, "unknown"}
         \/ \E f \in DOMAIN r.invoice : r.invoice[f] = None
         \/ r.account.status = "unknown" \/ r.account.holder = None

FeaturesOf(m, g) ==
  LET r == Record(m, g)
  IN [f \in Features |-> CASE f = "invoice" -> r.invoice # None
                           [] f = "account" -> r.account # None
                           [] f = "payment" -> r.payment # None
                           [] f = "return" -> r.returned # None
                           [] f = "booked" -> \E operation \in Operations : r.booked[operation] > 0
                           [] f = "incomplete" -> HasUnknown(r)]

Score(m, weights, g) ==
  LET features == FeaturesOf(m, g)
  IN FoldFunctionOnSet(+, 0, weights, {f \in Features : features[f]})

\* Mutant: of equal scores the newest goes first.
NewestVictim(m, weights) ==
  LET score == [i \in DOMAIN m.order |-> Score(m, weights, m.order[i])]
  IN m.order[SelectLastInSeq(score, LAMBDA s : \A i \in DOMAIN score : s <= score[i])]

\* The lowest score goes first, the oldest of those with the same score.
Victim(m, weights) ==
  LET score == [i \in DOMAIN m.order |-> Score(m, weights, m.order[i])]
  IN m.order[SelectInSeq(score, LAMBDA s : \A i \in DOMAIN score : s <= score[i])]

\* The order with one component moved to its front.
Promoted(m, g) == [m EXCEPT !.order = <<g>> \o Among(m.order, Components \ {g})]

EvictRanked(m, weights) == EvictOldest(Promoted(m, Victim(m, weights)))
=============================================================================
