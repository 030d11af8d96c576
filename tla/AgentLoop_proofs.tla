--------------------------- MODULE AgentLoop_proofs ---------------------------
(* Proofs about an episode as the actor sees it, for any rows the sources     *)
(* return, any proposals, and whatever is forgotten in whatever order.        *)
EXTENDS AgentLoop, FiniteSetTheorems, TLAPS

USE MaxCentsAssumption, NoneAssumption, NoRowAssumption, RowsAssumption,
    RequestsAssumption, BoundsAssumption

-----------------------------------------------------------------------------
(* The rows of the four sources, uniformly *)

Tools == {"read_invoice", "read_account", "read_payment", "read_return"}

Ids(tool) == CASE tool = "read_account" -> Accounts
               [] tool = "read_return" -> Orders
               [] OTHER -> Cases

RowsOf(tool) == CASE tool = "read_invoice" -> InvoiceRows
                  [] tool = "read_account" -> AccountRows
                  [] tool = "read_payment" -> PaymentRows
                  [] tool = "read_return" -> ReturnRows

Observations ==
  [tool: {"read_invoice"}, id: Cases, row: InvoiceRows]
  \cup [tool: {"read_account"}, id: Accounts, row: AccountRows]
  \cup [tool: {"read_payment"}, id: Cases, row: PaymentRows]
  \cup [tool: {"read_return"}, id: Orders, row: ReturnRows]

IsRows(q) ==
  /\ q = [tool \in Tools |-> q[tool]]
  /\ \A tool \in Tools : q[tool] = [id \in Ids(tool) |-> q[tool][id]]

KnownRows(recs) ==
  /\ IsRows(recs)
  /\ \A tool \in Tools : \A id \in Ids(tool) : recs[tool][id] \in RowsOf(tool) \cup {None}

\* The order of the components is left open: no property here reads it.
IsMemory(m) ==
  /\ m = [order |-> m.order, rows |-> m.rows, booked |-> m.booked]
  /\ IsRows(m.rows)
  /\ m.booked = [k \in Keys |-> m.booked[k]]

LEMMA ObservationTyped ==
  ASSUME NEW o \in Observations
  PROVE  o.tool \in Tools /\ o.id \in Ids(o.tool) /\ o.row \in RowsOf(o.tool)
BY DEF Observations, Tools, Ids, RowsOf

LEMMA ReplaceIs ==
  ASSUME NEW q, IsRows(q), NEW tool \in Tools, NEW id \in Ids(tool), NEW row
  PROVE  /\ IsRows(Replace(q, tool, id, row))
         /\ \A u \in Tools : \A x \in Ids(u) :
              Replace(q, tool, id, row)[u][x] = IF u = tool /\ x = id THEN row ELSE q[u][x]
<1> DEFINE r == [q EXCEPT ![tool][id] = row]
<1>1. r = [u \in Tools |-> IF u = tool THEN [q[tool] EXCEPT ![id] = row] ELSE q[u]]
  BY DEF IsRows
<1>2. [q[tool] EXCEPT ![id] = row]
        = [x \in Ids(tool) |-> IF x = id THEN row ELSE q[tool][x]]
  BY DEF IsRows
<1>3. ASSUME NEW u \in Tools
      PROVE  r[u] = [x \in Ids(u) |-> IF u = tool /\ x = id THEN row ELSE q[u][x]]
  <2> HIDE DEF r
  <2>1. CASE u = tool
    BY <1>1, <1>2, <2>1
  <2>2. CASE u # tool
    BY <1>1, <2>2 DEF IsRows
  <2> QED  BY <2>1, <2>2
<1>4. r = [u \in Tools |-> r[u]]
  BY <1>1
<1> HIDE DEF r
<1>5. IsRows(r)
  BY <1>3, <1>4 DEF IsRows
<1>6. Replace(q, tool, id, row) = r
  BY DEF r, Replace
<1> QED  BY <1>3, <1>5, <1>6

LEMMA NoRecordsKnown ==
  /\ KnownRows(NoRecords)
  /\ \A tool \in Tools : \A id \in Ids(tool) : NoRecords[tool][id] = None
<1>1. \A tool \in Tools : NoRecords[tool] = [id \in Ids(tool) |-> None]
  BY DEF NoRecords, Tools, Ids
<1>2. NoRecords = [tool \in Tools |-> NoRecords[tool]]
  BY DEF NoRecords, Tools
<1> HIDE DEF NoRecords
<1>3. IsRows(NoRecords)
  BY <1>1, <1>2 DEF IsRows
<1> QED  BY <1>1, <1>3 DEF KnownRows

-----------------------------------------------------------------------------
(* What the operations on the memory do to its rows and its bookings *)

KeepsFacts(m, n) == IsMemory(n) /\ n.rows = m.rows /\ n.booked = m.booked

LEMMA ReorderKeeps ==
  ASSUME NEW m, IsMemory(m), NEW order
  PROVE  KeepsFacts(m, [m EXCEPT !.order = order])
<1>1. [m EXCEPT !.order = order] = [order |-> order, rows |-> m.rows, booked |-> m.booked]
  BY DEF IsMemory
<1> QED  BY <1>1 DEF KeepsFacts, IsMemory

SyncedOrder(m) ==
  LET groups == Groups(m)
      appeared(kind) == SetToSeq({g \in groups : g[1] = kind /\ ~Contains(m.order, g)})
  IN appeared("account") \o appeared("invoice") \o appeared("return") \o Among(m.order, groups)

LEMMA SyncKeeps ==
  ASSUME NEW m, IsMemory(m)
  PROVE  KeepsFacts(m, SyncOrder(m))
<1>1. SyncOrder(m) = [m EXCEPT !.order = SyncedOrder(m)]
  BY Zenon DEF SyncOrder, SyncedOrder
<1> QED  BY <1>1, ReorderKeeps

LEMMA MoveKeeps ==
  ASSUME NEW m, IsMemory(m), NEW touched
  PROVE  KeepsFacts(m, MoveToBack(m, touched))
<1> DEFINE moved == Among(m.order, Components \ touched) \o Among(m.order, touched)
<1>1. MoveToBack(m, touched) = [m EXCEPT !.order = moved]
  BY Zenon DEF MoveToBack
<1> HIDE DEF moved
<1> QED  BY <1>1, ReorderKeeps

LEMMA PutRowIs ==
  ASSUME NEW m, IsMemory(m), NEW tool \in Tools, NEW id \in Ids(tool), NEW row
  PROVE  /\ IsMemory(PutRow(m, tool, id, row))
         /\ PutRow(m, tool, id, row).rows = Replace(m.rows, tool, id, ExplicitRow(tool, row))
         /\ PutRow(m, tool, id, row).booked = m.booked
<1> DEFINE rows == Replace(m.rows, tool, id, ExplicitRow(tool, row))
           put == [m EXCEPT !.rows = rows]
           synced == SyncOrder(put)
           moved == MoveToBack(synced, Touched(synced.rows, tool, id))
<1>1. IsRows(rows)
  BY ReplaceIs DEF IsMemory
<1>2. IsMemory(put) /\ put.rows = rows /\ put.booked = m.booked
  <2> HIDE DEF rows
  <2>1. put = [order |-> m.order, rows |-> rows, booked |-> m.booked]
    BY DEF IsMemory
  <2> QED  BY <1>1, <2>1 DEF IsMemory
<1>3. KeepsFacts(put, synced)
  <2> HIDE DEF put
  <2> QED  BY <1>2, SyncKeeps
<1>4. KeepsFacts(synced, moved)
  <2> HIDE DEF synced
  <2> QED  BY <1>3, MoveKeeps DEF KeepsFacts
<1>5. PutRow(m, tool, id, row) = moved
  BY Zenon DEF PutRow
<1> HIDE DEF rows, put, synced, moved
<1>6. IsMemory(moved) /\ moved.rows = rows /\ moved.booked = m.booked
  BY <1>2, <1>3, <1>4 DEF KeepsFacts
<1> QED  BY <1>5, <1>6 DEF rows

LEMMA PutBookingIs ==
  ASSUME NEW m, IsMemory(m), NEW key \in Keys, NEW amount
  PROVE  /\ IsMemory(PutBooking(m, key, amount))
         /\ PutBooking(m, key, amount).rows = m.rows
         /\ PutBooking(m, key, amount).booked = [m.booked EXCEPT ![key] = amount]
<1> DEFINE booking == [m.booked EXCEPT ![key] = amount]
           put == [m EXCEPT !.booked[key] = amount]
           synced == SyncOrder(put)
           moved == MoveToBack(synced, {<<"invoice", key[1]>>})
<1>1. booking = [k \in Keys |-> booking[k]]
  BY DEF IsMemory
<1>2. IsMemory(put) /\ put.rows = m.rows /\ put.booked = booking
  <2>1. put = [order |-> m.order, rows |-> m.rows, booked |-> booking]
    BY DEF IsMemory
  <2> HIDE DEF put, booking
  <2> QED  BY <1>1, <2>1 DEF IsMemory
<1>3. KeepsFacts(put, synced)
  <2> HIDE DEF put
  <2> QED  BY <1>2, SyncKeeps
<1>4. KeepsFacts(synced, moved)
  <2> HIDE DEF synced
  <2> QED  BY <1>3, MoveKeeps DEF KeepsFacts
<1>5. PutBooking(m, key, amount) = moved
  BY Zenon DEF PutBooking
<1> HIDE DEF booking, put, synced, moved
<1>6. IsMemory(moved) /\ moved.rows = m.rows /\ moved.booked = booking
  BY <1>2, <1>3, <1>4 DEF KeepsFacts
<1> QED  BY <1>5, <1>6 DEF booking

\* What eviction leaves is what was there, or nothing.
Forgets(m, n) ==
  /\ IsMemory(n)
  /\ \A tool \in Tools : \A id \in Ids(tool) : n.rows[tool][id] \in {None, m.rows[tool][id]}
  /\ \A k \in Keys : n.booked[k] \in {0, m.booked[k]}

LEMMA FewerRows ==
  ASSUME NEW m, IsMemory(m), NEW rows, IsRows(rows),
         \A tool \in Tools : \A id \in Ids(tool) : rows[tool][id] \in {None, m.rows[tool][id]},
         NEW booking, booking = [k \in Keys |-> booking[k]],
         \A k \in Keys : booking[k] \in {0, m.booked[k]}
  PROVE  Forgets(m, [m EXCEPT !.booked = booking, !.rows = rows])
<1> DEFINE n == [m EXCEPT !.booked = booking, !.rows = rows]
<1> DEFINE a == [m EXCEPT !.booked = booking]
<1>1. a = [order |-> m.order, rows |-> m.rows, booked |-> booking]
  BY DEF IsMemory
<1>2. n = [a EXCEPT !.rows = rows]
  OBVIOUS
<1> HIDE DEF n, a
<1>3. n = [order |-> m.order, rows |-> rows, booked |-> booking]
  BY <1>1, <1>2
<1>4. n.rows = rows /\ n.booked = booking /\ n.order = m.order
  BY <1>3
<1>5. IsMemory(n)
  BY <1>3, <1>4 DEF IsMemory
<1>6. Forgets(m, n)
  BY <1>4, <1>5 DEF Forgets
<1> QED  BY <1>6 DEF n

LEMMA EvictRowIs ==
  ASSUME NEW m, IsMemory(m), NEW tool \in Tools, NEW id \in Ids(tool)
  PROVE  Forgets(m, [m EXCEPT !.rows = Replace(@, tool, id, None)])
<1> DEFINE rows == Replace(m.rows, tool, id, None)
<1>1. /\ IsRows(rows)
      /\ \A u \in Tools : \A x \in Ids(u) : rows[u][x] \in {None, m.rows[u][x]}
  BY ReplaceIs DEF IsMemory
<1> HIDE DEF rows
<1>2. /\ m.booked = [k \in Keys |-> m.booked[k]]
      /\ \A k \in Keys : m.booked[k] \in {0, m.booked[k]}
  BY DEF IsMemory
<1>3. Forgets(m, [m EXCEPT !.booked = m.booked, !.rows = rows])
  BY <1>1, <1>2, FewerRows
<1>4. [m EXCEPT !.booked = m.booked, !.rows = rows] = [m EXCEPT !.rows = rows]
  BY DEF IsMemory
<1> QED  BY <1>3, <1>4 DEF rows

LEMMA EvictInvoiceIs ==
  ASSUME NEW m, IsMemory(m), NEW c \in Cases
  PROVE  Forgets(m, EvictInvoice(m, c))
<1> DEFINE invoice == m.rows.read_invoice[c]
           rest == [m.rows EXCEPT !.read_invoice[c] = None, !.read_payment[c] = None]
           dropped(field, id) == invoice # None /\ invoice[field] = id
                                 /\ LastLink(rest, field, id)
           booking == [k \in Keys |-> IF k[1] = c THEN 0 ELSE m.booked[k]]
           accounts == [a \in Accounts |-> IF dropped("account_id", a) THEN None
                                           ELSE rest.read_account[a]]
           returns == [o \in Orders |-> IF dropped("order_id", o) THEN None
                                        ELSE rest.read_return[o]]
           rows == [rest EXCEPT !.read_account = accounts, !.read_return = returns]
<1>1. EvictInvoice(m, c) = [m EXCEPT !.booked = booking, !.rows = rows]
  BY DEF EvictInvoice
<1> HIDE DEF dropped
<1>0. m.rows = [read_invoice |-> m.rows.read_invoice, read_account |-> m.rows.read_account,
                read_payment |-> m.rows.read_payment, read_return |-> m.rows.read_return]
  BY DEF IsMemory, IsRows, Tools
<1>2. rest = [read_invoice |-> [m.rows.read_invoice EXCEPT ![c] = None],
              read_account |-> m.rows.read_account,
              read_payment |-> [m.rows.read_payment EXCEPT ![c] = None],
              read_return |-> m.rows.read_return]
  <2> DEFINE a == [m.rows EXCEPT !.read_invoice[c] = None]
  <2>1. a = [read_invoice |-> [m.rows.read_invoice EXCEPT ![c] = None],
             read_account |-> m.rows.read_account, read_payment |-> m.rows.read_payment,
             read_return |-> m.rows.read_return]
    BY ONLY <1>0
  <2>2. rest = [a EXCEPT !.read_payment[c] = None]
    OBVIOUS
  <2> HIDE DEF a, rest
  <2> QED  BY ONLY <2>1, <2>2
<1> HIDE DEF rest
<1>3. rows = [read_invoice |-> [m.rows.read_invoice EXCEPT ![c] = None],
              read_account |-> accounts,
              read_payment |-> [m.rows.read_payment EXCEPT ![c] = None],
              read_return |-> returns]
  <2> DEFINE a == [rest EXCEPT !.read_account = accounts]
  <2>1. a = [read_invoice |-> [m.rows.read_invoice EXCEPT ![c] = None],
             read_account |-> accounts,
             read_payment |-> [m.rows.read_payment EXCEPT ![c] = None],
             read_return |-> m.rows.read_return]
    <3> HIDE DEF accounts
    <3> QED  BY ONLY <1>2
  <2>2. rows = [a EXCEPT !.read_return = returns]
    OBVIOUS
  <2> HIDE DEF a, rows, accounts, returns
  <2> QED  BY ONLY <2>1, <2>2
<1>4. /\ \A a \in Accounts : accounts[a] \in {None, m.rows.read_account[a]}
      /\ \A o \in Orders : returns[o] \in {None, m.rows.read_return[o]}
      /\ accounts = [a \in Accounts |-> accounts[a]]
      /\ returns = [o \in Orders |-> returns[o]]
  BY <1>2
<1>5. /\ booking = [k \in Keys |-> booking[k]]
      /\ \A k \in Keys : booking[k] \in {0, m.booked[k]}
  OBVIOUS
<1> HIDE DEF accounts, returns, rows, booking
<1>6. /\ rows.read_invoice = [m.rows.read_invoice EXCEPT ![c] = None]
      /\ rows.read_account = accounts
      /\ rows.read_payment = [m.rows.read_payment EXCEPT ![c] = None]
      /\ rows.read_return = returns
      /\ rows = [u \in Tools |-> rows[u]]
  BY ONLY <1>3 DEF Tools
<1>7. /\ m.rows.read_invoice = [x \in Cases |-> m.rows.read_invoice[x]]
      /\ m.rows.read_payment = [x \in Cases |-> m.rows.read_payment[x]]
  BY DEF IsMemory, IsRows, Tools, Ids
<1>8. ASSUME NEW u \in Tools
      PROVE  /\ rows[u] = [x \in Ids(u) |-> rows[u][x]]
             /\ \A x \in Ids(u) : rows[u][x] \in {None, m.rows[u][x]}
  <2>1. CASE u \in {"read_invoice", "read_payment"}
    BY <1>6, <1>7, <2>1 DEF Ids
  <2>2. CASE u = "read_account"
    BY <1>4, <1>6, <2>2 DEF Ids
  <2>3. CASE u = "read_return"
    BY <1>4, <1>6, <2>3 DEF Ids
  <2> QED  BY <2>1, <2>2, <2>3 DEF Tools
<1>9. IsRows(rows)
  BY <1>6, <1>8 DEF IsRows
<1>10. Forgets(m, [m EXCEPT !.booked = booking, !.rows = rows])
  BY <1>5, <1>8, <1>9, FewerRows
<1> QED  BY <1>1, <1>10, Zenon

LEMMA EvictIs ==
  ASSUME NEW m, IsMemory(m), NEW g \in Components, NEW rest
  PROVE  Forgets(m, EvictOldest([m EXCEPT !.order = <<g>> \o rest]))
<1> DEFINE n == [m EXCEPT !.order = <<g>> \o rest]
<1>1. IsMemory(n) /\ n.rows = m.rows /\ n.booked = m.booked
  BY ReorderKeeps DEF KeepsFacts
<1>2. Head(n.order) = g
  <2>1. n.order = <<g>> \o rest
    BY DEF IsMemory
  <2>2. Head(<<g>> \o rest) = g
    OBVIOUS
  <2> HIDE DEF n
  <2> QED  BY <2>1, <2>2
<1> HIDE DEF n
<1>3. ASSUME NEW e, Forgets(n, e)  PROVE Forgets(m, SyncOrder(e))
  <2>1. KeepsFacts(e, SyncOrder(e))
    BY <1>3, SyncKeeps DEF Forgets
  <2> QED  BY <1>1, <1>3, <2>1 DEF Forgets, KeepsFacts
<1>4. CASE g \in {"invoice"} \X Cases
  <2>1. g[1] = "invoice" /\ g[2] \in Cases
    BY <1>4
  <2>2. EvictOldest(n) = SyncOrder(EvictInvoice(n, g[2]))
    BY <1>2, <2>1, Zenon DEF EvictOldest
  <2> QED  BY <1>1, <1>3, <2>1, <2>2, EvictInvoiceIs DEF n
<1>5. CASE g \in {"account"} \X Accounts
  <2>1. g[1] = "account" /\ g[2] \in Ids("read_account") /\ "read_account" \in Tools
    BY <1>5 DEF Ids, Tools
  <2>2. EvictOldest(n) = SyncOrder([n EXCEPT !.rows.read_account[g[2]] = None])
    BY <1>2, <2>1 DEF EvictOldest
  <2>3. [n EXCEPT !.rows.read_account[g[2]] = None]
          = [n EXCEPT !.rows = Replace(@, "read_account", g[2], None)]
    BY DEF Replace
  <2>4. Forgets(n, [n EXCEPT !.rows = Replace(@, "read_account", g[2], None)])
    BY <1>1, <2>1, EvictRowIs
  <2>5. Forgets(n, [n EXCEPT !.rows.read_account[g[2]] = None])
    BY <2>3, <2>4, Zenon
  <2> QED  BY <1>3, <2>2, <2>5 DEF n
<1>6. CASE g \in {"return"} \X Orders
  <2>1. g[1] = "return" /\ g[2] \in Ids("read_return") /\ "read_return" \in Tools
    BY <1>6 DEF Ids, Tools
  <2>2. EvictOldest(n) = SyncOrder([n EXCEPT !.rows.read_return[g[2]] = None])
    BY <1>2, <2>1 DEF EvictOldest
  <2>3. [n EXCEPT !.rows.read_return[g[2]] = None]
          = [n EXCEPT !.rows = Replace(@, "read_return", g[2], None)]
    BY DEF Replace
  <2>4. Forgets(n, [n EXCEPT !.rows = Replace(@, "read_return", g[2], None)])
    BY <1>1, <2>1, EvictRowIs
  <2>5. Forgets(n, [n EXCEPT !.rows.read_return[g[2]] = None])
    BY <2>3, <2>4, Zenon
  <2> QED  BY <1>3, <2>2, <2>5 DEF n
<1> QED  BY <1>4, <1>5, <1>6 DEF Components

-----------------------------------------------------------------------------
(* The three folds over the observations of a step, as chains: what the       *)
(* kernel has after i of them, what the card shows and what the memory keeps. *)

Latest(S) == CHOOSE x \in S : \A y \in S : x >= y
NewestStep(o, recs) == Replace(recs, o.tool, o.id, o.row)
OverlayStep(o, m) == [m EXCEPT !.rows = Replace(@, o.tool, o.id, ExplicitRow(o.tool, o.row))]
IngestStep(o, m) == PutRow(m, o.tool, o.id, o.row)

News == INSTANCE FoldLemmas WITH op <- NewestStep, pick <- Latest
Over == INSTANCE FoldLemmas WITH op <- OverlayStep, pick <- Latest
Ingest == INSTANCE FoldLemmas WITH op <- IngestStep, pick <- Latest

NewestOf(recs, s) ==
  FoldLeft(LAMBDA acc, o : Replace(acc, o.tool, o.id, o.row), recs, s)

LEMMA NewestChain ==
  ASSUME NEW s \in Seq(Observations), NEW base
  PROVE  /\ News!Fold(s, base, 1..0) = base
         /\ \A i \in 1..Len(s) : News!Fold(s, base, 1..i)
                                  = NewestStep(s[i], News!Fold(s, base, 1..(i - 1)))
         /\ NewestOf(base, s) = News!Fold(s, base, 1..Len(s))
<1> DEFINE n == Len(s)
<1>1. n \in Nat /\ DOMAIN s = 1..n
  OBVIOUS
<1>2. \A t \in SUBSET (1..n) : Latest(t) = CHOOSE x \in t : \A y \in t : x >= y
  BY DEF Latest
<1> HIDE DEF n
<1>3. News!IsChain(s, base, n)
  BY <1>1, <1>2, News!FoldChain
<1>4. NewestOf(base, s) = News!Fold(s, base, DOMAIN s)
  BY DEF NewestOf, FoldLeft, MapThenFoldSet, News!Fold, News!Solves, News!Step, NewestStep, Latest, Max
<1> QED  BY <1>1, <1>3, <1>4 DEF n, News!IsChain

LEMMA OverlayChain ==
  ASSUME NEW s \in Seq(Observations), NEW base
  PROVE  /\ Over!Fold(s, base, 1..0) = base
         /\ \A i \in 1..Len(s) : Over!Fold(s, base, 1..i)
                                  = OverlayStep(s[i], Over!Fold(s, base, 1..(i - 1)))
         /\ OverlayCurrent(base, s) = Over!Fold(s, base, 1..Len(s))
<1> DEFINE n == Len(s)
<1>1. n \in Nat /\ DOMAIN s = 1..n
  OBVIOUS
<1>2. \A t \in SUBSET (1..n) : Latest(t) = CHOOSE x \in t : \A y \in t : x >= y
  BY DEF Latest
<1> HIDE DEF n
<1>3. Over!IsChain(s, base, n)
  BY <1>1, <1>2, Over!FoldChain
<1>4. OverlayCurrent(base, s) = Over!Fold(s, base, DOMAIN s)
  BY DEF OverlayCurrent, FoldLeft, MapThenFoldSet, Over!Fold, Over!Solves, Over!Step, OverlayStep, Latest, Max
<1> QED  BY <1>1, <1>3, <1>4 DEF n, Over!IsChain

LEMMA IngestChain ==
  ASSUME NEW s \in Seq(Observations), NEW base
  PROVE  /\ Ingest!Fold(s, base, 1..0) = base
         /\ \A i \in 1..Len(s) : Ingest!Fold(s, base, 1..i)
                                  = IngestStep(s[i], Ingest!Fold(s, base, 1..(i - 1)))
         /\ Ingested(base, s) = Ingest!Fold(s, base, 1..Len(s))
<1> DEFINE n == Len(s)
<1>1. n \in Nat /\ DOMAIN s = 1..n
  OBVIOUS
<1>2. \A t \in SUBSET (1..n) : Latest(t) = CHOOSE x \in t : \A y \in t : x >= y
  BY DEF Latest
<1> HIDE DEF n
<1>3. Ingest!IsChain(s, base, n)
  BY <1>1, <1>2, Ingest!FoldChain
<1>4. Ingested(base, s) = Ingest!Fold(s, base, DOMAIN s)
  BY DEF Ingested, FoldLeft, MapThenFoldSet, Ingest!Fold, Ingest!Solves, Ingest!Step, IngestStep, Latest, Max
<1> QED  BY <1>1, <1>3, <1>4 DEF n, Ingest!IsChain

-----------------------------------------------------------------------------
(* The rows the memory tells are the kernel's, made explicit, or missing; a   *)
(* memory that is whole misses only what the kernel has no row for either.    *)

Retold(tool, kept, row) ==
  \/ kept = None
  \/ row \in RowsOf(tool) /\ kept = ExplicitRow(tool, row)

Tells(m, recs, whole) ==
  \A tool \in Tools : \A id \in Ids(tool) :
    /\ Retold(tool, m.rows[tool][id], recs[tool][id])
    /\ whole /\ m.rows[tool][id] = None => recs[tool][id] = None

LEMMA NewestStepKnown ==
  ASSUME NEW o \in Observations, NEW recs, KnownRows(recs)
  PROVE  KnownRows(NewestStep(o, recs))
BY ObservationTyped, ReplaceIs DEF KnownRows, NewestStep

LEMMA ExplicitIsThere ==
  ASSUME NEW tool \in Tools, NEW row \in RowsOf(tool), ExplicitRow(tool, row) = None
  PROVE  row = None
<1>1. CASE tool = "read_account"
  <2>1. row \in AccountRow /\ row # None
    BY <1>1 DEF RowsOf
  <2>2. [row EXCEPT !.status = "unknown"] \in AccountRow
    BY <2>1 DEF AccountRow, AccountStatus
  <2> QED  BY <1>1, <2>1, <2>2 DEF ExplicitRow
<1>2. CASE tool # "read_account"
  BY <1>2 DEF ExplicitRow, Tools
<1> QED  BY <1>1, <1>2

LEMMA TellsStep ==
  ASSUME NEW o \in Observations, NEW m, IsMemory(m), NEW recs, KnownRows(recs),
         NEW whole, Tells(m, recs, whole),
         NEW n, n.rows = Replace(m.rows, o.tool, o.id, ExplicitRow(o.tool, o.row))
  PROVE  Tells(n, NewestStep(o, recs), whole)
<1>1. o.tool \in Tools /\ o.id \in Ids(o.tool) /\ o.row \in RowsOf(o.tool)
  BY ObservationTyped
<1>2. \A tool \in Tools : \A id \in Ids(tool) :
        /\ n.rows[tool][id] = IF tool = o.tool /\ id = o.id THEN ExplicitRow(o.tool, o.row)
                              ELSE m.rows[tool][id]
        /\ NewestStep(o, recs)[tool][id] = IF tool = o.tool /\ id = o.id THEN o.row
                                           ELSE recs[tool][id]
  BY <1>1, ReplaceIs DEF IsMemory, KnownRows, NewestStep
<1>3. ExplicitRow(o.tool, o.row) = None => o.row = None
  BY <1>1, ExplicitIsThere
<1> QED  BY <1>1, <1>2, <1>3 DEF Tells, Retold

LEMMA OverlayStepIs ==
  ASSUME NEW o \in Observations, NEW m, IsMemory(m)
  PROVE  /\ IsMemory(OverlayStep(o, m)) /\ OverlayStep(o, m).booked = m.booked
         /\ OverlayStep(o, m).rows = Replace(m.rows, o.tool, o.id, ExplicitRow(o.tool, o.row))
<1> DEFINE rows == Replace(m.rows, o.tool, o.id, ExplicitRow(o.tool, o.row))
<1>1. IsRows(rows)
  BY ObservationTyped, ReplaceIs DEF IsMemory
<1> HIDE DEF rows
<1>2. [m EXCEPT !.rows = rows] = [order |-> m.order, rows |-> rows, booked |-> m.booked]
  BY DEF IsMemory
<1>3. OverlayStep(o, m) = [m EXCEPT !.rows = rows]
  BY DEF OverlayStep, rows
<1>4. /\ IsMemory(OverlayStep(o, m)) /\ OverlayStep(o, m).booked = m.booked
      /\ OverlayStep(o, m).rows = rows
  BY <1>1, <1>2, <1>3 DEF IsMemory
<1> QED  BY <1>4 DEF rows

LEMMA IngestStepIs ==
  ASSUME NEW o \in Observations, NEW m, IsMemory(m)
  PROVE  /\ IsMemory(IngestStep(o, m)) /\ IngestStep(o, m).booked = m.booked
         /\ IngestStep(o, m).rows = Replace(m.rows, o.tool, o.id, ExplicitRow(o.tool, o.row))
BY ObservationTyped, PutRowIs DEF IngestStep

\* What no observation of the step updated is what the kernel had before it.
LEMMA NewestKnown ==
  ASSUME NEW s \in Seq(Observations), NEW recs, KnownRows(recs)
  PROVE  /\ KnownRows(NewestOf(recs, s))
         /\ \A tool \in Tools : \A id \in Ids(tool) :
              ~Updated(s, tool, id) => NewestOf(recs, s)[tool][id] = recs[tool][id]
<1> DEFINE n == Len(s)
           R(i) == News!Fold(s, recs, 1..i)
           Same(q) == \A tool \in Tools : \A id \in Ids(tool) :
                        ~Updated(s, tool, id) => q[tool][id] = recs[tool][id]
           T == {i \in 0..n : KnownRows(R(i)) /\ Same(R(i))}
<1>1. n \in Nat /\ DOMAIN s = 1..n /\ \A i \in 1..n : s[i] \in Observations
  OBVIOUS
<1>2. /\ R(0) = recs /\ \A i \in 1..n : R(i) = NewestStep(s[i], R(i - 1))
      /\ NewestOf(recs, s) = R(n)
  BY NewestChain
<1> HIDE DEF n, R
<1>3. 0 \in T
  BY <1>1, <1>2
<1>4. ASSUME NEW i \in 1..n, i - 1 \in T  PROVE i \in T
  <2> DEFINE o == s[i]
             q == R(i - 1)
  <2>1. /\ KnownRows(q) /\ Same(q) /\ o \in Observations
        /\ R(i) = NewestStep(o, q) /\ Updated(s, o.tool, o.id) /\ i \in 0..n
    BY <1>1, <1>2, <1>4 DEF Updated
  <2> HIDE DEF o, q
  <2>2. KnownRows(NewestStep(o, q))
    BY <2>1, NewestStepKnown
  <2>3. \A tool \in Tools : \A id \in Ids(tool) :
          NewestStep(o, q)[tool][id] = IF tool = o.tool /\ id = o.id THEN o.row
                                       ELSE q[tool][id]
    BY <2>1, ObservationTyped, ReplaceIs DEF KnownRows, NewestStep
  <2>4. Same(NewestStep(o, q))
    BY <2>1, <2>3
  <2> QED  BY <2>1, <2>2, <2>4
<1>5. n \in T
  <2>1. \A i \in 1..n : i - 1 \in T => i \in T
    BY <1>4
  <2>2. n \in Nat /\ 0 \in T
    BY <1>1, <1>3
  <2> HIDE DEF T
  <2>3. \A i \in 0..n : i \in T
    BY <2>1, <2>2, News!StepsInduction
  <2> QED  BY <2>2, <2>3
<1> QED  BY <1>2, <1>5

LEMMA OverlayTells ==
  ASSUME NEW s \in Seq(Observations), NEW m, IsMemory(m), NEW recs, KnownRows(recs),
         NEW whole, Tells(m, recs, whole)
  PROVE  /\ IsMemory(OverlayCurrent(m, s)) /\ OverlayCurrent(m, s).booked = m.booked
         /\ Tells(OverlayCurrent(m, s), NewestOf(recs, s), whole)
<1> DEFINE n == Len(s)
           R(i) == News!Fold(s, recs, 1..i)
           M(i) == Over!Fold(s, m, 1..i)
           T == {i \in 0..n : /\ KnownRows(R(i)) /\ IsMemory(M(i)) /\ M(i).booked = m.booked
                              /\ Tells(M(i), R(i), whole)}
<1>1. n \in Nat /\ \A i \in 1..n : s[i] \in Observations
  OBVIOUS
<1>2. R(0) = recs /\ \A i \in 1..n : R(i) = NewestStep(s[i], R(i - 1))
  BY NewestChain
<1>3. M(0) = m /\ \A i \in 1..n : M(i) = OverlayStep(s[i], M(i - 1))
  BY OverlayChain
<1>4. NewestOf(recs, s) = R(n) /\ OverlayCurrent(m, s) = M(n)
  BY NewestChain, OverlayChain
<1> HIDE DEF n, R, M
<1>5. 0 \in T
  BY <1>1, <1>2, <1>3
<1>6. ASSUME NEW i \in 1..n, i - 1 \in T  PROVE i \in T
  <2> DEFINE o == s[i]
             q == R(i - 1)
             k == M(i - 1)
  <2>1. /\ KnownRows(q) /\ IsMemory(k) /\ k.booked = m.booked /\ Tells(k, q, whole)
        /\ o \in Observations /\ R(i) = NewestStep(o, q) /\ M(i) = OverlayStep(o, k)
    BY <1>1, <1>2, <1>3, <1>6
  <2> HIDE DEF o, q, k
  <2>2. KnownRows(NewestStep(o, q))
    BY <2>1, NewestStepKnown
  <2>3. /\ IsMemory(OverlayStep(o, k)) /\ OverlayStep(o, k).booked = k.booked
        /\ OverlayStep(o, k).rows = Replace(k.rows, o.tool, o.id, ExplicitRow(o.tool, o.row))
    BY <2>1, OverlayStepIs
  <2>4. Tells(OverlayStep(o, k), NewestStep(o, q), whole)
    BY <2>1, <2>3, TellsStep
  <2>5. i \in 0..n
    BY <1>1
  <2> QED  BY <2>1, <2>2, <2>3, <2>4, <2>5
<1>7. n \in T
  <2>1. \A i \in 1..n : i - 1 \in T => i \in T
    BY <1>6
  <2>2. n \in Nat /\ 0 \in T
    BY <1>1, <1>5
  <2> HIDE DEF T
  <2>3. \A i \in 0..n : i \in T
    BY <2>1, <2>2, News!StepsInduction
  <2> QED  BY <2>2, <2>3
<1> QED  BY <1>4, <1>7

LEMMA IngestTells ==
  ASSUME NEW s \in Seq(Observations), NEW m, IsMemory(m), NEW recs, KnownRows(recs),
         NEW whole, Tells(m, recs, whole)
  PROVE  /\ IsMemory(Ingested(m, s)) /\ Ingested(m, s).booked = m.booked
         /\ Tells(Ingested(m, s), NewestOf(recs, s), whole)
<1> DEFINE n == Len(s)
           R(i) == News!Fold(s, recs, 1..i)
           M(i) == Ingest!Fold(s, m, 1..i)
           T == {i \in 0..n : /\ KnownRows(R(i)) /\ IsMemory(M(i)) /\ M(i).booked = m.booked
                              /\ Tells(M(i), R(i), whole)}
<1>1. n \in Nat /\ \A i \in 1..n : s[i] \in Observations
  OBVIOUS
<1>2. R(0) = recs /\ \A i \in 1..n : R(i) = NewestStep(s[i], R(i - 1))
  BY NewestChain
<1>3. M(0) = m /\ \A i \in 1..n : M(i) = IngestStep(s[i], M(i - 1))
  BY IngestChain
<1>4. NewestOf(recs, s) = R(n) /\ Ingested(m, s) = M(n)
  BY NewestChain, IngestChain
<1> HIDE DEF n, R, M
<1>5. 0 \in T
  BY <1>1, <1>2, <1>3
<1>6. ASSUME NEW i \in 1..n, i - 1 \in T  PROVE i \in T
  <2> DEFINE o == s[i]
             q == R(i - 1)
             k == M(i - 1)
  <2>1. /\ KnownRows(q) /\ IsMemory(k) /\ k.booked = m.booked /\ Tells(k, q, whole)
        /\ o \in Observations /\ R(i) = NewestStep(o, q) /\ M(i) = IngestStep(o, k)
    BY <1>1, <1>2, <1>3, <1>6
  <2> HIDE DEF o, q, k
  <2>2. KnownRows(NewestStep(o, q))
    BY <2>1, NewestStepKnown
  <2>3. /\ IsMemory(IngestStep(o, k)) /\ IngestStep(o, k).booked = k.booked
        /\ IngestStep(o, k).rows = Replace(k.rows, o.tool, o.id, ExplicitRow(o.tool, o.row))
    BY <2>1, IngestStepIs
  <2>4. Tells(IngestStep(o, k), NewestStep(o, q), whole)
    BY <2>1, <2>3, TellsStep
  <2>5. i \in 0..n
    BY <1>1
  <2> QED  BY <2>1, <2>2, <2>3, <2>4, <2>5
<1>7. n \in T
  <2>1. \A i \in 1..n : i - 1 \in T => i \in T
    BY <1>6
  <2>2. n \in Nat /\ 0 \in T
    BY <1>1, <1>5
  <2> HIDE DEF T
  <2>3. \A i \in 0..n : i \in T
    BY <2>1, <2>2, News!StepsInduction
  <2> QED  BY <2>2, <2>3
<1> QED  BY <1>4, <1>7

-----------------------------------------------------------------------------
(* The facts of a card, one by one: what the rows they are joined from retell *)
(* is what the kernel's rows say, or not known.                               *)

At(m, n, tool, id) == Retold(tool, m.rows[tool][id], n.rows[tool][id])

LEMMA RequestTyped ==
  ASSUME NEW t \in Requests
  PROVE  /\ t.case \in Cases /\ t.operation \in Operations /\ <<t.case, t.operation>> \in Keys
         /\ t = [case |-> t.case, operation |-> t.operation]
BY DEF Keys

LEMMA AmountFact ==
  ASSUME NEW m, NEW n, NEW t, At(m, n, "read_invoice", t.case)
  PROVE  Facts(m, t).invoice_amount_cents \in {Facts(n, t).invoice_amount_cents, None}
BY DEF At, Retold, Facts, ExplicitRow, RowsOf

LEMMA AccountFacts ==
  ASSUME NEW m, NEW n, NEW t, At(m, n, "read_invoice", t.case),
         LET invoice == m.rows.read_invoice[t.case]
         IN invoice # None /\ invoice.account_id # None
              => At(m, n, "read_account", invoice.account_id)
  PROVE  /\ Facts(m, t).account_status \in {Facts(n, t).account_status, "unknown"}
         /\ Facts(m, t).ownership_match \in {Facts(n, t).ownership_match, "unknown"}
<1> DEFINE invoice == m.rows.read_invoice[t.case]
           account == m.rows.read_account[invoice.account_id]
           truth == n.rows.read_account[invoice.account_id]
<1>1. CASE invoice = None \/ invoice.account_id = None \/ account = None
  BY <1>1 DEF Facts
<1>2. CASE invoice # None /\ invoice.account_id # None /\ account # None
  <2>1. n.rows.read_invoice[t.case] = invoice
    BY <1>2 DEF At, Retold, ExplicitRow
  <2>2. truth \in AccountRow /\ account = ExplicitRow("read_account", truth) /\ truth # None
    BY <1>2 DEF At, Retold, RowsOf
  <2>3. /\ account.holder = truth.holder
        /\ account.status = IF truth.status = None THEN "unknown" ELSE truth.status
    BY <2>2 DEF ExplicitRow, AccountRow
  <2> HIDE DEF invoice, account, truth
  <2>4. /\ Facts(m, t).account_status = IF account.status = None THEN "unknown" ELSE account.status
        /\ Facts(n, t).account_status = IF truth.status = None THEN "unknown" ELSE truth.status
    BY <1>2, <2>1, <2>2 DEF Facts, invoice, account, truth
  <2>5. Facts(m, t).ownership_match = Facts(n, t).ownership_match
    BY <1>2, <2>1, <2>2, <2>3 DEF Facts, invoice, account, truth
  <2> QED  BY <2>3, <2>4, <2>5
<1> QED  BY <1>1, <1>2

LEMMA PaymentFact ==
  ASSUME NEW m, NEW n, NEW t, At(m, n, "read_payment", t.case)
  PROVE  Facts(m, t).payment_status \in {Facts(n, t).payment_status, "unknown"}
BY DEF At, Retold, Facts, ExplicitRow

LEMMA ReturnFact ==
  ASSUME NEW m, NEW n, NEW t, At(m, n, "read_invoice", t.case),
         LET invoice == m.rows.read_invoice[t.case]
         IN invoice # None /\ invoice.order_id # None
              => At(m, n, "read_return", invoice.order_id)
  PROVE  Facts(m, t).return_status \in {Facts(n, t).return_status, "unknown"}
<1> DEFINE invoice == m.rows.read_invoice[t.case]
           returned == m.rows.read_return[invoice.order_id]
<1>1. CASE invoice = None \/ invoice.order_id = None \/ returned = None
  BY <1>1 DEF Facts
<1>2. CASE invoice # None /\ invoice.order_id # None /\ returned # None
  <2>1. n.rows.read_invoice[t.case] = invoice
    BY <1>2 DEF At, Retold, ExplicitRow
  <2>2. returned = ExplicitRow("read_return", n.rows.read_return[invoice.order_id])
    BY <1>2 DEF At, Retold
  <2> HIDE DEF invoice, returned
  <2> QED  BY <1>2, <2>1, <2>2 DEF Facts, ExplicitRow, invoice, returned
<1> QED  BY <1>1, <1>2

LEMMA BookedFact ==
  ASSUME NEW m, NEW n, NEW t,
         m.booked[<<t.case, t.operation>>] \in {0, n.booked[<<t.case, t.operation>>]}
  PROVE  Facts(m, t).operation_already_booked
           \in {Facts(n, t).operation_already_booked, "no_record"}
BY DEF Facts

LEMMA FactNames ==
  ASSUME NEW m, NEW t
  PROVE  DOMAIN Facts(m, t) = {"invoice_amount_cents", "account_status", "ownership_match",
                               "payment_status", "return_status", "operation_already_booked"}
BY DEF Facts

\* The invoice of a case names an account and an order that exist, or none.
LEMMA LinksTyped ==
  ASSUME NEW m, NEW recs, KnownRows(recs), NEW whole, Tells(m, recs, whole), NEW c \in Cases,
         m.rows.read_invoice[c] # None
  PROVE  /\ m.rows.read_invoice[c] = recs.read_invoice[c]
         /\ m.rows.read_invoice[c] \in InvoiceRows
         /\ m.rows.read_invoice[c].account_id \in Accounts \cup {None}
         /\ m.rows.read_invoice[c].order_id \in Orders \cup {None}
<1>1. "read_invoice" \in Tools /\ c \in Ids("read_invoice")
  BY DEF Tools, Ids
<1>2. Retold("read_invoice", m.rows.read_invoice[c], recs.read_invoice[c])
  BY <1>1 DEF Tells
<1>3. m.rows.read_invoice[c] = recs.read_invoice[c] /\ recs.read_invoice[c] \in InvoiceRow
      /\ recs.read_invoice[c] \in InvoiceRows
  BY <1>2 DEF Retold, ExplicitRow, RowsOf
<1> QED  BY <1>3 DEF InvoiceRow

-----------------------------------------------------------------------------
(* The inductive invariant.  The cards are about the rows after the step that *)
(* is shown; what carries over from step to step is the memory against the    *)
(* kernel's rows before it.  After the last step nothing is retained.         *)

BookedTold(kept, truth, whole) ==
  \A k \in Keys : kept[k] \in {0, truth[k]} /\ (whole => kept[k] = truth[k])

AgentTypes ==
  /\ phase \in {"acting", "retaining"} /\ forgot \in BOOLEAN
  /\ next_step \in 0..MaxSteps
  /\ shown \in Seq(Observations)
  /\ KnownRows(records)
  /\ booked \in [Keys -> 0..MaxCents]

MemoryTells ==
  next_step < MaxSteps =>
    /\ IsMemory(memory)
    /\ Tells(memory, records, ~forgot)
    /\ BookedTold(memory.booked, booked, ~forgot)

AgentInv == AgentTypes /\ MemoryTells

LEMMA AgentInit == Init => AgentInv
<1> SUFFICES ASSUME Init  PROVE AgentInv
  OBVIOUS
<1>1. shown \in Seq(Observations)
  BY DEF Init
<1>2. AgentTypes
  <2>1. KnownRows(records)
    BY NoRecordsKnown DEF Init
  <2>2. booked \in [Keys -> 0..MaxCents]
    BY DEF Init, NoBookings
  <2>3. next_step = 0 /\ phase = "acting" /\ forgot = FALSE
    BY DEF Init
  <2>4. next_step \in 0..MaxSteps
    BY <2>3
  <2> QED  BY <1>1, <2>1, <2>2, <2>3, <2>4 DEF AgentTypes
<1>3. memory = [order |-> <<>>, rows |-> NoRecords, booked |-> NoBookings]
  BY DEF Init, EmptyMemory
<1>4. memory.rows = records /\ memory.booked = booked /\ booked = NoBookings
  BY <1>3 DEF Init
<1>5. IsMemory(memory)
  BY <1>3, NoRecordsKnown DEF IsMemory, KnownRows, NoBookings
<1>6. Tells(memory, records, ~forgot)
  <2>1. \A tool \in Tools : \A id \in Ids(tool) : memory.rows[tool][id] = None
                                                /\ records[tool][id] = None
    BY <1>4, NoRecordsKnown DEF Init
  <2> QED  BY <2>1 DEF Tells, Retold
<1>7. BookedTold(memory.booked, booked, ~forgot)
  BY <1>4 DEF BookedTold
<1> QED  BY <1>2, <1>5, <1>6, <1>7 DEF AgentInv, MemoryTells

LEMMA ObserveStep ==
  ASSUME AgentInv, NEW tool, NEW id, NEW row,
         [tool |-> tool, id |-> id, row |-> row] \in Observations, Observe(tool, id, row)
  PROVE  AgentInv'
<1>1. shown' \in Seq(Observations)
  <2> DEFINE o == [tool |-> tool, id |-> id, row |-> row]
  <2>1. shown' = Append(shown, o) /\ o \in Observations /\ shown \in Seq(Observations)
    BY DEF Observe, AgentInv, AgentTypes
  <2> HIDE DEF o
  <2> QED  BY <2>1
<1>2. UNCHANGED <<phase, records, booked, memory, forgot, next_step>>
  BY DEF Observe
<1>3. AgentTypes'
  BY <1>1, <1>2 DEF AgentInv, AgentTypes
<1>4. MemoryTells'
  BY <1>2 DEF AgentInv, MemoryTells
<1> QED  BY <1>3, <1>4 DEF AgentInv

LEMMA NewestIs == Newest = NewestOf(records, shown)
BY DEF Newest, NewestOf

LEMMA ProposalTyped ==
  ASSUME NEW t \in Requests, NEW p \in Proposals(t)
  PROVE  /\ p.case = t.case /\ p.amount \in 0..MaxCents /\ p.decision \in Decisions
         /\ p.decision \in Monetary <=> p.amount > 0
BY DEF Proposals, Act, DecisionFor, Decisions, Monetary

LEMMA DecideStep ==
  ASSUME AgentInv, NEW t \in Requests, NEW p \in Proposals(t), Decide(t, p)
  PROVE  AgentInv'
<1> DEFINE key == <<t.case, t.operation>>
           accepted == Allowed(p, t, Newest, Booked)
           kept == Ingested(memory, shown)
<1>1. /\ KnownRows(records) /\ shown \in Seq(Observations) /\ booked \in [Keys -> 0..MaxCents]
      /\ next_step \in 0..MaxSteps /\ next_step < MaxSteps /\ forgot \in BOOLEAN
      /\ IsMemory(memory) /\ Tells(memory, records, ~forgot)
      /\ BookedTold(memory.booked, booked, ~forgot)
  BY DEF AgentInv, AgentTypes, MemoryTells, Decide, Acting
<1>2. /\ records' = NewestOf(records, shown)
      /\ booked' = IF accepted /\ p.decision \in Monetary
                   THEN [booked EXCEPT ![key] = p.amount] ELSE booked
      /\ memory' = IF next_step + 1 < MaxSteps
                   THEN IngestedReceipt(kept, p, t, accepted) ELSE memory
      /\ phase' = "retaining" /\ shown' = <<>> /\ next_step' = next_step + 1
      /\ forgot' = forgot
  BY NewestIs DEF Decide
<1>3. key \in Keys /\ p.amount \in 0..MaxCents
  BY RequestTyped, ProposalTyped
<1>4. /\ IsMemory(kept) /\ kept.booked = memory.booked
      /\ Tells(kept, records', ~forgot)
  BY <1>1, <1>2, IngestTells
<1> HIDE DEF accepted, kept, key
<1>5. AgentTypes'
  <2>1. KnownRows(records')
    BY <1>1, <1>2, NewestKnown
  <2>2. booked' \in [Keys -> 0..MaxCents]
    BY <1>1, <1>2, <1>3
  <2>3. shown' \in Seq(Observations)
    BY <1>2
  <2> QED  BY <1>1, <1>2, <2>1, <2>2, <2>3 DEF AgentTypes
<1>6. MemoryTells'
  <2> SUFFICES ASSUME next_step' < MaxSteps
               PROVE  /\ IsMemory(memory') /\ Tells(memory', records', ~forgot')
                      /\ BookedTold(memory'.booked, booked', ~forgot')
    BY DEF MemoryTells
  <2>1. memory' = IF accepted /\ p.decision \in Monetary
                  THEN PutBooking(kept, key, p.amount) ELSE kept
    BY <1>2 DEF IngestedReceipt, key
  <2>2. CASE accepted /\ p.decision \in Monetary
    <3>1. /\ IsMemory(memory') /\ memory'.rows = kept.rows
          /\ memory'.booked = [kept.booked EXCEPT ![key] = p.amount]
      BY <1>3, <1>4, <2>1, <2>2, PutBookingIs
    <3>2. Tells(memory', records', ~forgot')
      BY <1>2, <1>4, <3>1 DEF Tells
    <3>3. kept.booked = [k \in Keys |-> kept.booked[k]]
      BY <1>4 DEF IsMemory
    <3>4. \A k \in Keys : /\ memory'.booked[k] = IF k = key THEN p.amount ELSE memory.booked[k]
                          /\ booked'[k] = IF k = key THEN p.amount ELSE booked[k]
      BY <1>1, <1>2, <1>3, <1>4, <2>2, <3>1, <3>3
    <3>5. BookedTold(memory'.booked, booked', ~forgot')
      BY <1>1, <1>2, <3>4 DEF BookedTold
    <3> QED  BY <3>1, <3>2, <3>5
  <2>3. CASE ~(accepted /\ p.decision \in Monetary)
    <3>1. memory' = kept /\ booked' = booked
      BY <1>2, <2>1, <2>3
    <3> QED  BY <1>1, <1>2, <1>4, <3>1
  <2> QED  BY <2>2, <2>3
<1> QED  BY <1>5, <1>6 DEF AgentInv

LEMMA ForgetStep ==
  ASSUME AgentInv, NEW g \in Components, Forget(g)
  PROVE  AgentInv'
<1>1. UNCHANGED <<phase, shown, records, booked, next_step>> /\ forgot' = TRUE
      /\ next_step < MaxSteps
  BY DEF Forget
<1>2. IsMemory(memory) /\ Tells(memory, records, ~forgot)
      /\ BookedTold(memory.booked, booked, ~forgot)
  BY <1>1 DEF AgentInv, MemoryTells
<1>3. Forgets(memory, memory')
  <2> DEFINE Kept == Among(memory.order, Components \ {g})
  <2>1. memory' = EvictOldest([memory EXCEPT !.order = <<g>> \o Kept])
    BY Zenon DEF Forget, Promoted
  <2> HIDE DEF Kept
  <2> QED  BY <1>2, <2>1, EvictIs
<1>4. AgentTypes'
  BY <1>1 DEF AgentInv, AgentTypes
<1>5. Tells(memory', records', ~forgot')
  <2>1. ASSUME NEW tool \in Tools, NEW id \in Ids(tool)
        PROVE  Retold(tool, memory'.rows[tool][id], records[tool][id])
    BY <1>2, <1>3 DEF Tells, Retold, Forgets
  <2> QED  BY <1>1, <2>1 DEF Tells
<1>6. BookedTold(memory'.booked, booked', ~forgot')
  BY <1>1, <1>2, <1>3 DEF BookedTold, Forgets
<1> QED  BY <1>3, <1>4, <1>5, <1>6 DEF AgentInv, MemoryTells, Forgets

LEMMA AgentStep == AgentInv /\ [Next]_vars => AgentInv'
<1> SUFFICES ASSUME AgentInv, [Next]_vars  PROVE AgentInv'
  OBVIOUS
<1>1. CASE UNCHANGED vars
  BY <1>1 DEF AgentInv, AgentTypes, MemoryTells, vars
<1>2. ASSUME NEW c \in Cases, NEW row \in InvoiceRows, Observe("read_invoice", c, row)
      PROVE  AgentInv'
  BY <1>2, ObserveStep DEF Observations
<1>3. ASSUME NEW a \in Accounts, NEW row \in AccountRows, Observe("read_account", a, row)
      PROVE  AgentInv'
  BY <1>3, ObserveStep DEF Observations
<1>4. ASSUME NEW c \in Cases, NEW row \in PaymentRows, Observe("read_payment", c, row)
      PROVE  AgentInv'
  BY <1>4, ObserveStep DEF Observations
<1>5. ASSUME NEW o \in Orders, NEW row \in ReturnRows, Observe("read_return", o, row)
      PROVE  AgentInv'
  BY <1>5, ObserveStep DEF Observations
<1>6. ASSUME NEW t \in Requests, NEW p \in Proposals(t), Decide(t, p)  PROVE AgentInv'
  BY <1>6, DecideStep
<1>7. ASSUME NEW g \in Components, Forget(g)  PROVE AgentInv'
  BY <1>7, ForgetStep
<1>8. CASE Fits
  BY <1>8 DEF Fits, AgentInv, AgentTypes, MemoryTells
<1> QED  BY <1>1, <1>2, <1>3, <1>4, <1>5, <1>6, <1>7, <1>8 DEF Next

-----------------------------------------------------------------------------
(* The cards *)

Overlaid == OverlayCurrent(memory, shown)
Trusted == [memory EXCEPT !.rows = Newest, !.booked = booked]

LEMMA TrustedIs ==
  ASSUME AgentInv, Acting
  PROVE  /\ Trusted.rows = Newest /\ Trusted.booked = booked
         /\ \A t : Truth(t) = Facts(Trusted, t)
<1>1. memory = [order |-> memory.order, rows |-> memory.rows, booked |-> memory.booked]
  BY DEF AgentInv, MemoryTells, Acting, IsMemory
<1>2. Trusted.rows = Newest /\ Trusted.booked = booked
  <2> HIDE DEF Newest
  <2> QED  BY ONLY <1>1 DEF Trusted
<1>3. \A t : Truth(t) = Facts(Trusted, t)
  BY DEF Truth, Trusted
<1> QED  BY <1>2, <1>3

LEMMA OverlaidTells ==
  ASSUME AgentInv, Acting
  PROVE  /\ KnownRows(Newest) /\ Tells(Overlaid, Newest, ~forgot)
         /\ BookedTold(Overlaid.booked, booked, ~forgot)
<1>1. /\ KnownRows(records) /\ shown \in Seq(Observations) /\ forgot \in BOOLEAN
      /\ IsMemory(memory) /\ Tells(memory, records, ~forgot)
      /\ BookedTold(memory.booked, booked, ~forgot)
  BY DEF AgentInv, AgentTypes, MemoryTells, Acting
<1>2. KnownRows(NewestOf(records, shown))
  BY <1>1, NewestKnown
<1>3. /\ Overlaid.booked = memory.booked
      /\ Tells(Overlaid, NewestOf(records, shown), ~forgot)
  BY <1>1, OverlayTells DEF Overlaid
<1> QED  BY <1>1, <1>2, <1>3, NewestIs

\* What the rows tell makes each fact the kernel's or not known.
LEMMA FactsAgree ==
  ASSUME NEW m, NEW n, KnownRows(n.rows), NEW whole, Tells(m, n.rows, whole),
         BookedTold(m.booked, n.booked, whole), NEW t \in Requests
  PROVE  \A f \in DOMAIN Facts(m, t) : Facts(m, t)[f] \in {Facts(n, t)[f], NotKnown(f)}
<1> DEFINE invoice == m.rows.read_invoice[t.case]
<1>0. ASSUME invoice # None
      PROVE  /\ invoice.account_id \in Accounts \cup {None}
             /\ invoice.order_id \in Orders \cup {None}
  <2>1. t.case \in Cases /\ m.rows.read_invoice[t.case] # None
    BY <1>0, RequestTyped
  <2> HIDE DEF invoice
  <2> QED  BY <2>1, LinksTyped DEF invoice
<1>1. /\ At(m, n, "read_invoice", t.case) /\ At(m, n, "read_payment", t.case)
  BY RequestTyped DEF Tells, At, Tools, Ids
<1>2. invoice # None /\ invoice.account_id # None => At(m, n, "read_account", invoice.account_id)
  <2> SUFFICES ASSUME invoice # None, invoice.account_id # None
               PROVE  At(m, n, "read_account", invoice.account_id)
    OBVIOUS
  <2>1. invoice.account_id \in Accounts
    BY <1>0
  <2> QED  BY <2>1 DEF Tells, At, Tools, Ids
<1>3. invoice # None /\ invoice.order_id # None => At(m, n, "read_return", invoice.order_id)
  <2> SUFFICES ASSUME invoice # None, invoice.order_id # None
               PROVE  At(m, n, "read_return", invoice.order_id)
    OBVIOUS
  <2>1. invoice.order_id \in Orders
    BY <1>0
  <2> QED  BY <2>1 DEF Tells, At, Tools, Ids
<1>4. m.booked[<<t.case, t.operation>>] \in {0, n.booked[<<t.case, t.operation>>]}
  BY RequestTyped DEF BookedTold
<1>5. Facts(m, t).invoice_amount_cents \in {Facts(n, t).invoice_amount_cents, None}
  BY <1>1, AmountFact
<1>6. /\ Facts(m, t).account_status \in {Facts(n, t).account_status, "unknown"}
      /\ Facts(m, t).ownership_match \in {Facts(n, t).ownership_match, "unknown"}
  BY <1>1, <1>2, AccountFacts
<1>7. Facts(m, t).payment_status \in {Facts(n, t).payment_status, "unknown"}
  BY <1>1, PaymentFact
<1>8. Facts(m, t).return_status \in {Facts(n, t).return_status, "unknown"}
  BY <1>1, <1>3, ReturnFact
<1>9. Facts(m, t).operation_already_booked
        \in {Facts(n, t).operation_already_booked, "no_record"}
  BY <1>4, BookedFact
<1> QED  BY <1>5, <1>6, <1>7, <1>8, <1>9, FactNames DEF NotKnown

LEMMA CardAgrees ==
  ASSUME AgentInv
  PROVE  CardNeverContradicts
<1> SUFFICES ASSUME Acting, NEW t \in Requests, NEW f \in DOMAIN Card(t)
             PROVE  Card(t)[f] \in {Truth(t)[f], NotKnown(f)}
  BY DEF CardNeverContradicts
<1>1. Card(t) = Facts(Overlaid, t) /\ Truth(t) = Facts(Trusted, t)
  BY TrustedIs DEF Card, ContextCard, Overlaid
<1>2. /\ KnownRows(Trusted.rows) /\ Tells(Overlaid, Trusted.rows, ~forgot)
      /\ BookedTold(Overlaid.booked, Trusted.booked, ~forgot)
  BY TrustedIs, OverlaidTells
<1> QED  BY <1>1, <1>2, FactsAgree

LEMMA ReadCardAgrees ==
  ASSUME AgentInv
  PROVE  ReadCardIsFresh
<1> SUFFICES ASSUME Acting, NEW t \in Requests, NEW f \in DOMAIN ReadCard(memory, shown, t)
             PROVE  ReadCard(memory, shown, t)[f] \in {Truth(t)[f], NotKnown(f)}
  BY DEF ReadCardIsFresh
<1> DEFINE invoice == memory.rows.read_invoice[t.case]
           masked == Masked(memory, shown, t)
           old == Facts(memory, t)
           truth == Facts(Trusted, t)
<1>1. f \in DOMAIN old /\ f \notin masked /\ ReadCard(memory, shown, t)[f] = old[f]
  <2>1. CASE Anchored(memory, t.case)
    BY <2>1 DEF ReadCard
  <2>2. CASE ~Anchored(memory, t.case)
    BY <2>2 DEF ReadCard
  <2> QED  BY <2>1, <2>2
<1>2. /\ KnownRows(records) /\ shown \in Seq(Observations)
      /\ Tells(memory, records, ~forgot) /\ BookedTold(memory.booked, booked, ~forgot)
  BY DEF AgentInv, AgentTypes, MemoryTells, Acting
<1>3. Trusted.rows = NewestOf(records, shown) /\ Trusted.booked = booked /\ Truth(t) = truth
  BY TrustedIs, NewestIs
<1>4. ASSUME NEW tool \in Tools, NEW id \in Ids(tool), ~Updated(shown, tool, id)
      PROVE  At(memory, Trusted, tool, id)
  <2>1. Trusted.rows[tool][id] = records[tool][id]
    BY <1>2, <1>3, <1>4, NewestKnown
  <2> QED  BY <1>2, <2>1 DEF At, Tells
<1>5. ASSUME invoice # None
      PROVE  /\ invoice.account_id \in Accounts \cup {None}
             /\ invoice.order_id \in Orders \cup {None}
  <2>1. t.case \in Cases /\ memory.rows.read_invoice[t.case] # None
    BY <1>5, RequestTyped
  <2> HIDE DEF invoice
  <2> QED  BY <1>2, <2>1, LinksTyped DEF invoice
<1>6. /\ {"read_invoice", "read_payment", "read_account", "read_return"} \subseteq Tools
      /\ t.case \in Ids("read_invoice") /\ t.case \in Ids("read_payment")
      /\ Ids("read_account") = Accounts /\ Ids("read_return") = Orders
  BY RequestTyped DEF Tools, Ids
<1> HIDE DEF masked, old, truth, invoice
<1>7. f \in {"invoice_amount_cents", "account_status", "ownership_match", "return_status"}
        => At(memory, Trusted, "read_invoice", t.case)
  <2>1. f \in {"invoice_amount_cents", "account_status", "ownership_match", "return_status"}
          => ~Updated(shown, "read_invoice", t.case)
    BY <1>1 DEF masked, Masked
  <2> QED  BY <1>4, <1>6, <2>1
<1>8. CASE f = "invoice_amount_cents"
  <2>1. old.invoice_amount_cents \in {truth.invoice_amount_cents, None}
    BY <1>7, <1>8, AmountFact DEF old, truth
  <2> QED  BY <1>1, <1>3, <1>8, <2>1 DEF NotKnown
<1>9. CASE f \in {"account_status", "ownership_match"}
  <2>1. invoice # None /\ invoice.account_id # None
          => ~Updated(shown, "read_account", invoice.account_id)
    BY <1>1, <1>9 DEF masked, Masked, invoice
  <2>2. invoice # None /\ invoice.account_id # None
          => At(memory, Trusted, "read_account", invoice.account_id)
    BY <1>4, <1>5, <1>6, <2>1
  <2>3. /\ old.account_status \in {truth.account_status, "unknown"}
        /\ old.ownership_match \in {truth.ownership_match, "unknown"}
    BY <1>7, <1>9, <2>2, AccountFacts DEF old, truth, invoice
  <2> QED  BY <1>1, <1>3, <1>9, <2>3 DEF NotKnown
<1>10. CASE f = "payment_status"
  <2>1. ~Updated(shown, "read_payment", t.case)
    BY <1>1, <1>10 DEF masked, Masked
  <2>2. old.payment_status \in {truth.payment_status, "unknown"}
    BY <1>4, <1>6, <2>1, PaymentFact DEF old, truth
  <2> QED  BY <1>1, <1>3, <1>10, <2>2 DEF NotKnown
<1>11. CASE f = "return_status"
  <2>1. invoice # None /\ invoice.order_id # None
          => ~Updated(shown, "read_return", invoice.order_id)
    BY <1>1, <1>11 DEF masked, Masked, invoice
  <2>2. invoice # None /\ invoice.order_id # None
          => At(memory, Trusted, "read_return", invoice.order_id)
    BY <1>4, <1>5, <1>6, <2>1
  <2>3. old.return_status \in {truth.return_status, "unknown"}
    BY <1>7, <1>11, <2>2, ReturnFact DEF old, truth, invoice
  <2> QED  BY <1>1, <1>3, <1>11, <2>3 DEF NotKnown
<1>12. CASE f = "operation_already_booked"
  <2>1. memory.booked[<<t.case, t.operation>>] \in {0, Trusted.booked[<<t.case, t.operation>>]}
    BY <1>2, <1>3, RequestTyped DEF BookedTold
  <2>2. old.operation_already_booked \in {truth.operation_already_booked, "no_record"}
    BY <2>1, BookedFact DEF old, truth
  <2> QED  BY <1>1, <1>3, <1>12, <2>2 DEF NotKnown
<1> QED  BY <1>1, <1>8, <1>9, <1>10, <1>11, <1>12, FactNames DEF old

-----------------------------------------------------------------------------
(* The guide: the index of the first true condition is the outcome. *)

LEMMA SelectsFirst ==
  ASSUME NEW seq, Len(seq) = 7, NEW k \in 1..7, seq[k], \A j \in 1..7 : j < k => ~seq[j]
  PROVE  SelectInSeq(seq, LAMBDA holds : holds) = k
<1> DEFINE I == {i \in 1..Len(seq) : seq[i]}
<1>1. k \in I /\ \A y \in I : k =< y
  OBVIOUS
<1>2. \A x \in I : (\A y \in I : x =< y) => x = k
  BY <1>1
<1>3. Min(I) = k
  <2> HIDE DEF I
  <2> QED  BY <1>1, <1>2 DEF Min
<1>4. I # {}
  BY <1>1
<1> QED  BY <1>3, <1>4 DEF SelectInSeq

\* The guide as the rules it lists.
GuideRules(card, t) ==
  IF card.operation_already_booked = "yes" THEN Act(t.case, "hold", 0, "already_completed")
  ELSE IF card.account_status \in {"blocked", "revoked"}
    THEN Act(t.case, "hold", 0, "account_restricted")
  ELSE IF card.ownership_match = "no" THEN Act(t.case, "hold", 0, "ownership_mismatch")
  ELSE IF Missing(card, t) THEN Act(t.case, "ask_info", 0, "missing_evidence")
  ELSE IF card.payment_status = "pending" THEN Act(t.case, "hold", 0, "funds_unsettled")
  ELSE IF t.operation = "refund" /\ card.return_status = "rejected"
    THEN Act(t.case, "hold", 0, "return_rejected")
  ELSE Act(t.case, DecisionFor(t.operation), card.invoice_amount_cents,
           IF t.operation = "payout" THEN "authorized_payout" ELSE "eligible_refund")

LEMMA GuidedIs ==
  ASSUME NEW card, NEW t
  PROVE  Guided(card, t) = GuideRules(card, t)
<1> DEFINE c == Conditions(card, t)
<1>1. /\ Len(c) = 7 /\ c[7]
      /\ c[1] <=> card.operation_already_booked = "yes"
      /\ c[2] <=> card.account_status \in {"blocked", "revoked"}
      /\ c[3] <=> card.ownership_match = "no"
      /\ c[4] <=> Missing(card, t)
      /\ c[5] <=> card.payment_status = "pending"
      /\ c[6] <=> t.operation = "refund" /\ card.return_status = "rejected"
  BY DEF Conditions
<1> HIDE DEF c
<1>2. ASSUME NEW k \in 1..7, c[k], \A j \in 1..7 : j < k => ~c[j]
      PROVE  Guided(card, t) = Outcomes(card, t)[k]
  <2>1. SelectInSeq(c, LAMBDA holds : holds) = k
    BY <1>1, <1>2, SelectsFirst
  <2> QED  BY <2>1 DEF Guided, c
<1>3. CASE c[1]
  BY <1>1, <1>2, <1>3 DEF Outcomes, GuideRules
<1>4. CASE ~c[1] /\ c[2]
  BY <1>1, <1>2, <1>4 DEF Outcomes, GuideRules
<1>5. CASE ~c[1] /\ ~c[2] /\ c[3]
  BY <1>1, <1>2, <1>5 DEF Outcomes, GuideRules
<1>6. CASE ~c[1] /\ ~c[2] /\ ~c[3] /\ c[4]
  BY <1>1, <1>2, <1>6 DEF Outcomes, GuideRules
<1>7. CASE ~c[1] /\ ~c[2] /\ ~c[3] /\ ~c[4] /\ c[5]
  BY <1>1, <1>2, <1>7 DEF Outcomes, GuideRules
<1>8. CASE ~c[1] /\ ~c[2] /\ ~c[3] /\ ~c[4] /\ ~c[5] /\ c[6]
  BY <1>1, <1>2, <1>8 DEF Outcomes, GuideRules
<1>9. CASE ~c[1] /\ ~c[2] /\ ~c[3] /\ ~c[4] /\ ~c[5] /\ ~c[6]
  BY <1>1, <1>2, <1>9 DEF Outcomes, GuideRules
<1> QED  BY <1>3, <1>4, <1>5, <1>6, <1>7, <1>8, <1>9

\* The rows a fact is joined from, when the card knows it.
Legible(m, recs) ==
  /\ \A c \in Cases : m.rows.read_invoice[c] # None =>
       /\ m.rows.read_invoice[c] = recs.read_invoice[c]
       /\ m.rows.read_invoice[c] \in InvoiceRows
       /\ m.rows.read_invoice[c].account_id \in Accounts \cup {None}
       /\ m.rows.read_invoice[c].order_id \in Orders \cup {None}
  /\ \A a \in Accounts : m.rows.read_account[a] # None =>
       /\ recs.read_account[a] \in AccountRow /\ recs.read_account[a] \in AccountRows
       /\ m.rows.read_account[a].holder = recs.read_account[a].holder
       /\ m.rows.read_account[a].status = IF recs.read_account[a].status = None
                                         THEN "unknown" ELSE recs.read_account[a].status
  /\ \A c \in Cases : m.rows.read_payment[c] # None =>
       /\ recs.read_payment[c] \in PaymentStatus
       /\ m.rows.read_payment[c] = IF recs.read_payment[c] = None THEN "unknown"
                                  ELSE recs.read_payment[c]
  /\ \A o \in Orders : m.rows.read_return[o] # None =>
       /\ recs.read_return[o] \in ReturnStatus
       /\ m.rows.read_return[o] = IF recs.read_return[o] = None THEN "unknown"
                                 ELSE recs.read_return[o]

LEMMA RowsLegible ==
  ASSUME NEW m, NEW recs, KnownRows(recs), NEW whole, Tells(m, recs, whole)
  PROVE  Legible(m, recs)
<1>1. ASSUME NEW a \in Accounts, m.rows.read_account[a] # None
      PROVE  /\ recs.read_account[a] \in AccountRows
             /\ m.rows.read_account[a] = ExplicitRow("read_account", recs.read_account[a])
  BY <1>1 DEF Tells, Retold, Tools, Ids, RowsOf
<1>2. ASSUME NEW row \in AccountRow
      PROVE  /\ ExplicitRow("read_account", row).holder = row.holder
             /\ ExplicitRow("read_account", row).status
                  = IF row.status = None THEN "unknown" ELSE row.status
  BY DEF ExplicitRow, AccountRow
<1>3. ASSUME NEW c \in Cases, m.rows.read_payment[c] # None
      PROVE  /\ recs.read_payment[c] \in PaymentRows
             /\ m.rows.read_payment[c] = ExplicitRow("read_payment", recs.read_payment[c])
  BY <1>3 DEF Tells, Retold, Tools, Ids, RowsOf
<1>4. ASSUME NEW o \in Orders, m.rows.read_return[o] # None
      PROVE  /\ recs.read_return[o] \in ReturnRows
             /\ m.rows.read_return[o] = ExplicitRow("read_return", recs.read_return[o])
  BY <1>4 DEF Tells, Retold, Tools, Ids, RowsOf
<1>5. \A row : /\ ExplicitRow("read_payment", row) = IF row = None THEN "unknown" ELSE row
              /\ ExplicitRow("read_return", row) = IF row = None THEN "unknown" ELSE row
  BY DEF ExplicitRow
<1>6. ASSUME NEW c \in Cases, m.rows.read_invoice[c] # None
      PROVE  /\ m.rows.read_invoice[c] = recs.read_invoice[c]
             /\ m.rows.read_invoice[c] \in InvoiceRows
             /\ m.rows.read_invoice[c].account_id \in Accounts \cup {None}
             /\ m.rows.read_invoice[c].order_id \in Orders \cup {None}
  BY <1>6, LinksTyped
<1> QED  BY <1>1, <1>2, <1>3, <1>4, <1>5, <1>6 DEF Legible

LEMMA BookedFactIs ==
  ASSUME NEW m, NEW t
  PROVE  Facts(m, t).operation_already_booked
           = IF m.booked[<<t.case, t.operation>>] > 0 THEN "yes" ELSE "no_record"
BY DEF Facts

\* A card that tells to book money shows everything the kernel will ask for.
LEMMA MoneyIsEvident ==
  ASSUME NEW m, NEW recs, KnownRows(recs), NEW whole, Tells(m, recs, whole), NEW t \in Requests,
         Guided(Facts(m, t), t).decision \in Monetary,
         NEW done, <<t.case, t.operation>> \notin done
  PROVE  /\ Facts(m, t).operation_already_booked # "yes"
         /\ Allowed(Guided(Facts(m, t), t), t, recs, done)
<1> DEFINE card == Facts(m, t)
           p == Guided(card, t)
           invoice == m.rows.read_invoice[t.case]
           account == m.rows.read_account[invoice.account_id]
           payment == m.rows.read_payment[t.case]
           returned == m.rows.read_return[invoice.order_id]
<1>0. Legible(m, recs)
  BY RowsLegible
<1>1. t.case \in Cases /\ t.operation \in Operations
  BY RequestTyped
<1>2. /\ card.operation_already_booked # "yes"
      /\ card.account_status \notin {"blocked", "revoked", "unknown"}
      /\ card.ownership_match \notin {"no", "unknown"}
      /\ card.invoice_amount_cents # None
      /\ card.payment_status \notin {"unknown", "pending"}
      /\ t.operation = "refund" => card.return_status \notin {"unknown", "rejected"}
      /\ p.case = t.case /\ p.decision = DecisionFor(t.operation)
      /\ p.amount = card.invoice_amount_cents
  <2>1. p = GuideRules(card, t)
    BY GuidedIs
  <2> HIDE DEF card, p
  <2>2. p.decision \in Monetary
    BY DEF card, p
  <2> QED  BY <2>1, <2>2 DEF GuideRules, Missing, Act, Monetary
<1> HIDE DEF p
<1>3. invoice # None /\ card.invoice_amount_cents = invoice.total_cents
  BY <1>2 DEF Facts
<1>4. /\ invoice = recs.read_invoice[t.case] /\ invoice \in InvoiceRows
      /\ invoice.account_id \in Accounts \cup {None} /\ invoice.order_id \in Orders \cup {None}
  <2> HIDE DEF card
  <2> QED  BY <1>0, <1>1, <1>3 DEF Legible
<1>5. /\ invoice.merchant_id # None /\ invoice.total_cents \in 1..MaxCents
      /\ invoice.currency = "BRL"
  <2> HIDE DEF invoice
  <2>1. invoice \in InvoiceRow
    BY <1>4
  <2>2. invoice.total_cents \in (0..MaxCents) \cup {None}
    BY <2>1 DEF InvoiceRow
  <2>3. invoice.total_cents \notin {None, 0} /\ invoice.merchant_id # None
        /\ invoice.currency = "BRL"
    BY <1>4, FixtureAssumption
  <2> QED  BY <2>2, <2>3
<1>6. /\ invoice.account_id # None /\ account # None
      /\ card.account_status = IF account.status = None THEN "unknown" ELSE account.status
  BY <1>2 DEF Facts
<1>7. invoice.merchant_id = account.holder
  BY <1>2, <1>3, <1>6 DEF Facts
<1>8. payment # None /\ card.payment_status = payment
  BY <1>2 DEF Facts
<1>9. t.operation = "refund" =>
        invoice.order_id # None /\ returned # None /\ card.return_status = returned
  BY <1>2 DEF Facts
<1> HIDE DEF card
<1>10. AccountClears(recs.read_account[invoice.account_id], invoice.merchant_id)
  <2> DEFINE row == recs.read_account[invoice.account_id]
  <2>1. /\ row \in AccountRow /\ row \in AccountRows /\ account.holder = row.holder
        /\ account.status = IF row.status = None THEN "unknown" ELSE row.status
    <3>1. invoice.account_id \in Accounts
      BY <1>4, <1>6
    <3> HIDE DEF invoice
    <3> QED  BY <1>0, <1>6, <3>1 DEF Legible
  <2> HIDE DEF row, account
  <2>2. row.status \in AccountStatus /\ row # None
    BY <2>1 DEF AccountRow
  <2>3. row.holder # None
    BY <2>1, FixtureAssumption
  <2>4. row.status = "active"
    BY <1>2, <1>6, <2>1, <2>2 DEF AccountStatus
  <2> QED  BY <1>7, <2>1, <2>2, <2>3, <2>4 DEF AccountClears, row
<1>11. recs.read_payment[t.case] = "cleared"
  BY <1>0, <1>1, <1>2, <1>8 DEF Legible, PaymentStatus
<1>12. t.operation = "refund" =>
         invoice.order_id # None /\ recs.read_return[invoice.order_id] = "accepted"
  <2> SUFFICES ASSUME t.operation = "refund"
               PROVE  invoice.order_id # None /\ recs.read_return[invoice.order_id] = "accepted"
    OBVIOUS
  <2>1. invoice.order_id \in Orders
    BY <1>4, <1>9
  <2> HIDE DEF invoice
  <2> QED  BY <1>0, <1>2, <1>9, <2>1 DEF Legible, ReturnStatus
<1>13. p.amount = invoice.total_cents /\ p.amount > 0
  BY <1>2, <1>3, <1>5
<1> HIDE DEF invoice, account, payment, returned
<1>14. InvoicePayable(recs.read_invoice[p.case], p.amount)
  BY <1>2, <1>3, <1>4, <1>5, <1>6, <1>13 DEF InvoicePayable, ExactAmount
<1>15. MonetaryAllowed(p, t.operation, recs, done)
  BY <1>2, <1>4, <1>10, <1>11, <1>12, <1>14 DEF MonetaryAllowed, NotBooked, ReturnNeeded
<1>16. Parses(p)
  BY <1>1, <1>2, <1>13 DEF Parses, DecisionFor, Decisions, Monetary, Operations
<1>17. Allowed(p, t, recs, done)
  BY <1>2, <1>15, <1>16 DEF Allowed
<1> QED  BY <1>2, <1>17 DEF p, card

LEMMA GuideAllowed ==
  ASSUME AgentInv
  PROVE  GuideIsSafe
<1> SUFFICES ASSUME Acting, NEW t \in Requests, Guided(Card(t), t).decision \in Monetary
             PROVE  LET p == Guided(Card(t), t)
                        key == <<t.case, t.operation>>
                    IN \/ Allowed(p, t, Newest, Booked)
                       \/ forgot /\ key \in Booked /\ Allowed(p, t, Newest, Booked \ {key})
  BY DEF GuideIsSafe
<1> DEFINE key == <<t.case, t.operation>>
<1>1. Card(t) = Facts(Overlaid, t)
  BY DEF Card, ContextCard, Overlaid
<1>2. /\ KnownRows(Newest) /\ Tells(Overlaid, Newest, ~forgot)
      /\ BookedTold(Overlaid.booked, booked, ~forgot)
  BY OverlaidTells
<1>3. \A done : key \notin done =>
        /\ Card(t).operation_already_booked # "yes"
        /\ Allowed(Guided(Card(t), t), t, Newest, done)
  BY <1>1, <1>2, MoneyIsEvident
<1>4. CASE key \notin Booked
  BY <1>3, <1>4
<1>5. CASE key \in Booked
  <2>1. Card(t).operation_already_booked # "yes"
    BY <1>3, key \notin {}
  <2>2. ~(Overlaid.booked[key] > 0)
    BY <1>1, <2>1, BookedFactIs
  <2>3. booked[key] > 0 /\ key \in Keys
    BY <1>5 DEF Booked
  <2>4. ~forgot => Overlaid.booked[key] = booked[key]
    BY <1>2, <2>3 DEF BookedTold
  <2>5. forgot \in BOOLEAN
    BY DEF AgentInv, AgentTypes
  <2>6. forgot
    BY <2>2, <2>3, <2>4, <2>5
  <2>7. key \notin Booked \ {key}
    OBVIOUS
  <2> QED  BY <1>3, <1>5, <2>6, <2>7
<1> QED  BY <1>4, <1>5

\* A memory that is whole shows as much as the private reference knows.
ShowsAll(card, snap) ==
  /\ card.invoice_amount_cents = snap.amount_cents
  /\ card.account_status = IF snap.account_status = None THEN "unknown"
                           ELSE snap.account_status
  /\ card.ownership_match = CASE snap.ownership_match = "match" -> "yes"
                              [] snap.ownership_match = "mismatch" -> "no"
                              [] OTHER -> "unknown"
  /\ snap.ownership_match \in {"match", "mismatch", "unknown"}
  /\ card.payment_status = IF snap.payment_status = None THEN "unknown"
                           ELSE snap.payment_status
  /\ snap.payment_status \in PaymentStatus
  /\ card.return_status = IF snap.return_status = None THEN "unknown"
                          ELSE snap.return_status

LEMMA WholeFacts ==
  ASSUME NEW m, NEW recs, KnownRows(recs), Tells(m, recs, TRUE), NEW t \in Requests
  PROVE  ShowsAll(Facts(m, t), Snapshot(recs, t.case, t.operation))
<1> DEFINE card == Facts(m, t)
           snap == Snapshot(recs, t.case, t.operation)
           invoice == m.rows.read_invoice[t.case]
           account == m.rows.read_account[invoice.account_id]
           trusted == recs.read_account[invoice.account_id]
           returned == m.rows.read_return[invoice.order_id]
<1>1. Legible(m, recs) /\ t.case \in Cases
  BY RowsLegible, RequestTyped
<1>2. /\ \A c \in Cases : m.rows.read_invoice[c] = None => recs.read_invoice[c] = None
      /\ \A c \in Cases : m.rows.read_payment[c] = None => recs.read_payment[c] = None
      /\ \A a \in Accounts : m.rows.read_account[a] = None => recs.read_account[a] = None
      /\ \A o \in Orders : m.rows.read_return[o] = None => recs.read_return[o] = None
  BY DEF Tells, Tools, Ids
<1>3. /\ recs.read_invoice[t.case] = invoice
      /\ invoice # None => /\ invoice \in InvoiceRows
                           /\ invoice.account_id \in Accounts \cup {None}
                           /\ invoice.order_id \in Orders \cup {None}
  BY <1>1, <1>2 DEF Legible
<1>4. invoice # None => invoice.merchant_id # None
  <2> HIDE DEF invoice
  <2> QED  BY <1>3, FixtureAssumption
<1>5. card.invoice_amount_cents = snap.amount_cents
  BY <1>3 DEF Facts, Snapshot
<1>6. /\ card.account_status = IF snap.account_status = None THEN "unknown"
                               ELSE snap.account_status
      /\ card.ownership_match = CASE snap.ownership_match = "match" -> "yes"
                                  [] snap.ownership_match = "mismatch" -> "no"
                                  [] OTHER -> "unknown"
      /\ snap.ownership_match \in {"match", "mismatch", "unknown"}
  <2>1. CASE invoice = None \/ invoice.account_id = None
    BY <1>3, <2>1 DEF Facts, Snapshot, LinkedAccount
  <2>2. CASE invoice # None /\ invoice.account_id # None
    <3>1. invoice.account_id \in Accounts
      BY <1>3, <2>2
    <3>2. /\ card.account_status = IF account = None \/ account.status = None THEN "unknown"
                                   ELSE account.status
          /\ card.ownership_match = IF account = None THEN "unknown"
                                    ELSE IF None \in {invoice.merchant_id, account.holder}
                                      THEN "unknown"
                                    ELSE IF invoice.merchant_id = account.holder
                                      THEN "yes" ELSE "no"
      BY <2>2 DEF Facts
    <3>3. /\ snap.account_status = IF trusted = None THEN None ELSE trusted.status
          /\ snap.ownership_match = IF trusted = None THEN "unknown"
                                    ELSE IF trusted.holder = invoice.merchant_id
                                           THEN "match" ELSE "mismatch"
      BY <1>3, <2>2 DEF Snapshot, LinkedAccount
    <3> HIDE DEF card, snap
    <3>4. CASE account = None
      <4>1. trusted = None
        <5> HIDE DEF invoice
        <5> QED  BY <1>2, <3>1, <3>4
      <4> HIDE DEF invoice, account, trusted
      <4> QED  BY <3>2, <3>3, <3>4, <4>1
    <3>5. CASE account # None
      <4>1. /\ trusted \in AccountRow /\ trusted \in AccountRows
            /\ account.holder = trusted.holder
            /\ account.status = IF trusted.status = None THEN "unknown" ELSE trusted.status
        <5> HIDE DEF invoice
        <5> QED  BY <1>1, <3>1, <3>5 DEF Legible
      <4> HIDE DEF invoice, account, trusted
      <4>2. trusted # None /\ trusted.holder # None
        BY <4>1, FixtureAssumption
      <4> QED  BY <1>4, <2>2, <3>2, <3>3, <3>5, <4>1, <4>2
    <3> QED  BY <3>4, <3>5
  <2> QED  BY <2>1, <2>2
<1>7. /\ card.payment_status = IF snap.payment_status = None THEN "unknown"
                               ELSE snap.payment_status
      /\ snap.payment_status \in PaymentStatus
  <2>1. /\ snap.payment_status = recs.read_payment[t.case]
        /\ card.payment_status = IF m.rows.read_payment[t.case] = None THEN "unknown"
                                 ELSE m.rows.read_payment[t.case]
    BY DEF Facts, Snapshot
  <2> HIDE DEF card, snap
  <2>2. CASE m.rows.read_payment[t.case] = None
    BY <1>1, <1>2, <2>1, <2>2 DEF PaymentStatus
  <2>3. CASE m.rows.read_payment[t.case] # None
    BY <1>1, <2>1, <2>3 DEF Legible
  <2> QED  BY <2>2, <2>3
<1>8. card.return_status = IF snap.return_status = None THEN "unknown" ELSE snap.return_status
  <2>1. CASE invoice = None \/ invoice.order_id = None
    BY <1>3, <2>1 DEF Facts, Snapshot
  <2>2. CASE invoice # None /\ invoice.order_id # None
    <3>1. invoice.order_id \in Orders
      BY <1>3, <2>2
    <3>2. /\ card.return_status = IF returned = None THEN "unknown" ELSE returned
          /\ snap.return_status = recs.read_return[invoice.order_id]
      BY <1>3, <2>2 DEF Facts, Snapshot
    <3> HIDE DEF card, snap, invoice
    <3> QED  BY <1>1, <1>2, <3>1, <3>2 DEF Legible
  <2> QED  BY <2>1, <2>2
<1> HIDE DEF card, snap
<1>9. ShowsAll(card, snap)
  BY <1>5, <1>6, <1>7, <1>8 DEF ShowsAll
<1> QED  BY <1>9 DEF card, snap

LEMMA GuideExpected ==
  ASSUME AgentInv
  PROVE  GuideIsReference
<1> SUFFICES ASSUME Acting, ~forgot, NEW t \in Requests
             PROVE  Guided(Card(t), t)
                      = ExpectedAction(Snapshot(Newest, t.case, t.operation), Booked)
  BY DEF GuideIsReference
<1> DEFINE card == Card(t)
           snap == Snapshot(Newest, t.case, t.operation)
           key == <<t.case, t.operation>>
<1>1. card = Facts(Overlaid, t)
  BY DEF Card, ContextCard, Overlaid
<1>2. forgot = FALSE
  BY DEF AgentInv, AgentTypes
<1>3. /\ KnownRows(Newest) /\ Tells(Overlaid, Newest, TRUE)
      /\ BookedTold(Overlaid.booked, booked, TRUE)
  BY <1>2, OverlaidTells
<1>4. card.operation_already_booked = "yes" <=> key \in Booked
  <2>1. key \in Keys
    BY RequestTyped
  <2>2. card.operation_already_booked = IF Overlaid.booked[key] > 0 THEN "yes" ELSE "no_record"
    BY <1>1, BookedFactIs
  <2>3. Overlaid.booked[key] = booked[key]
    BY <1>3, <2>1 DEF BookedTold
  <2> QED  BY <2>1, <2>2, <2>3 DEF Booked
<1>5. ShowsAll(card, snap)
  <2>1. ShowsAll(Facts(Overlaid, t), snap)
    BY <1>3, WholeFacts
  <2> HIDE DEF card, snap
  <2> QED  BY <1>1, <2>1
<1>6. snap.case = t.case /\ snap.operation = t.operation /\ t.operation \in Operations
  BY RequestTyped DEF Snapshot
<1>7. Guided(card, t) = GuideRules(card, t)
  BY GuidedIs
<1> HIDE DEF card, snap
<1>8. Missing(card, t) <=> MissingEvidence(snap)
  BY <1>5, <1>6 DEF ShowsAll, Missing, MissingEvidence
<1>9. GuideRules(card, t) = ExpectedAction(snap, Booked)
  BY <1>4, <1>5, <1>6, <1>8
     DEF ShowsAll, GuideRules, ExpectedAction, MissingEvidence, DecisionFor, PaymentStatus,
         Operations
<1> QED  BY <1>7, <1>9 DEF card, snap

-----------------------------------------------------------------------------
(* The theorems *)

\* Whatever is forgotten, in whatever order, and whatever the actor proposes,
\* each fact on its card is what the kernel's rows say, or an explicit unknown.
THEOREM AgentCardNeverContradicts == Spec => []CardNeverContradicts
BY AgentInit, AgentStep, CardAgrees, PTL DEF Spec

\* A fact the v3 card still shows was not superseded by the step in progress.
THEOREM AgentReadCardIsFresh == Spec => []ReadCardIsFresh
BY AgentInit, AgentStep, ReadCardAgrees, PTL DEF Spec

\* An actor that follows the guide on its card proposes money only where the
\* kernel books it, unless the booking it would repeat was forgotten.
THEOREM AgentGuideIsSafe == Spec => []GuideIsSafe
BY AgentInit, AgentStep, GuideAllowed, PTL DEF Spec

\* Until something is forgotten the public guide on the public card answers
\* exactly what the private reference expects.
THEOREM AgentGuideIsReference == Spec => []GuideIsReference
BY AgentInit, AgentStep, GuideExpected, PTL DEF Spec
=============================================================================
