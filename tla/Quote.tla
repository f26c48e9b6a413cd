--------------------------------- MODULE Quote ---------------------------------
(***************************************************************************)
(* Quotes of the catalog-pricing service: CreateQuoteUseCase prices items  *)
(* from the tenant's active price book inside a withOutbox transaction,    *)
(* VerifyQuoteUseCase reads a stored quote and then judges it, MongoDB's   *)
(* TTL monitor deletes expired quotes some time after they expire, and     *)
(* price books are published and retired from outside the service.         *)
(*                                                                         *)
(* A transaction reads its snapshot at its first operation, so the book it *)
(* prices from may be retired before it commits.  A quote's id is the      *)
(* request that creates it: an aborted attempt leaves no document.  The    *)
(* service's instances and MongoDB agree on the clock.  The orderId and    *)
(* createdAt of a quote are left out: nothing reads them back.             *)
(*                                                                         *)
(* A definition named Faulty_... is a bug the properties must notice: it   *)
(* takes no part in the specification.                                     *)
(***************************************************************************)
EXTENDS Pricing, FiniteSets

CONSTANTS
  Tenants,
  Books,       \* price book documents, by id
  BookOf,      \* what each of them holds
  Carts,       \* the items a request may ask a price for
  Requests,    \* calls of CreateQuoteUseCase.execute
  Verifiers,   \* callers of VerifyQuoteUseCase.execute, one call at a time each
  QuoteTTL,    \* QUOTE_TTL_MS
  MaxTime,     \* bound: the last instant
  NoQuote      \* null

Statuses == {"DRAFT", "ACTIVE", "RETIRED"}

ASSUME ParametersAssumption ==
  /\ \A b \in Books : BookOf[b].tenantId \in Tenants /\ BookOf[b].status \in Statuses
  /\ \A b \in Books : IsPriceBook(BookOf[b])
  /\ \A items \in Carts : IsCart(items)
  /\ NoQuote \notin Books
  /\ QuoteTTL \in Nat \ {0}
  /\ MaxTime \in Nat

VARIABLES
  now,          \* the clock
  bookStatus,   \* of a price book
  quotes,       \* the collection: a document, or NoQuote, per request
  pc,           \* where a create stands
  cmd,          \* its command
  book,         \* the price book it read
  draft,        \* the quote it holds in memory
  returned,     \* the quote it returned to its caller, or NoQuote
  ask,          \* a verifier's command, while it holds a document
  found,        \* the document it read and has not judged yet, or NoQuote
  answer,       \* the latest result of any of them, and the command it answers
  refused       \* quotes once answered EXPIRED or NOT_FOUND to their tenant

createVars == <<pc, cmd, book, draft, returned>>
verifyVars == <<ask, found, answer, refused>>
vars == <<now, bookStatus, quotes, createVars, verifyVars>>

Commands == [tenantId : Tenants, items : Carts]

NoAsk == [tenantId |-> NoQuote, quoteId |-> NoQuote, expectedIntegrityHash |-> NoQuote]

-----------------------------------------------------------------------------

Init ==
  /\ now = 0
  /\ bookStatus = [b \in Books |-> BookOf[b].status]
  /\ quotes = [r \in Requests |-> NoQuote]
  /\ pc = [r \in Requests |-> "idle"]
  /\ cmd \in [Requests -> Commands]
  /\ book = [r \in Requests |-> NoQuote]
  /\ draft = [r \in Requests |-> NoQuote]
  /\ returned = [r \in Requests |-> NoQuote]
  /\ ask = [v \in Verifiers |-> NoAsk]
  /\ found = [v \in Verifiers |-> NoQuote]
  /\ answer = [ask |-> NoAsk, outcome |-> "NONE", total |-> 0]
  /\ refused = {}

-----------------------------------------------------------------------------
(* CreateQuoteUseCase.execute.                                               *)

Goto(r, to) == pc' = [pc EXCEPT ![r] = to]

(* The book is read, and with it the transaction's snapshot. *)
ReadBook(r) ==
  /\ pc[r] = "idle"
  /\ \E b \in Books :
       /\ BookOf[b].tenantId = cmd[r].tenantId
       /\ bookStatus[b] = "ACTIVE"
       /\ book' = [book EXCEPT ![r] = b]
  /\ Goto(r, "price")
  /\ UNCHANGED <<now, bookStatus, quotes, cmd, draft, returned, verifyVars>>

NoActivePriceBook(r) ==
  /\ pc[r] = "idle"
  /\ \A b \in Books : BookOf[b].tenantId = cmd[r].tenantId => bookStatus[b] # "ACTIVE"
  /\ Goto(r, "thrown")
  /\ UNCHANGED <<now, bookStatus, quotes, cmd, book, draft, returned, verifyVars>>

(* Quote.create, and what toQuoteDocument stores of it. *)
NewQuote(r) ==
  LET priced == PriceOrder(BookOf[book[r]], cmd[r].items)
  IN [tenantId         |-> cmd[r].tenantId,
      priceBookId      |-> book[r],
      priceBookVersion |-> BookOf[book[r]].version,
      lines            |-> priced.lines,
      subtotal         |-> priced.subtotal,
      tax              |-> priced.tax,
      total            |-> priced.total,
      integrityHash    |-> priced.integrityHash,
      expiresAt        |-> now + QuoteTTL]

Price(r) ==
  /\ pc[r] = "price"
  /\ Priceable(BookOf[book[r]], cmd[r].items)
  /\ draft' = [draft EXCEPT ![r] = NewQuote(r)]
  /\ Goto(r, "insert")
  /\ UNCHANGED <<now, bookStatus, quotes, cmd, book, returned, verifyVars>>

NotPriceable(r) ==
  /\ pc[r] = "price"
  /\ ~Priceable(BookOf[book[r]], cmd[r].items)
  /\ Goto(r, "thrown")
  /\ UNCHANGED <<now, bookStatus, quotes, cmd, book, draft, returned, verifyVars>>

(* insertOne, and the commit that makes it visible. *)
Insert(r) ==
  /\ pc[r] = "insert"
  /\ quotes' = [quotes EXCEPT ![r] = draft[r]]
  /\ Goto(r, "committed")
  /\ UNCHANGED <<now, bookStatus, cmd, book, draft, returned, verifyVars>>

ReturnQuote(r) ==
  /\ pc[r] = "committed"
  /\ returned' = [returned EXCEPT ![r] = draft[r]]
  /\ Goto(r, "returned")
  /\ UNCHANGED <<now, bookStatus, quotes, cmd, book, draft, verifyVars>>

Faulty_Open(r) == pc[r] \in {"price", "insert", "committed"}   \* run again when committed

(* The transaction is open. *)
Open(r) == pc[r] \in {"price", "insert"}

(* A TransientTransactionError: withTransaction runs the callback again. *)
Rerun(r) ==
  /\ Open(r)
  /\ book' = [book EXCEPT ![r] = NoQuote]
  /\ draft' = [draft EXCEPT ![r] = NoQuote]
  /\ Goto(r, "idle")
  /\ UNCHANGED <<now, bookStatus, quotes, cmd, returned, verifyVars>>

(* Any other error: the transaction is aborted. *)
Throw(r) ==
  /\ Open(r)
  /\ book' = [book EXCEPT ![r] = NoQuote]
  /\ draft' = [draft EXCEPT ![r] = NoQuote]
  /\ Goto(r, "thrown")
  /\ UNCHANGED <<now, bookStatus, quotes, cmd, returned, verifyVars>>

(* The commit took effect, but its answer was lost for good: the quote is
   stored and nobody knows of it. *)
LoseAnswer(r) ==
  /\ pc[r] = "committed"
  /\ Goto(r, "thrown")
  /\ UNCHANGED <<now, bookStatus, quotes, cmd, book, draft, returned, verifyVars>>

Create(r) ==
  \/ ReadBook(r) \/ NoActivePriceBook(r) \/ Price(r) \/ NotPriceable(r)
  \/ Insert(r) \/ ReturnQuote(r) \/ Rerun(r) \/ Throw(r) \/ LoseAnswer(r)

-----------------------------------------------------------------------------
(* VerifyQuoteUseCase.execute.                                               *)

Faulty_IsExpired(quote) == now > quote.expiresAt   \* not at expiresAt itself

IsExpired(quote) == now >= quote.expiresAt

Faulty_MatchesHash(quote, hash) ==   \* any hash that was issued
  \E r \in Requests : quotes[r] # NoQuote /\ quotes[r].integrityHash = hash

MatchesHash(quote, hash) == quote.integrityHash = hash

(* A caller asks about a quote it was given, for any tenant, with the hash of
   that quote or of another, which stands for any hash that is wrong. *)
Returned == {r \in Requests : returned[r] # NoQuote}

Questions ==
  [tenantId : Tenants,
   quoteId : Returned,
   expectedIntegrityHash : {returned[r].integrityHash : r \in Returned}]

(* findOne({ _id, tenantId }). *)
Finds(q) ==
  /\ quotes[q.quoteId] # NoQuote
  /\ quotes[q.quoteId].tenantId = q.tenantId

(* The result of a verify; refused is history. *)
Answer(q, outcome, total) ==
  /\ answer' = [ask |-> q, outcome |-> outcome, total |-> total]
  /\ refused' = IF outcome \in {"NOT_FOUND", "EXPIRED"} /\ q.tenantId = cmd[q.quoteId].tenantId
                  THEN refused \cup {q.quoteId}
                  ELSE refused

FindQuote(v) ==
  /\ found[v] = NoQuote
  /\ \E q \in Questions :
       /\ Finds(q)
       /\ ask' = [ask EXCEPT ![v] = q]
       /\ found' = [found EXCEPT ![v] = quotes[q.quoteId]]
  /\ UNCHANGED <<now, bookStatus, quotes, createVars, answer, refused>>

NotFound(v) ==
  /\ found[v] = NoQuote
  /\ \E q \in Questions : ~Finds(q) /\ Answer(q, "NOT_FOUND", 0)
  /\ UNCHANGED <<now, bookStatus, quotes, createVars, ask, found>>

(* The document is judged by the clock of this instant: nothing is read again. *)
Judge(v, outcome, total) ==
  /\ Answer(ask[v], outcome, total)
  /\ ask' = [ask EXCEPT ![v] = NoAsk]
  /\ found' = [found EXCEPT ![v] = NoQuote]
  /\ UNCHANGED <<now, bookStatus, quotes, createVars>>

Expired(v) ==
  /\ found[v] # NoQuote
  /\ IsExpired(found[v])
  /\ Judge(v, "EXPIRED", 0)

Mismatch(v) ==
  /\ found[v] # NoQuote
  /\ ~IsExpired(found[v])
  /\ ~MatchesHash(found[v], ask[v].expectedIntegrityHash)
  /\ Judge(v, "MISMATCH", 0)

Ok(v) ==
  /\ found[v] # NoQuote
  /\ ~IsExpired(found[v])
  /\ MatchesHash(found[v], ask[v].expectedIntegrityHash)
  /\ Judge(v, "OK", found[v].total)

Verify(v) == FindQuote(v) \/ NotFound(v) \/ Expired(v) \/ Mismatch(v) \/ Ok(v)

-----------------------------------------------------------------------------
(* The surroundings.                                                         *)

(* An operator seeds a version, and retires the one it replaces before or
   after: for a while a tenant has two active books, or none. *)
Publish(b) ==
  /\ bookStatus[b] = "DRAFT"
  /\ bookStatus' = [bookStatus EXCEPT ![b] = "ACTIVE"]
  /\ UNCHANGED <<now, quotes, createVars, verifyVars>>

Retire(b) ==
  /\ bookStatus[b] = "ACTIVE"
  /\ bookStatus' = [bookStatus EXCEPT ![b] = "RETIRED"]
  /\ UNCHANGED <<now, quotes, createVars, verifyVars>>

Faulty_Gone(quote) == quote.expiresAt <= now + 1   \* a shorter TTL

(* Past what the TTL index, on expiresAt, keeps. *)
Gone(quote) == quote.expiresAt <= now

(* It is deleted at some later sweep of the TTL monitor. *)
Sweep(r) ==
  /\ quotes[r] # NoQuote
  /\ Gone(quotes[r])
  /\ quotes' = [quotes EXCEPT ![r] = NoQuote]
  /\ UNCHANGED <<now, bookStatus, createVars, verifyVars>>

Tick ==
  /\ now < MaxTime
  /\ now' = now + 1
  /\ UNCHANGED <<bookStatus, quotes, createVars, verifyVars>>

Next ==
  \/ \E r \in Requests : Create(r) \/ Sweep(r)
  \/ \E v \in Verifiers : Verify(v)
  \/ \E b \in Books : Publish(b) \/ Retire(b)
  \/ Tick

Spec == Init /\ [][Next]_vars

-----------------------------------------------------------------------------
(* Properties.                                                               *)

(* Every variable stays in its domain; a create holds the book it read, and what
   is stored and returned is the quote it priced in that run of the callback. *)
TypeOK ==
  /\ now \in 0 .. MaxTime
  /\ bookStatus \in [Books -> Statuses]
  /\ pc \in [Requests -> {"idle", "price", "insert", "committed", "returned", "thrown"}]
  /\ cmd \in [Requests -> Commands]
  /\ book \in [Requests -> Books \cup {NoQuote}]
  /\ \A f \in {quotes, draft, returned} : DOMAIN f = Requests
  /\ \A f \in {ask, found} : DOMAIN f = Verifiers
  /\ \A r \in Requests :
       /\ pc[r] \in {"price", "insert", "committed", "returned"} => book[r] # NoQuote
       /\ quotes[r] \in {NoQuote, draft[r]}
       /\ returned[r] \in {NoQuote, draft[r]}
  /\ refused \subseteq Requests

(* What VerifyQuoteUseCase lets a checkout charge is what CreateQuoteUseCase
   showed: OK is answered to the quote's tenant alone, for the hash the quote
   was returned with, with the total it was returned with, whatever was
   published, retired or swept in between. *)
AsQuoted ==
  answer.outcome = "OK" =>
    LET q == answer.ask
        quote == returned[q.quoteId]
    IN /\ q.quoteId \in Returned
       /\ q.tenantId = cmd[q.quoteId].tenantId
       /\ q.expectedIntegrityHash = quote.integrityHash
       /\ answer.total = quote.total

(* Two quotes with one integrity hash are the same offer: lines, total and the
   version of the price book they come from, so that the hash a caller keeps
   stands for the quote it saw. *)
SameHashSameOffer ==
  \A r, s \in Returned : returned[r].integrityHash = returned[s].integrityHash =>
    /\ returned[r].lines = returned[s].lines
    /\ returned[r].total = returned[s].total
    /\ returned[r].priceBookVersion = returned[s].priceBookVersion

(* The price without rounding, in parts of Whole: the items at the book's
   prices, less the discount of the highest tier their units reach, plus tax
   on the items before discount.  That the discount leaves the tax alone is the
   code's rule and its test's; the worked example of docs/DATA-MODEL.md takes tax
   off for the discount too, and so its total is another (see MCQuote). *)
ExactTotals(b, items) ==
  LET units == SumOf("quantity", items)
      gross == SumOf("lineTotal", [i \in DOMAIN items |->
                 [lineTotal |-> items[i].quantity * b.prices[items[i].skuCode].amount]])
      reached == {i \in DOMAIN b.orderVolumeTiers : b.orderVolumeTiers[i].minUnits <= units}
      discounts == {b.orderVolumeTiers[i].discountBps : i \in
                      {j \in reached : \A k \in reached :
                         b.orderVolumeTiers[k].minUnits <= b.orderVolumeTiers[j].minUnits}}
  IN {gross * (Whole - bps + b.taxRate) : bps \in IF reached = {} THEN {0} ELSE discounts}

(* An amount is what is nearest to its exact value, in parts of Whole, and the
   even one of two that are as near. *)
IsNearest(amount, exact) ==
  LET error == Whole * amount - exact
  IN /\ 2 * error <= Whole /\ -2 * error <= Whole
     /\ 2 * error \in {Whole, -Whole} => amount % 2 = 0

(* priceOrder rounds once per line and never more: the tax of each item of a
   stored quote is the nearest to the exact one, ties to even, and the total is
   within half a minor unit per line of the exact price of what was asked for,
   in whatever order the book lists its tiers. *)
PricedToTheHalfUnit ==
  \A r \in Requests : quotes[r] # NoQuote =>
    LET b == BookOf[quotes[r].priceBookId]
        items == cmd[r].items
        lines == quotes[r].lines
    IN /\ \A i \in DOMAIN items :
            IsNearest(lines[i].taxAmount,
                      b.prices[items[i].skuCode].amount * items[i].quantity * b.taxRate)
       /\ \E exact \in ExactTotals(b, items) :
            LET error == Whole * quotes[r].total - exact
                allowed == Whole * Len(lines)
            IN 2 * error <= allowed /\ -2 * error <= allowed

(* A verify has answered the quote's own tenant, asked with its own hash. *)
AnswersTheOwner ==
  LET q == answer'.ask
  IN /\ answer' # answer
     /\ q.tenantId = cmd[q.quoteId].tenantId
     /\ q.expectedIntegrityHash = returned[q.quoteId].integrityHash

(* A quote is honoured for the whole of its life: until the expiresAt its
   caller was given, a verify by its tenant with its hash answers OK, whatever
   books come and go and whenever the TTL monitor runs. *)
HonouredUntilExpiry ==
  [][AnswersTheOwner /\ answer'.outcome # "OK"
       => now >= returned[answer'.ask.quoteId].expiresAt]_vars

(* Once a quote has been refused to its tenant as EXPIRED or NOT_FOUND it is
   never OK again, not even to a verify that had read the document before the
   TTL monitor deleted it: the sweep and isExpired agree on the instant. *)
NoRevival ==
  [][AnswersTheOwner /\ answer'.outcome = "OK"
       => answer'.ask.quoteId \notin refused]_vars

=============================================================================
