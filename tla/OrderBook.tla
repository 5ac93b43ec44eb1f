------------------------------- MODULE OrderBook -------------------------------
(***************************************************************************)
(* websockets/orderbook_manager.py: LocalOrderBook, fed by an exchange     *)
(* over a connection that loses, repeats and reorders updates.  The two    *)
(* sides of a book are alike and share nothing but the numbering: one side *)
(* is modelled, on which a higher price is better, and an update concerns  *)
(* one level.  Every operation holds the book's lock and is one step.      *)
(***************************************************************************)
EXTENDS Integers, FiniteSets, Sequences

CONSTANTS
  Prices,      \* prices of levels, in order
  Quantities,  \* quantities of levels; zero is no level
  MaxDepth,    \* max_depth
  MaxUpdates   \* bound on the updates of the exchange

ParametersOK ==
  /\ Prices \subseteq Nat /\ IsFiniteSet(Prices)
  /\ 0 \in Quantities /\ Quantities \subseteq Nat
  /\ MaxDepth \in Nat \ {0} /\ MaxUpdates \in Nat

VARIABLES
  updates,      \* exchange: its updates, numbered from 1
  books,        \* exchange: its book before any update and after each
  book,         \* _bids
  lastUpdate,   \* _last_update_id
  initialized,  \* is _first_update_id set?
  bookState,    \* _state
  gapless,      \* auxiliary: every update since the snapshot was applied
  depth         \* auxiliary: "full", "trimmed" once a level was trimmed, or
                \* "thinned" when one was removed after that

exchangeVars == <<updates, books>>
localVars == <<book, lastUpdate, initialized, bookState, gapless, depth>>
vars == <<exchangeVars, localVars>>

Book == [Prices -> Quantities]
Empty == [p \in Prices |-> 0]
Levels(b) == {p \in Prices : b[p] > 0}

Init ==
  /\ updates = <<>> /\ books = <<Empty>>
  /\ book = Empty /\ lastUpdate = 0 /\ initialized = FALSE
  /\ bookState = "disconnected"
  /\ gapless = FALSE /\ depth = "full"

-----------------------------------------------------------------------------
\* The exchange (external).
Trade(p, q) ==
  /\ Len(updates) < MaxUpdates
  /\ updates' = Append(updates, [price |-> p, quantity |-> q])
  /\ books' = Append(books, [books[Len(books)] EXCEPT ![p] = q])
  /\ UNCHANGED localVars

\* set_snapshot with a snapshot taken after the n-th update, or long before.
SetSnapshot(n) ==
  /\ n \in 0 .. Len(updates)
  /\ book' = books[n + 1]
  /\ lastUpdate' = n /\ initialized' = TRUE
  /\ bookState' = "ready"
  /\ gapless' = TRUE /\ depth' = "full"
  /\ UNCHANGED exchangeVars

\* _trim_depth: the worst levels are popped.
TrimDepth(b) ==
  [p \in Prices |->
     IF Cardinality({q \in Levels(b) : q > p}) < MaxDepth THEN b[p] ELSE 0]

\* Mutant: updates that were applied already are applied again.
NeverDuplicate(n) == FALSE

Duplicate(n) == initialized /\ n <= lastUpdate

\* apply_delta with the n-th update.  A gap sets the state to STALE and the end
\* of the same holding of the lock sets it to READY.
ApplyDelta(n) ==
  /\ n \in 1 .. Len(updates)
  /\ ~Duplicate(n)
  /\ LET changed == [book EXCEPT ![updates[n].price] = updates[n].quantity]
     IN  /\ book' = TrimDepth(changed)
         /\ depth' = IF depth # "full" /\ Levels(book) \ Levels(changed) # {}
                       THEN "thinned"
                     ELSE IF depth = "full" /\ TrimDepth(changed) # changed
                       THEN "trimmed" ELSE depth
  /\ lastUpdate' = n
  /\ bookState' = "ready"
  /\ gapless' = (gapless /\ n <= lastUpdate + 1)
  /\ UNCHANGED <<exchangeVars, initialized>>

Next ==
  \/ \E p \in Prices, q \in Quantities : Trade(p, q)
  \/ \E n \in 0 .. MaxUpdates : SetSnapshot(n) \/ ApplyDelta(n)

Spec == Init /\ [][Next]_vars

-----------------------------------------------------------------------------
\* The type of each variable.
TypeOK ==
  /\ updates \in Seq([price : Prices, quantity : Quantities])
  /\ books \in Seq(Book) /\ Len(books) = Len(updates) + 1
  /\ book \in Book
  /\ lastUpdate \in 0 .. Len(updates)
  /\ initialized \in BOOLEAN /\ gapless \in BOOLEAN
  /\ depth \in {"full", "trimmed", "thinned"}
  /\ bookState \in {"disconnected", "ready"}

\* "Snapshot + delta update reconciliation": while no update has been missed
\* since the snapshot, whatever was repeated or came late, every level of the
\* book is the exchange's as of the last update, and none is missing unless
\* levels were trimmed.  Trimming costs depth and never the best price, until a
\* level is removed that a trimmed one should have replaced.
BookIsTheExchanges ==
  LET there == books[lastUpdate + 1] IN
  gapless =>
    /\ \A p \in Levels(book) : book[p] = there[p]
    /\ depth = "full" => book = there
    /\ depth # "thinned" =>
         \A p \in Levels(there) : \E q \in Levels(book) : q >= p

=============================================================================
