---------------------------- MODULE ReviewQueue ----------------------------
(***************************************************************************)
(* The listings of the bridge: review_queue, which reads every board in    *)
(* turn while cards move (internal/mcptools/review_queue.go), and          *)
(* ticket_list, which reads one (read_tools.go).  Both sort what they      *)
(* found, cap it and drop rows from the tail until the result fits.        *)
(***************************************************************************)
EXTENDS Integers, Sequences, SequencesExt

CONSTANTS
  Cards,         \* records: board, id, priority, marked (as waiting for a review), bytes (of its row)
  Columns,       \* the statuses a card moves between
  MaxQueueItems, \* MaxReviewQueueItems
  ListLimit,     \* limit of ticket_list
  MaxRowBytes    \* MaxReviewQueueOutputBytes and MaxTicketListOutputBytes, without the envelope

ASSUME QueueAssumption ==
  /\ IsFiniteSet(Cards) /\ \A k, l \in Cards : k.board = l.board /\ k.id = l.id => k = l
  /\ \A k \in Cards : {k.board, k.id, k.bytes} \subseteq Nat /\ k.priority \in Int /\ k.marked \in BOOLEAN
  /\ {MaxQueueItems, ListLimit, MaxRowBytes} \subseteq Nat

VARIABLE column \* status of each card

\* isReviewRequired
Waiting == {k \in Cards : column[k] = "blocked" /\ k.marked}

ticketStatusOrder ==
  <<"running", "ready", "todo", "review", "blocked", "scheduled", "triage", "done", "archived">>
statusRank(s) == CHOOSE i \in DOMAIN ticketStatusOrder : ticketStatusOrder[i] = s

\* review_queue: by board, then the highest priority, then the id.
QueuedBefore(k, l) ==
  \/ k.board < l.board
  \/ k.board = l.board /\ k.priority > l.priority
  \/ k.board = l.board /\ k.priority = l.priority /\ k.id < l.id

\* ticket_list: by column, in the order the backend serves within one.
ListedBefore(k, l) ==
  \/ statusRank(column[k]) < statusRank(column[l])
  \/ column[k] = column[l] /\ k.id < l.id

\* The cards of a set in their order: the n-th has n - 1 before it.
Sorted(found, Before(_, _)) ==
  [n \in 1..Cardinality(found) |->
     CHOOSE k \in found : Cardinality({l \in found : Before(l, k)}) = n - 1]

Take(rows, n) == SubSeq(rows, 1, n)
TooLong(rows) == FoldSeq(LAMBDA k, sum : k.bytes + sum, 0, rows) > MaxRowBytes

\* renderReviewQueue: a quarter of the rows is dropped at a time; a single row that is
\* too long leaves none.
Trimmed(rows) ==
  LET Kept[n \in 0..Len(rows)] ==
        IF ~TooLong(Take(rows, n)) THEN n ELSE IF n <= 1 THEN 0 ELSE Kept[(n * 3) \div 4]
  IN Take(rows, Kept[Len(rows)])

\* TicketList: the last row is dropped, one at a time.
Shortened(rows) ==
  LET Kept[n \in 0..Len(rows)] == IF n = 0 \/ ~TooLong(Take(rows, n)) THEN n ELSE Kept[n - 1]
  IN Take(rows, Kept[Len(rows)])

Capped(rows, most) == IF Len(rows) > most THEN Take(rows, most) ELSE rows

NoListing == [left |-> {}, found |-> {}, steady |-> {}, rows |-> <<>>, truncated |-> FALSE]

\* A queue under way: boards still to be read, cards found, and (history) cards that wait
\* for a review on these boards since the call began.
Begun(boards) ==
  [NoListing EXCEPT !.left = boards, !.steady = {k \in Waiting : k.board \in boards}]

ReadBoard(q, b) ==
  [q EXCEPT !.left = @ \ {b}, !.found = @ \cup {k \in Waiting : k.board = b}]

Queued(q) ==
  LET all  == Sorted(q.found, QueuedBefore)
      rows == Trimmed(Capped(all, MaxQueueItems))
  IN [q EXCEPT !.rows = rows, !.truncated = Len(all) > MaxQueueItems \/ Len(rows) < Len(Capped(all, MaxQueueItems))]

\* One board, filtered by status (none for all); the limit is the caller's and not reported.
ListedRows(b, statuses) ==
  LET found == {k \in Cards : k.board = b /\ (statuses = {} \/ column[k] \in statuses)}
      asked == Capped(Sorted(found, ListedBefore), ListLimit)
      rows  == Shortened(asked)
  IN [NoListing EXCEPT !.found = found, !.rows = rows, !.truncated = Len(rows) < Len(asked)]

\* A card leaves the steady ones when it stops waiting.
Unsteady(q, k) == [q EXCEPT !.steady = @ \ {k}]
=============================================================================
