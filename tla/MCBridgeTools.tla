--------------------------- MODULE MCBridgeTools ---------------------------
(***************************************************************************)
(* Two callers in six workloads: reading tickets of many shapes, reading   *)
(* while boards come and go, the listings while cards move, creating and   *)
(* commenting with lost answers, and reading a thread that grows.          *)
(***************************************************************************)
EXTENDS BridgeTools

CONSTANTS c1, c2

MCCallers == {c1, c2}
MCBoards == {1, 2}
MCArchivable == {1}

\* A rune of wide text costs six bytes in JSON.
MCTexts == [runes : 0..40, bytes : {1, 6}]
Plain(n) == [runes |-> n, bytes |-> 1]
Wide(n)  == [runes |-> n, bytes |-> 6]

\* An empty text costs nothing; a clipped one has a marker.
Cost(x) == x.runes * x.of.bytes + IF x.runes > 0 /\ Clipped(x) THEN 2 ELSE 0
MCResultBytes(out) ==
  out.rest + out.summary.runes * out.summary.of.bytes + Cost(out.body) + FoldSeq(LAMBDA x, sum : 3 + Cost(x) + sum, 0, out.comments)
    + (IF out.dropped > 0 THEN 2 ELSE 0) + (IF out.truncated.comments THEN 1 ELSE 0)

Partial == [budget |-> 30, window |-> 3, bodyCap |-> 8, commentCap |-> 5]
Full    == [budget |-> 60, window |-> 4, bodyCap |-> 0, commentCap |-> 0]
MCModes == {Partial, Full}

Bodies == {Plain(0), Plain(7), Plain(40), Wide(12)}
Words  == {Plain(3), Plain(30), Wide(2), Wide(9)}
Threads == {<<>>} \cup {<<w>> : w \in Words} \cup {<<Plain(30), w>> : w \in Words}
           \cup {<<Plain(1), Wide(5), Plain(9), Plain(2), w>> : w \in Words}
Summaries == {Plain(0), Plain(20), Wide(9)}
Shapes == [board : {1}, body : Bodies, thread : Threads, summary : Summaries, rest : {5}]
Note == [board |-> 1, body |-> Plain(3), thread |-> <<Plain(2)>>, summary |-> Plain(0), rest |-> 5]
MCTickets == Shapes \cup {Note}
MCRemarks == {Plain(4), Wide(3)}

Request(head, tail, key) == [board |-> 1, title |-> "title", head |-> head, tail |-> tail, key |-> key]
MCRequests == {Request("a", "x", ""), Request("a", "y", ""), Request("a", "x", "k")}

Card(b, n, p, m, bytes) == [board |-> b, id |-> n, priority |-> p, marked |-> m, bytes |-> bytes]
MCCards == {Card(1, 1, 0, TRUE, 3), Card(1, 2, 5, TRUE, 4), Card(1, 3, 0, FALSE, 2),
            Card(2, 1, 0, TRUE, 4), Card(2, 2, 0, TRUE, 16)}
MCColumns == {"ready", "blocked"}
MCFilters == {{}, {"blocked"}}

Quiet == {[k \in MCCards |-> "blocked"]}
AnyColumns == [MCCards -> MCColumns]

Load(one, two, tickets, columns, world) ==
  [tools |-> (c1 :> one @@ c2 :> two), tickets |-> tickets, columns |-> columns, world |-> world]
MCWorkloads == {
  Load({"ticket_get"}, {}, Shapes, Quiet, {}),
  Load({"ticket_list"}, {"ticket_list"}, {Note}, Quiet, {"boards", "time"}),
  Load({"review_queue"}, {}, {Note}, Quiet, {"cards"}),
  Load({"ticket_list", "review_queue"}, {}, {Note}, AnyColumns, {"boards"}),
  Load({"ticket_create"}, {"ticket_create"}, {Note}, Quiet, {}),
  Load({"ticket_comment"}, {"ticket_get"}, {Note}, Quiet, {}) }
=============================================================================
