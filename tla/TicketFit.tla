----------------------------- MODULE TicketFit -----------------------------
(***************************************************************************)
(* How ticket_get fits a ticket into the byte budget of its mode           *)
(* (internal/mcptools/read_tools.go): the window of the thread, dropping   *)
(* the oldest comments, then shrinking the newest one and the body.  A     *)
(* text is a record with its length in runes; what a result costs in bytes *)
(* (json.Marshal, escapes included) is a parameter.                        *)
(***************************************************************************)
EXTENDS Integers, Sequences

CONSTANTS
  Texts,          \* texts: records with their length, runes
  ResultBytes(_), \* resultBytes: of what is rendered, its bytes
  MaxRunSummaryChars, \* the cap of a summary
  MinFieldRunes,  \* the floor of a clipped text
  MarkerHeadroom  \* bytes reserved for the marker a clip adds

ASSUME FitAssumption ==
  /\ \A t \in Texts : t.runes \in Nat
  /\ {MaxRunSummaryChars, MinFieldRunes, MarkerHeadroom} \subseteq Nat \ {0}

\* truncateWithMarker: the cap includes the marker, and 0 is no cap.
Shown(t, cap) == IF cap > 0 /\ t.runes > cap THEN cap ELSE t.runes
Text(t, cap) == [of |-> t, runes |-> Shown(t, cap)]
Clipped(x) == x.runes < x.of.runes

\* Mutant of Fitting: what the window leaves out is not counted.
FittingUncounted(ticket, mode) ==
  LET total == Len(ticket.thread)
      cut == IF mode.window > 0 /\ total > mode.window THEN total - mode.window ELSE 0
  IN [ticket |-> ticket, mode |-> mode, from |-> cut + 1, to |-> total,
      bodyCap |-> mode.bodyCap, newestCap |-> mode.commentCap,
      bodyClipped |-> Clipped(Text(ticket.body, mode.bodyCap)), dropped |-> 0, clipped |-> FALSE]

\* A fit: the comments from..to of the thread are live; clipped is sticky, and the flag of
\* the body is written when its text is.
Fitting(ticket, mode) ==
  LET total == Len(ticket.thread)
      cut == IF mode.window > 0 /\ total > mode.window THEN total - mode.window ELSE 0
  IN [ticket |-> ticket, mode |-> mode, from |-> cut + 1, to |-> total,
      bodyCap |-> mode.bodyCap, newestCap |-> mode.commentCap,
      bodyClipped |-> Clipped(Text(ticket.body, mode.bodyCap)), dropped |-> cut, clipped |-> FALSE]

Newest(f) == f.ticket.thread[f.to]
CommentAt(f, i) == Text(f.ticket.thread[i], IF i = f.to THEN f.newestCap ELSE f.mode.commentCap)

\* render: the flags are set before anything is measured.
Rendered(f) == [f EXCEPT !.clipped = @ \/ \E i \in f.from..f.to : Clipped(CommentAt(f, i))]

\* The summary stands for the three texts that truncateToRunes cuts without a flag.
Out(f) ==
  [rest |-> f.ticket.rest, summary |-> Text(f.ticket.summary, MaxRunSummaryChars),
   body |-> Text(f.ticket.body, f.bodyCap),
   comments |-> [i \in 1..(f.to - f.from + 1) |-> CommentAt(f, f.from + i - 1)],
   total |-> Len(f.ticket.thread), returned |-> f.to - f.from + 1, dropped |-> f.dropped,
   truncated |-> [body |-> f.bodyClipped, comments |-> f.clipped \/ f.dropped > 0]]

Bytes(f) == ResultBytes(Out(f))
Fits(f) == Bytes(f) <= f.mode.budget

WithoutOldest(f) == [f EXCEPT !.from = @ + 1, !.dropped = @ + 1]

----------------------------------------------------------------------------
(* shrinkToFit *)

\* What a field costs: the result is measured again without it.
BodyShare(f) == Bytes(f) - ResultBytes([Out(f) EXCEPT !.body.runes = 0])
NewestShare(f) ==
  IF f.from > f.to THEN 0
  ELSE Bytes(f) - ResultBytes([Out(f) EXCEPT !.comments = SubSeq(@, 1, Len(@) - 1)])

Least(m, n) == IF m < n THEN m ELSE n

\* The cut of each: the larger gives way down to parity, then both in proportion.
Cuts(need, body, newest) ==
  LET bodyFirst   == IF body > newest THEN Least(body - newest, need) ELSE 0
      newestFirst == IF newest > body THEN Least(newest - body, need) ELSE 0
      rest   == need - bodyFirst - newestFirst
      shared == (rest * newest) \div (newest + body)
  IN IF newest = 0 THEN [body |-> need, newest |-> 0]
     ELSE IF body = 0 THEN [body |-> 0, newest |-> need]
     ELSE [body |-> bodyFirst + rest - shared, newest |-> newestFirst + shared]

\* Mutant of ReducedCap: a field asked for all it has gives nothing.
ReducedCapShy(runes, bytes, cut) ==
  LET scaled == (runes * (bytes - cut)) \div bytes
      next == IF scaled < MinFieldRunes THEN MinFieldRunes ELSE scaled
  IN IF bytes <= 0 \/ cut <= 0 \/ runes <= 0 \/ bytes - cut < 1 \/ next >= runes THEN 0 ELSE next

\* Mutant of ReducedCap: a field at the floor is given the floor again.
ReducedCapAgain(runes, bytes, cut) ==
  LET scaled == (runes * (IF bytes - cut < 1 THEN 1 ELSE bytes - cut)) \div bytes
      next == IF scaled < MinFieldRunes THEN MinFieldRunes ELSE scaled
  IN IF bytes <= 0 \/ cut <= 0 \/ runes <= 0 THEN 0 ELSE next

\* reducedCap: the cap a cut in bytes comes to, or 0 where nothing is left to give.
ReducedCap(runes, bytes, cut) ==
  LET scaled == (runes * (IF bytes - cut < 1 THEN 1 ELSE bytes - cut)) \div bytes
      less == IF scaled >= runes THEN runes - 1 ELSE scaled
      next == IF less < MinFieldRunes THEN MinFieldRunes ELSE less
  IN IF bytes <= 0 \/ cut <= 0 \/ runes <= 0 \/ next >= runes THEN 0 ELSE next

Measured(f) == [size |-> Bytes(f), body |-> BodyShare(f), newest |-> NewestShare(f)]

\* The caps both get; 0 for a field that costs nothing or has nothing left to give.
Caps(f, m) ==
  LET cut == Cuts(m.size - f.mode.budget + MarkerHeadroom, m.body, m.newest) IN
  [body   |-> IF m.body > 0 THEN ReducedCap(Shown(f.ticket.body, f.bodyCap), m.body, cut.body) ELSE 0,
   newest |-> IF m.newest > 0 THEN ReducedCap(Shown(Newest(f), f.newestCap), m.newest, cut.newest) ELSE 0]

Stuck(caps) == caps.body = 0 /\ caps.newest = 0
Shrunk(f, caps) ==
  LET cap == IF caps.body > 0 THEN caps.body ELSE f.bodyCap IN
  [f EXCEPT !.bodyCap = cap, !.bodyClipped = Clipped(Text(f.ticket.body, cap)),
            !.newestCap = IF caps.newest > 0 THEN caps.newest ELSE @]

----------------------------------------------------------------------------
(* What a fit promises, whatever a result costs. *)

\* The newest comment is there, and no text is tightened past the caps of the mode while
\* an older comment is kept.
KeepsNewest(f) ==
  f.ticket.thread # <<>> =>
    /\ f.from <= f.to /\ f.to = Len(f.ticket.thread)
    /\ f.from < f.to => f.bodyCap = f.mode.bodyCap /\ f.newestCap = f.mode.commentCap

\* Comments returned and comments dropped make up the thread, their flag is up exactly when
\* one was dropped or clipped, and the body's exactly when the body was clipped.  It says
\* nothing of the summaries: they are clipped without a flag.
CountsLosses(f) ==
  LET out == Out(f) IN
  /\ out.total = out.returned + out.dropped
  /\ out.truncated.comments <=>
       out.returned < out.total \/ \E i \in 1..out.returned : Clipped(out.comments[i])
  /\ out.truncated.body <=> Clipped(out.body)

\* A refused ticket does not fit, at most one comment is left, and the field that costs
\* more (the body when they cost the same) is down to the floor.
IsOversized(f) ==
  /\ ~Fits(f) /\ f.from >= f.to
  /\ BodyShare(f) >= NewestShare(f) /\ BodyShare(f) > 0 => Shown(f.ticket.body, f.bodyCap) <= MinFieldRunes
  /\ NewestShare(f) > BodyShare(f) /\ NewestShare(f) > 0 => Shown(Newest(f), f.newestCap) <= MinFieldRunes
=============================================================================
