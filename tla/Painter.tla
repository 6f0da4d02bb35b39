------------------------------- MODULE Painter -------------------------------
(***************************************************************************)
(* The log of an upgrade: a tool draws on a terminal, what it writes       *)
(* arrives in pieces, and the painter (tasks/painted.rs) turns the pieces  *)
(* into lines for the ring of the panel (panel.rs), without a terminal.    *)
(* A line is kept raw and read again, whole, with every piece.             *)
(*                                                                         *)
(* Here a tool writes items, and the screen that a terminal would show is  *)
(* kept beside the log.  As in the code, there are no columns: what is     *)
(* written at the head of a row replaces the row.  The tools move and      *)
(* erase at the head of a row only, and write there before they leave it,  *)
(* as the tools of tests/repaint_test do.  A piece that ends inside an     *)
(* escape sequence waits for its rest (is_complete): here sequences are    *)
(* not cut.                                                                *)
(***************************************************************************)
EXTENDS Integers, Sequences, SequencesExt

CONSTANTS
  Letters,     \* printed text
  MaxItems,    \* bound of what the tool writes
  Cap,         \* the capacity of the ring (upgrade_history_lines)
  CutAnywhere  \* whether a piece may end in a line that has moved up and has text

ASSUME PainterAssumption == MaxItems \in Nat /\ Cap \in Nat \ {0} /\ CutAnywhere \in BOOLEAN

VARIABLES
  tool,     \* what the tool may write next, and how much it has written
  screen,   \* what a terminal shows: the rows, the cursor, the pinned row
  arriving, \* written, and not yet read
  painter,  \* Painter
  ring,     \* RingLines, the log of the panel
  lines     \* history: every line that the ring ever held

paintVars == <<tool, screen, arriving, painter, ring, lines>>

NoBar == <<"none">>
Items == Letters \cup {"CR", "NL", "UP", "CLEAR", "BELOW", "SAVE", "PIN", "RESTORE"}

PaintInit ==
  /\ tool = [at |-> "head", wrote |-> 0, moved |-> "no", beyond |-> FALSE]
  /\ screen = [rows |-> << <<>> >>, row |-> 1, head |-> TRUE, bar |-> NoBar]
  /\ arriving = <<>>
  /\ painter = [up |-> 0, raw |-> <<>>, bracket |-> "open", status |-> NoBar]
  /\ ring = [slots |-> <<>>, head |-> 0]
  /\ lines = <<>>

---------------------------------------------------------------------------
\* RingLines.
GetLine(g, i) == g.slots[((g.head + i) % Len(g.slots)) + 1]
RingIter(g) == [i \in 1..Len(g.slots) |-> GetLine(g, i - 1)]

PushLine(g, line) ==
  IF Len(g.slots) < Cap THEN [g EXCEPT !.slots = Append(@, line)]
  ELSE [slots |-> [g.slots EXCEPT ![g.head + 1] = line], head |-> (g.head + 1) % Cap]

\* Mutant: the slots are counted from the first, also when the ring has turned.
OverwriteUnturned(g, back, line) ==
  LET i == Len(g.slots) - back - 1
  IN IF i < 0 THEN g ELSE [g EXCEPT !.slots[i + 1] = line]
\* overwrite_from_end, slot_mut.
OverwriteFromEnd(g, back, line) ==
  LET i == Len(g.slots) - back - 1
      slot == IF Len(g.slots) < Cap THEN i ELSE (g.head + i) % Cap
  IN IF i < 0 THEN g ELSE [g EXCEPT !.slots[slot + 1] = line]

\* on_aux_line, on_aux_repaint: rows that have left the ring are written anew.
Repaint(g, p) ==
  IF p.back = 0 \/ p.back > Len(g.slots) THEN PushLine(g, p.text)
  ELSE FoldLeft(LAMBDA h, row : IF row < p.back THEN OverwriteFromEnd(h, p.back - 1 - row, <<>>)
                                ELSE h,
                OverwriteFromEnd(g, p.back - 1, p.text),
                [row \in 1..p.erase |-> row])

\* The same of the list of all lines, of which the ring is the end.
RepaintAll(all, p) ==
  LET n == Len(all)
      held == IF n < Cap THEN n ELSE Cap
  IN IF p.back = 0 \/ p.back > held THEN Append(all, p.text)
     ELSE [i \in 1..n |-> IF i = n + 1 - p.back THEN p.text
                          ELSE IF i > n + 1 - p.back /\ i <= n + 1 - p.back + p.erase THEN <<>>
                          ELSE all[i]]

---------------------------------------------------------------------------
\* State: one stretch of a line, from a carriage return to the next.
NewState == [up |-> 0, erase |-> 0, text |-> <<>>, touched |-> FALSE, here |-> FALSE,
             below |-> 0, printed |-> FALSE]

\* move_cursor: at the head of a state only.
MoveCursor(s, x) ==
  IF s.printed THEN [s EXCEPT !.touched = TRUE]
  ELSE CASE x = "UP" -> [s EXCEPT !.touched = TRUE, !.up = @ + 1, !.here = FALSE,
                                  !.below = IF s.here THEN @ + 1 ELSE 0]
         [] x = "CLEAR" -> [s EXCEPT !.touched = TRUE, !.here = TRUE]
         [] x = "BELOW" -> [s EXCEPT !.touched = TRUE,
                                     !.erase = LET u == IF s.up = 0 THEN 1 ELSE s.up
                                               IN IF @ < u THEN u ELSE @]
         [] OTHER -> [s EXCEPT !.touched = TRUE]

\* Reading::of, one token.  While a save bracket is pinned, text is the status.
ReadItem(r, x) ==
  LET n == Len(r.states)
      pinned == r.bracket = "pinned"
  IN CASE x = "CR" /\ pinned -> [r EXCEPT !.status = <<"set">>]
       [] x = "CR" /\ ~pinned -> [r EXCEPT !.states = Append(@, NewState)]
       [] x \in Letters /\ pinned ->
            [r EXCEPT !.status = IF @[1] = "set" THEN Append(@, x) ELSE @]
       [] x \in Letters /\ ~pinned ->
            [r EXCEPT !.states[n] =
               [@ EXCEPT !.text = Append(@, x), !.touched = TRUE, !.printed = TRUE]]
       [] x = "SAVE" -> [r EXCEPT !.bracket = "saved"]
       [] x = "RESTORE" -> [r EXCEPT !.bracket = "open"]
       [] x = "PIN" /\ r.bracket # "open" -> [r EXCEPT !.bracket = "pinned", !.status = <<"set">>]
       [] x \in {"PIN", "UP", "CLEAR", "BELOW"} /\ r.bracket = "open" ->
            [r EXCEPT !.states[n] = MoveCursor(@, x),
                      !.status = IF x = "BELOW" /\ ~r.states[n].printed THEN NoBar ELSE @]
       [] OTHER -> r

Reading(raw, bracket) ==
  FoldLeft(ReadItem, [states |-> <<NewState>>, bracket |-> bracket, status |-> <<"as it was">>],
           raw)

MaxOf(a, b) == IF a < b THEN b ELSE a
Sum(states) == FoldLeft(LAMBDA n, s : n + s.up, 0, states)
Highest(states, Of(_)) == FoldLeft(LAMBDA n, s : MaxOf(n, Of(s)), 0, states)

\* The text of a line: the last state that something was written to.
TextOf(states) ==
  LET t == SelectLastInSeq(states, LAMBDA s : s.touched)
  IN IF t = 0 THEN <<>> ELSE states[t].text

---------------------------------------------------------------------------
\* paint: d is the painter with the ring and all its lines; end is "open",
\* "newline" or "eof".
\* Mutant: what a rewind has erased on its way up is not blanked.
BelowKept(states, up) ==
  LET erased == Highest(states, LAMBDA s : s.erase)
  IN IF erased > 0 THEN MaxOf(up, erased) ELSE 0
EraseBelow(states, up) ==
  LET erased == Highest(states, LAMBDA s : s.erase)
  IN MaxOf(Highest(states, LAMBDA s : s.below), IF erased > 0 THEN MaxOf(up, erased) ELSE 0)

PaintLine(d, end) ==
  LET reading == Reading(d.painter.raw, d.painter.bracket)
      states == reading.states
      movedUp == Sum(states)
      lineUp == d.painter.up + movedUp
      text == TextOf(states)
      untouched == \A i \in 1..Len(states) : ~states[i].touched
      paint == [text |-> text, back |-> lineUp, erase |-> EraseBelow(states, lineUp)]
      silent == \/ text = <<>> /\ (movedUp > 0 \/ \E i \in 1..Len(states) : states[i].erase > 0)
                \/ end # "newline" /\ untouched
                \/ untouched /\ lineUp > 0
      status == IF reading.status = <<"as it was">> THEN d.painter.status ELSE reading.status
  IN [painter |-> CASE end # "open" -> [up |-> IF lineUp = 0 THEN 0 ELSE lineUp - 1, raw |-> <<>>,
                                        bracket |-> reading.bracket, status |-> status]
                    [] end = "open" /\ silent -> [d.painter EXCEPT !.status = status]
                    [] OTHER -> [d.painter EXCEPT !.up = MaxOf(lineUp, 1), !.status = status],
      ring |-> IF silent THEN d.ring ELSE Repaint(d.ring, paint),
      lines |-> IF silent THEN d.lines ELSE RepaintAll(d.lines, paint)]

\* feed_bytes.  The carriage return of a CRLF belongs to the line feed.
Feed(d, x) ==
  LET raw == d.painter.raw
  IN IF x # "NL" THEN [d EXCEPT !.painter.raw = Append(@, x)]
     ELSE PaintLine([d EXCEPT !.painter.raw = IF raw # <<>> /\ Last(raw) = "CR" THEN Front(@) ELSE @],
                    "newline")
FeedBytes(d, bytes) ==
  LET fed == FoldLeft(Feed, d, bytes)
  IN IF Last(bytes) = "NL" THEN fed ELSE PaintLine(fed, "open")

LineBecomes(d) == painter' = d.painter /\ ring' = d.ring /\ lines' = d.lines
Painted == [painter |-> painter, ring |-> ring, lines |-> lines]

---------------------------------------------------------------------------
\* What a terminal does with an item.
Shown(s, x) ==
  LET row == s.rows[s.row]
  IN CASE x \in Letters -> [s EXCEPT !.rows[s.row] = IF s.head THEN <<x>> ELSE Append(@, x),
                                     !.head = FALSE]
       [] x = "CR" -> [s EXCEPT !.head = TRUE]
       [] x = "NL" -> [s EXCEPT !.rows = IF s.row = Len(@) THEN Append(@, <<>>) ELSE @,
                                !.row = @ + 1, !.head = TRUE]
       [] x = "UP" -> [s EXCEPT !.row = @ - 1]
       [] x = "CLEAR" -> [s EXCEPT !.rows[s.row] = <<>>]
       [] x = "BELOW" -> [s EXCEPT !.rows = [i \in DOMAIN @ |-> IF i >= s.row THEN <<>> ELSE @[i]],
                                   !.bar = NoBar]
       [] OTHER -> s

\* What a tool may write where it is, and where it is then.
Follows(at) ==
  CASE at = "head" -> [UP |-> "moved", CLEAR |-> "cleared", BELOW |-> "erased", NL |-> "head"]
    [] at = "moved" -> [UP |-> "moved", CLEAR |-> "wiped", BELOW |-> "erased"]
    [] at = "cleared" -> [UP |-> "wiping", BELOW |-> "erased", NL |-> "head"]
    [] at = "wiping" -> [CLEAR |-> "wiped"]
    [] at = "wiped" -> [UP |-> "wiping", BELOW |-> "erased"]
    [] at = "erased" -> [x \in {} |-> "head"]
    [] at = "text" -> [CR |-> "returned", NL |-> "head"]
    [] at = "returned" -> [CLEAR |-> "cleared", NL |-> "head"]

Writes(x, s) ==
  /\ tool.wrote < MaxItems
  /\ screen' = s
  /\ arriving' = Append(arriving, x)
  /\ UNCHANGED <<painter, ring, lines>>

ToolPrints ==
  /\ tool.at \in {"head", "moved", "cleared", "wiping", "wiped", "erased", "text", "returned"}
  /\ \E x \in Letters :
       /\ Writes(x, Shown(screen, x))
       /\ tool' = [tool EXCEPT !.at = "text", !.wrote = @ + 1]

\* The ring holds no rows that far up.
BeyondTheRing(s) == s.row + Cap <= Len(s.rows)

\* A line is rewound once, and never above the first row.
ToolMoves ==
  /\ tool.at \in {"head", "moved", "cleared", "wiping", "wiped", "erased", "text", "returned"}
  /\ \E x \in DOMAIN Follows(tool.at) :
       /\ x = "UP" => screen.row > 1
       /\ tool.at = "returned" /\ tool.moved # "no" => x = "NL"
       /\ Writes(x, Shown(screen, x))
       /\ tool' = [at |-> Follows(tool.at)[x], wrote |-> tool.wrote + 1,
                   moved |-> CASE x = "NL" -> "no"
                               [] x = "UP" -> "up"
                               [] x = "BELOW" /\ tool.moved = "no" -> "erased"
                               [] OTHER -> tool.moved,
                   beyond |-> tool.beyond \/ BeyondTheRing(screen')]

\* The progress bar of apt: the cursor is saved, text goes to a pinned row,
\* and the cursor is restored.
ToolPins ==
  /\ tool.at \in {"head", "text"}
  /\ tool.wrote < MaxItems
  /\ \E x \in Letters :
       /\ arriving' = arriving \o <<"SAVE", "PIN", x, "RESTORE">>
       /\ screen' = [screen EXCEPT !.bar = <<"set", x>>]
  /\ tool' = [tool EXCEPT !.wrote = @ + 1]
  /\ UNCHANGED <<painter, ring, lines>>

\* send_painted, AuxLine, AuxRepaint, AuxStatus: a piece is read and drawn.
PieceArrives ==
  /\ arriving # <<>>
  /\ CutAnywhere \/ tool.moved # "up" \/ tool.at \notin {"text", "returned"}
  /\ LineBecomes(FeedBytes(Painted, arriving))
  /\ arriving' = <<>>
  /\ UNCHANGED <<tool, screen>>

\* finish: the tool has ended.
Finish ==
  /\ arriving = <<>>
  /\ tool.at \in {"head", "text", "returned"}
  /\ LET last == IF painter.raw = <<>> THEN Painted ELSE PaintLine(Painted, "eof")
     IN LineBecomes([last EXCEPT !.painter.status = NoBar])
  /\ tool' = [tool EXCEPT !.at = "gone"]
  /\ screen' = [screen EXCEPT !.bar = NoBar]
  /\ UNCHANGED arriving

PaintNext == ToolPrints \/ ToolMoves \/ ToolPins \/ PieceArrives \/ Finish
PaintSpec == PaintInit /\ [][PaintNext]_paintVars

---------------------------------------------------------------------------
PaintTypeOK ==
  /\ tool.at \in {"head", "moved", "cleared", "wiping", "wiped", "erased", "text", "returned", "gone"}
  /\ tool.beyond \in BOOLEAN
  /\ arriving \in Seq(Items) /\ painter.raw \in Seq(Items)
  /\ Len(ring.slots) <= Cap /\ ring.head \in 0..(Cap - 1)
  /\ screen.row \in 1..Len(screen.rows)

\* Rows at the end that show nothing may not be there at all.
WithoutBlanks(rows) ==
  SubSeq(rows, 1, SelectLastInSeq(rows, LAMBDA r : r # <<>>))

\* Whenever a line is complete, the lines drawn are those a terminal would
\* show, and the bar of the panel the pinned row: however the tool rewound,
\* rewrote and erased, and however its output was cut into pieces
\* (painted.rs:116-118; with CutAnywhere, for any cut).  Unless the tool went
\* back to a row that the ring no longer held: that one is drawn anew below.
LogIsTheScreen ==
  /\ arriving = <<>> /\ painter.raw = <<>> /\ ~tool.beyond
  => /\ WithoutBlanks(lines) = WithoutBlanks(screen.rows)
     /\ painter.status = screen.bar

\* The ring is the end of the log of everything drawn: lines that are written
\* over are found where they are, also after the ring has turned
\* (panel.rs, slot_mut).
RingIsTheTail ==
  RingIter(ring) = SubSeq(lines, MaxOf(1, Len(lines) + 1 - Cap), Len(lines))
=============================================================================
