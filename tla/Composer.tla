------------------------------ MODULE Composer ------------------------------
(***************************************************************************)
(* The message composer of the terminal interface (gotui/composer.go), the *)
(* palettes above it (mention.go, slash.go) and the recall of earlier      *)
(* messages (keys.go): what each key does to the lines, to the pasted      *)
(* blocks shown as a label in them, to the cursor and to the menus.        *)
(*                                                                         *)
(* A cell is a pair <<rune, block>>: a typed rune has block 0, the label   *)
(* "[n Lines]" of block b is the three cells "[", " " and "]" of b - it    *)
(* has one space, as the real label - and the pasted text itself, once it  *)
(* is written out, is one cell.  Every rune is one column wide.  Columns   *)
(* count from 0, rows from 1.                                              *)
(***************************************************************************)
EXTENDS Integers, FiniteSets, SequencesExt

CONSTANT Setups   \* the instances to check, see MCComposer

VARIABLES
  setup,     \* the keys, the sizes and the bounds of this behaviour
  c,         \* the composer: lines, spans, row, col, goalCol
  slash,     \* the command palette: hidden, the commands and the row last drawn
  mention,   \* the file palette: start of the @ token, its row, query, matches
  history,   \* the messages of before
  browse,    \* historyIdx and historyDraft
  paused,    \* the session takes no task
  sent       \* ghost: the last message that left

vars == <<setup, c, slash, mention, history, browse, paused, sent>>

-----------------------------------------------------------------------------
(* Runes, labels and texts.                                                 *)

Char(x) == <<x, 0>>
NL == Char("nl")
Label(b) == << <<"[", b>>, <<" ", b>>, <<"]", b>> >>
Pasted(b) == <<"r", b>>
Block(b) == <<"block", b>>

IsSpace(x) == x[1] \in {" ", "nl"}
IsWord(x) == x[1] \in {"a", "r"}

\* strings.TrimSpace.
TrimSpace(t) ==
  LET kept == {i \in DOMAIN t : ~IsSpace(t[i])}
  IN IF kept = {} THEN << >> ELSE SubSeq(t, Min(kept), Max(kept))

Joined(ls) == IF Len(ls) = 1 THEN ls[1]
              ELSE Tail(FlattenSeq([i \in DOMAIN ls |-> <<NL>> \o ls[i]]))

Split(t) ==
  LET breaks == {0, Len(t) + 1} \cup {i \in DOMAIN t : t[i] = NL}
      at == SetToSortSeq(breaks, <)
  IN [k \in 1 .. Len(at) - 1 |-> SubSeq(t, at[k] + 1, at[k + 1] - 1)]

\* A line with each span written as one cell of its block.
Gone == Char("gone")
Written(line, spans, rune) ==
  LET at(p) == {i \in DOMAIN spans : spans[i].start < p /\ p <= spans[i].end}
      cell(p) == IF at(p) = {} THEN line[p]
                 ELSE LET s == spans[Min(at(p))] IN IF s.start = p - 1 THEN <<rune, s.raw>> ELSE Gone
  IN IF spans = << >> THEN line
     ELSE SelectSeq([p \in DOMAIN line |-> cell(p)], LAMBDA x : x # Gone)

Text(d) == Joined(d.lines)
ExpandedText(d) == Joined([i \in DOMAIN d.lines |-> Written(d.lines[i], d.spans[i], "r")])

-----------------------------------------------------------------------------
(* The composer's own operations.                                           *)

Line(d) == d.lines[d.row]
Spans(d) == d.spans[d.row]
Ending(d) == {i \in DOMAIN Spans(d) : Spans(d)[i].end = d.col}
Starting(d) == {i \in DOMAIN Spans(d) : Spans(d)[i].start = d.col}
Covering(d) == {i \in DOMAIN Spans(d) : Spans(d)[i].start < d.col /\ d.col < Spans(d)[i].end}

At(d, col) == [d EXCEPT !.col = col, !.goalCol = -1]

Shifted(spans, by) == [i \in DOMAIN spans |->
                         [spans[i] EXCEPT !.start = @ + by, !.end = @ + by]]

snapCursorOutOfSpans(d) ==
  IF Covering(d) = {} THEN d
  ELSE LET s == Spans(d)[Min(Covering(d))]
       IN [d EXCEPT !.col = IF d.col - s.start < s.end - d.col THEN s.start ELSE s.end]

SetText(t) ==
  LET ls == Split(t)
  IN [lines |-> ls, spans |-> [i \in DOMAIN ls |-> << >>], row |-> Len(ls),
      col |-> Len(ls[Len(ls)]), goalCol |-> -1]
Clear == SetText(<< >>)

\* ReplaceRange, and every edit of a single row: the spans wholly outside the cut stay.
ReplaceRange(d, from, to, xs) ==
  LET line == Line(d)
      by == Len(xs) - (to - from)
  IN At([d EXCEPT !.lines[d.row] = SubSeq(line, 1, from) \o xs \o SubSeq(line, to + 1, Len(line)),
                  !.spans[d.row] = SelectSeq(@, LAMBDA s : s.end <= from)
                                   \o Shifted(SelectSeq(@, LAMBDA s : s.start >= to), by)],
        from + Len(xs))

\* Mutant: a typed rune lands where the cursor is, inside a label too.
insertUnsnapped(d, x) ==
  ReplaceRange(d, d.col, d.col, <<x>>)

insertRune(d, x) ==
  LET e == snapCursorOutOfSpans(d) IN ReplaceRange(e, e.col, e.col, <<x>>)

insertPasteBlock(d, b) ==
  LET e == snapCursorOutOfSpans(d)
      f == ReplaceRange(e, e.col, e.col, Label(b))
      new == [start |-> e.col, end |-> e.col + Len(Label(b)), raw |-> b]
      before == SelectSeq(Spans(f), LAMBDA s : s.start < new.start)
      after == SelectSeq(Spans(f), LAMBDA s : s.start >= new.start)
  IN [f EXCEPT !.spans[f.row] = before \o <<new>> \o after]

InsertNewline(d) ==
  LET e == snapCursorOutOfSpans(d)
      line == Line(e)
      here == SelectSeq(Spans(e), LAMBDA s : s.end <= e.col)
      rest == Shifted(SelectSeq(Spans(e), LAMBDA s : s.start >= e.col), -e.col)
  IN [e EXCEPT !.lines = InsertAt([@ EXCEPT ![e.row] = SubSeq(line, 1, e.col)], e.row + 1,
                                  SubSeq(line, e.col + 1, Len(line))),
               !.spans = InsertAt([@ EXCEPT ![e.row] = here], e.row + 1, rest),
               !.row = @ + 1, !.col = 0, !.goalCol = -1]

InsertString(d, t) ==
  FoldLeft(LAMBDA e, x : IF x = NL THEN InsertNewline(e) ELSE insertRune(e, x), d, t)

\* Row r and the one below it become one; the cursor is where they meet.
JoinRows(d, r) ==
  LET n == Len(d.lines[r])
  IN [d EXCEPT !.lines = RemoveAt([@ EXCEPT ![r] = @ \o d.lines[r + 1]], r + 1),
               !.spans = RemoveAt([@ EXCEPT ![r] = @ \o Shifted(d.spans[r + 1], n)], r + 1),
               !.row = r, !.col = n, !.goalCol = -1]

RemoveSpan(d, i) == ReplaceRange(d, Spans(d)[i].start, Spans(d)[i].end, << >>)

Backspace(d) ==
  LET span == IF Ending(d) # {} THEN Ending(d) ELSE Covering(d)
  IN IF span # {} THEN RemoveSpan(d, Min(span))
     ELSE IF d.col > 0 THEN ReplaceRange(d, d.col - 1, d.col, << >>)
     ELSE IF d.row > 1 THEN JoinRows(d, d.row - 1) ELSE d

Delete(d) ==
  LET span == IF Starting(d) # {} THEN Starting(d) ELSE Covering(d)
  IN IF span # {} THEN RemoveSpan(d, Min(span))
     ELSE IF d.col < Len(Line(d)) THEN ReplaceRange(d, d.col, d.col + 1, << >>)
     ELSE IF d.row < Len(d.lines) THEN JoinRows(d, d.row) ELSE d

Left(d) ==
  LET span == Ending(d) \cup Covering(d)
      back == At(d, d.col - 1)
  IN IF span # {} THEN At(d, Spans(d)[Min(span)].start)
     ELSE IF d.col > 0
       THEN IF Covering(back) # {} THEN At(d, Spans(d)[Min(Covering(back))].start) ELSE back
     ELSE IF d.row > 1 THEN At([d EXCEPT !.row = @ - 1], Len(d.lines[d.row - 1]))
     ELSE At(d, d.col)

Right(d) ==
  LET span == Starting(d) \cup Covering(d)
      on == At(d, d.col + 1)
  IN IF span # {} THEN At(d, Spans(d)[Min(span)].end)
     ELSE IF d.col < Len(Line(d))
       THEN IF Covering(on) # {} THEN At(d, Spans(d)[Min(Covering(on))].end) ELSE on
     ELSE IF d.row < Len(d.lines) THEN At([d EXCEPT !.row = @ + 1], 0)
     ELSE At(d, d.col)

\* Over the spaces to the left of the cursor and the word before them.
WordStart(line, col) ==
  LET p == Max({0} \cup {i \in 1 .. col : ~IsSpace(line[i])})
  IN Max({0} \cup {i \in 1 .. p : IsSpace(line[i])})

\* Over the rest of the word to the right of the cursor and the spaces after it.
WordEnd(line, col) ==
  LET p == Min({Len(line)} \cup {i - 1 : i \in {k \in col + 1 .. Len(line) : IsSpace(line[k])}})
  IN Min({Len(line)} \cup {i - 1 : i \in {k \in p + 1 .. Len(line) : ~IsSpace(line[k])}})

\* The first span met on the way is jumped over and ends the move.
WordLeft(d) ==
  LET q == WordStart(Line(d), d.col)
      met == {i \in DOMAIN Spans(d) : q <= Spans(d)[i].end /\ Spans(d)[i].end <= d.col}
  IN IF d.col = 0 THEN Left(d)
     ELSE IF met # {} THEN At(d, Spans(d)[Max(met)].start)
     ELSE snapCursorOutOfSpans(At(d, q))

WordRight(d) ==
  LET q == WordEnd(Line(d), d.col)
      met == {i \in DOMAIN Spans(d) : d.col <= Spans(d)[i].start /\ Spans(d)[i].start <= q}
  IN IF d.col >= Len(Line(d)) THEN Right(d)
     ELSE IF met # {} THEN At(d, Spans(d)[Min(met)].end)
     ELSE snapCursorOutOfSpans(At(d, q))

DeleteToStart(d) == ReplaceRange(d, 0, d.col, << >>)
DeleteToEnd(d) == ReplaceRange(d, d.col, Len(Line(d)), << >>)
DeleteWord(d) ==
  IF d.col = 0 \/ Ending(d) # {} THEN Backspace(d)
  ELSE ReplaceRange(d, WordStart(Line(d), d.col), d.col, << >>)

-----------------------------------------------------------------------------
(* Rows on the screen.                                                      *)

VisualRowsOf(d, r) ==
  LET n == Len(d.lines[r])
      w == setup.width
      full == [k \in 1 .. (n + w - 1) \div w |->
                 [row |-> r, start |-> (k - 1) * w, end |-> Min({k * w, n})]]
  IN IF n = 0 THEN <<[row |-> r, start |-> 0, end |-> 0]>>
     ELSE IF n % w = 0 /\ r = Len(d.lines) THEN Append(full, [row |-> r, start |-> n, end |-> n])
     ELSE full

visualRows(d) == FlattenSeq([r \in DOMAIN d.lines |-> VisualRowsOf(d, r)])

\* A boundary that two rows share belongs to the lower one.
currentVisual(d) ==
  LET rows == visualRows(d)
  IN Max({i \in DOMAIN rows : rows[i].row = d.row /\ rows[i].start <= d.col /\ d.col <= rows[i].end})

AtFirstVisual(d) == currentVisual(d) = 1
AtLastVisual(d) == currentVisual(d) = Len(visualRows(d))

MoveVertical(d, dy) ==
  LET rows == visualRows(d)
      cur == currentVisual(d)
      goal == IF d.goalCol < 0 THEN d.col - rows[cur].start ELSE d.goalCol
      r == rows[cur + dy]
  IN IF cur + dy \notin DOMAIN rows THEN [d EXCEPT !.goalCol = goal]
     ELSE snapCursorOutOfSpans([d EXCEPT !.row = r.row, !.goalCol = goal,
                                         !.col = Min({r.start + goal, r.end})])

-----------------------------------------------------------------------------
(* The palettes.                                                            *)

Command(name, needsArg) == [name |-> name, needsArg |-> needsArg]
slashCommands == << Command(<<Char("/"), Char("a")>>, FALSE),
                    Command(<<Char("/"), Char("a"), Char("a")>>, TRUE) >>
CommandText(cmd) == IF cmd.needsArg THEN Append(cmd.name, Char(" ")) ELSE cmd.name

isSlashCommand(t) ==
  /\ t # << >> /\ t[1] = Char("/")
  /\ LET word == Min({Len(t)} \cup {i - 1 : i \in {k \in DOMAIN t : IsSpace(t[k])}})
     IN \A i \in 2 .. word : t[i] # Char("/")

matchingCommands(d, hidden) ==
  LET t == Text(d)
      first == {i \in DOMAIN t : t[i] # Char(" ")}
      prefix == IF first = {} THEN << >> ELSE SubSeq(t, Min(first), Len(t))
  IN IF hidden \/ prefix = << >> \/ prefix[1] # Char("/") THEN << >>
     ELSE SelectSeq(slashCommands, LAMBDA cmd : IsPrefix(prefix, cmd.name))

SlashOpen == matchingCommands(c, slash.hidden) # << >>

\* updateWidgets: the palette as it is drawn; keys that come in one batch are
\* handled before it is.
Redrawn(s, d) ==
  LET m == matchingCommands(d, s.hidden)
      cursor == IF m # << >> /\ s.cursor >= Len(m) THEN Len(m) - 1 ELSE s.cursor
  IN [s EXCEPT !.commands = m, !.cursor = cursor, !.row = cursor]

\* The frame after an input; it changes nothing but the palette.
Draw == /\ slash' = Redrawn(slash, c)
        /\ slash' # slash
        /\ UNCHANGED <<setup, c, mention, history, browse, paused, sent>>

Chosen == slash.commands[Min({slash.row + 1, Len(slash.commands)})]

files == << <<Char("a")>>, <<Char("a"), Char("a")>> >>
formatMention(f) == <<Char("@")>> \o f \o <<Char(" ")>>

filterMentionFiles(query) ==
  LET within == {i \in DOMAIN files : \E k \in 0 .. Len(files[i]) :
                   IsPrefix(query, SubSeq(files[i], k + 1, Len(files[i])))}
  IN SelectSeq(files, LAMBDA f : IsPrefix(query, f))
     \o SelectSeq(files, LAMBDA f : ~IsPrefix(query, f) /\ \E i \in within : files[i] = f)

mentionBoundary(line, col) == col <= 0 \/ ~IsWord(line[col])

mentionTokenEnd(line, start) ==
  Min({Len(line)} \cup {i - 1 : i \in {k \in start + 2 .. Len(line) : IsSpace(line[k])}})

NoMention == [start |-> -1, row |-> 1, query |-> << >>, matches |-> << >>, cursor |-> 0]
mentionActive == mention.start >= 0
mentionOpen == mentionActive /\ mention.matches # << >>
openMention(d, start) == [start |-> start, row |-> d.row, query |-> << >>,
                          matches |-> filterMentionFiles(<< >>), cursor |-> 0]

\* The token the palette was opened for is still where it was.
AtToken(m, d) ==
  /\ d.row = m.row /\ m.start < Len(Line(d)) /\ m.start < d.col
  /\ Line(d)[m.start + 1] = Char("@")

syncMention(m, d) ==
  LET query == SubSeq(Line(d), m.start + 2, d.col)
      found == filterMentionFiles(query)
      cursor == IF query = m.query THEN m.cursor ELSE 0
  IN IF m.start < 0 THEN m
     ELSE IF \/ ~AtToken(m, d)
             \/ ~mentionBoundary(Line(d), m.start)
             \/ \E i \in DOMAIN query : IsSpace(query[i])
     THEN NoMention
     ELSE [m EXCEPT !.query = query, !.matches = found,
                    !.cursor = Max({0, Min({cursor, Len(found) - 1})})]

-----------------------------------------------------------------------------
(* Keys.                                                                    *)

NoBrowse == [idx |-> 0, draft |-> << >>]   \* idx 0: no message is recalled
Browsing == browse.idx > 0

\* The bounds: the atoms of a document and the blocks in use anywhere.
Atoms(d) == Joined([i \in DOMAIN d.lines |-> Written(d.lines[i], d.spans[i], "block")])
Room(d) == Len(Atoms(d)) <= setup.size
FreeBlocks ==
  LET cells == UNION {ToSet(t) : t \in ToSet(history) \cup {Text(c), browse.draft}}
  IN 1 .. setup.blocks \ {x[2] : x \in cells}

\* Input patterns by which the code is known to lose text; the passing setups leave them out.
May(known) == known \in setup.known

\* An input and what the palettes make of it.  One that comes in the same batch as
\* the input before it meets the palette of the old frame.
Drawn == Redrawn(slash, c) = slash \/ May("ahead")

Settle(d, m, s) == /\ Drawn
                   /\ c' = d
                   /\ mention' = syncMention(m, d)
                   /\ slash' = s

resetHistory == browse' = NoBrowse
Shown == [slash EXCEPT !.hidden = FALSE]

\* An edit of the text by a key: the recall is over, the palette may show again.
Edit(d) == /\ Room(d)
           /\ Settle(d, mention, Shown)
           /\ resetHistory
           /\ UNCHANGED <<setup, history, paused, sent>>

\* A key that only moves the cursor.
Go(d) == /\ Settle(d, mention, slash)
         /\ UNCHANGED <<setup, history, paused, sent>>

CutsLabel(from, to) ==
  \E i \in DOMAIN Spans(c) : LET s == Spans(c)[i]
                             IN /\ s.start < to /\ from < s.end
                                /\ ~(from <= s.start /\ s.end <= to)
Clean(from, to) == CutsLabel(from, to) => May("cuts")

BackspaceKey == Backspace(c) # c /\ Edit(Backspace(c))
DeleteKey == Delete(c) # c /\ Edit(Delete(c))
CtrlW == /\ DeleteWord(c) # c
         /\ Ending(c) = {} => Clean(WordStart(Line(c), c.col), c.col)
         /\ Edit(DeleteWord(c))

\* These two leave a hidden palette hidden.
CtrlK == /\ Clean(c.col, Len(Line(c)))
         /\ Go(DeleteToEnd(c)) /\ resetHistory
CtrlU == /\ Clean(0, c.col)
         /\ Go(DeleteToStart(c)) /\ resetHistory

Arrows == /\ \E d \in {Left(c), Right(c), WordLeft(c), WordRight(c)} : Go(d)
          /\ resetHistory
HomeEnd == /\ \E col \in {0, Len(Line(c))} : Go(At(c, col))
           /\ UNCHANGED browse

CtrlJ == /\ Char("nl") \in setup.runes
         /\ Room(InsertNewline(c))
         /\ Go(InsertNewline(c)) /\ resetHistory

Rune(x) ==
  LET d == insertRune(c, x)
      opens == x = Char("@") /\ ~mentionActive /\ mentionBoundary(Line(c), c.col)
  IN /\ x # Char("nl") /\ Room(d)
     /\ Settle(d, IF opens THEN openMention(d, c.col) ELSE mention, Shown)
     /\ resetHistory
     /\ UNCHANGED <<setup, history, paused, sent>>

Spaces == [i \in 1 .. 4 |-> Char(" ")]

\* Enter and Tab accept the highlighted file when its token is still there.
MentionTakes == mentionOpen /\ AtToken(mention, c)

\* Tab, when no palette takes it.
Tab == /\ ~SlashOpen /\ ~MentionTakes /\ setup.tabs
       /\ LET d == InsertString(c, Spaces)
          IN /\ Room(d)
             /\ Settle(d, NoMention, slash)
       /\ resetHistory
       /\ UNCHANGED <<setup, history, paused, sent>>

\* Bracketed paste arrives when it ends: no key, so no palette and no recall is
\* told of it.
Paste(d) == /\ Drawn
            /\ mentionActive => May("stale")
            /\ Browsing => May("recalled")
            /\ Room(d)
            /\ c' = d
            /\ UNCHANGED slash
            /\ UNCHANGED <<setup, mention, history, browse, paused, sent>>
PasteShort == \E t \in setup.pastes : Paste(InsertString(c, t))
PasteLong == FreeBlocks # {} /\ Paste(insertPasteBlock(c, Min(FreeBlocks)))

\* Ctrl+V: the path of an image and a space.
ImagePath == <<Char("a"), Char(" ")>>
PasteImage == /\ setup.images
              /\ LET d == InsertString(c, ImagePath)
                 IN /\ Room(d)
                    /\ Settle(d, NoMention, slash)
              /\ resetHistory
              /\ UNCHANGED <<setup, history, paused, sent>>

\* Mouse: a cell of a row, inside a label too.
Click == /\ setup.clicks /\ Drawn
         /\ mentionActive => May("stale")
         /\ \E r \in DOMAIN c.lines : \E col \in 0 .. Len(c.lines[r]) :
              LET d == At([c EXCEPT !.row = r], col)
              IN c' = d /\ UNCHANGED slash
         /\ UNCHANGED <<setup, mention, history, browse, paused, sent>>

-----------------------------------------------------------------------------
(* Keys the palettes take.                                                  *)

Moved(n, row, dy) == (row + dy + n) % n

SlashMove == /\ Drawn /\ SlashOpen /\ slash.commands # << >>
             /\ \E dy \in {-1, 1} :
                  LET row == Moved(Len(slash.commands), slash.row, dy)
                  IN slash' = [slash EXCEPT !.row = row, !.cursor = row]
             /\ mention' = syncMention(mention, c)
             /\ UNCHANGED <<setup, c, history, browse, paused, sent>>

\* The chosen command takes the place of what was typed of it: Tab, a click on its
\* row, or Enter when it needs an argument.
SlashComplete ==
  /\ SlashOpen /\ slash.commands # << >>
  /\ Browsing => May("recalled")
  /\ Settle(SetText(CommandText(Chosen)), mention, [slash EXCEPT !.cursor = 0])
  /\ UNCHANGED <<setup, history, browse, paused, sent>>

\* Ctrl+Enter on a command without an argument completes it and breaks the line.
SlashNewline ==
  /\ SlashOpen /\ slash.commands # << >> /\ ~Chosen.needsArg
  /\ Char("nl") \in setup.runes
  /\ Browsing => May("recalled")
  /\ Settle(InsertNewline(SetText(Chosen.name)), mention, [slash EXCEPT !.cursor = 0])
  /\ resetHistory
  /\ UNCHANGED <<setup, history, paused, sent>>

SlashEsc == /\ SlashOpen
            /\ Settle(c, mention, [slash EXCEPT !.hidden = TRUE])
            /\ UNCHANGED <<setup, history, browse, paused, sent>>

MentionMove == /\ mentionOpen /\ ~SlashOpen
               /\ \E dy \in {-1, 1} :
                    Settle(c, [mention EXCEPT !.cursor = Moved(Len(mention.matches), @, dy)], slash)
               /\ UNCHANGED <<setup, history, browse, paused, sent>>

Accepted(d, m) ==
  ReplaceRange(d, m.start, mentionTokenEnd(Line(d), m.start), formatMention(m.matches[m.cursor + 1]))

\* Enter, Tab or a click on a row of the palette.
acceptMention ==
  /\ MentionTakes /\ ~SlashOpen
  /\ Clean(mention.start, mentionTokenEnd(Line(c), mention.start))
  /\ \E row \in DOMAIN mention.matches :
       /\ setup.clicks \/ row = mention.cursor + 1
       /\ LET d == Accepted(c, [mention EXCEPT !.cursor = row - 1])
          IN Room(d) /\ Settle(d, NoMention, slash)
  /\ resetHistory
  /\ UNCHANGED <<setup, history, paused, sent>>

MentionEsc == /\ mentionActive /\ ~SlashOpen
              /\ Settle(c, NoMention, slash)
              /\ UNCHANGED <<setup, history, browse, paused, sent>>

-----------------------------------------------------------------------------
(* Messages of before.                                                      *)

\* Mutant: the composer is cleared for the recalled message without a draft of it.
BrowseUndrafted(b) ==
  [idx |-> Max({1, (IF b.idx = 0 THEN Len(history) + 1 ELSE b.idx) - 1}), draft |-> b.draft]

BrowseBack(b) ==
  [idx |-> Max({1, (IF b.idx = 0 THEN Len(history) + 1 ELSE b.idx) - 1}),
   draft |-> IF b.idx = 0 THEN Text(c) ELSE b.draft]

UpKey ==
  /\ ~SlashOpen /\ ~mentionOpen
  /\ IF Browsing \/ AtFirstVisual(c)
     THEN /\ history # << >>
          /\ (~Browsing /\ \E r \in DOMAIN c.spans : c.spans[r] # << >>) => May("drafts")
          /\ browse' = BrowseBack(browse)
          /\ Settle(SetText(history[browse'.idx]), mention, Shown)
          /\ UNCHANGED <<setup, history, paused, sent>>
     ELSE Go(MoveVertical(c, -1)) /\ UNCHANGED browse

DownKey ==
  /\ ~SlashOpen /\ ~mentionOpen
  /\ IF Browsing
     THEN /\ IF browse.idx < Len(history)
             THEN /\ browse' = [browse EXCEPT !.idx = @ + 1]
                  /\ Settle(SetText(history[browse.idx + 1]), mention, Shown)
             ELSE /\ browse' = [browse EXCEPT !.idx = 0]
                  /\ Settle(SetText(browse.draft), mention, Shown)
          /\ UNCHANGED <<setup, history, paused, sent>>
     ELSE ~AtLastVisual(c) /\ Go(MoveVertical(c, 1)) /\ UNCHANGED browse

\* pushHistory: no repeats in a row, no more than the last ones.
Remembered(t) ==
  LET all == IF history # << >> /\ Last(history) = t THEN history ELSE Append(history, t)
  IN SubSeq(all, Max({1, Len(all) - setup.keep + 1}), Len(all))

Leaves(t) ==
  /\ Drawn
  /\ c' = Clear
  /\ mention' = NoMention
  /\ slash' = [slash EXCEPT !.hidden = FALSE, !.cursor = 0]
  /\ history' = Remembered(t)
  /\ resetHistory
  /\ sent' = t
  /\ UNCHANGED <<setup, paused>>

Message(d) == TrimSpace(ExpandedText(d))

\* Enter: the highlighted command, or what is written; a paused session takes only
\* commands and leaves the rest in the composer.
Submit ==
  /\ setup.keep > 0 /\ ~MentionTakes
  /\ LET d == IF SlashOpen /\ slash.commands # << >> THEN SetText(Chosen.name) ELSE c
         t == Message(d)
     IN /\ SlashOpen /\ slash.commands # << >> => ~Chosen.needsArg
        /\ t # << >>
        /\ paused => isSlashCommand(t)
        /\ Leaves(t)

\* The human pauses or resumes the session, from here or elsewhere.
Pause == /\ setup.pauses
         /\ paused' = ~paused
         /\ UNCHANGED <<setup, c, slash, mention, history, browse, sent>>

-----------------------------------------------------------------------------
Init ==
  /\ setup \in Setups
  /\ c = Clear
  /\ slash = [hidden |-> FALSE, cursor |-> 0, commands |-> << >>, row |-> 0]
  /\ mention = NoMention
  /\ history = << >>
  /\ browse = NoBrowse
  /\ paused = FALSE
  /\ sent = << >>

Next ==
  \/ BackspaceKey \/ DeleteKey \/ CtrlW \/ CtrlK \/ CtrlU
  \/ Arrows \/ HomeEnd \/ UpKey \/ DownKey
  \/ CtrlJ \/ Tab \/ (\E x \in setup.runes : Rune(x))
  \/ PasteShort \/ PasteLong \/ PasteImage \/ Click
  \/ SlashMove \/ SlashComplete \/ SlashNewline \/ SlashEsc
  \/ MentionMove \/ acceptMention \/ MentionEsc
  \/ Submit \/ Pause \/ Draw

Spec == Init /\ [][Next]_vars

-----------------------------------------------------------------------------
\* A block's span covers exactly its own label, spans are in order, and no cell of a
\* label is outside a span: what is drawn as a block has its text behind it, and what
\* has not is not drawn as one (composer.go: every edit keeps spans and lines together).
BlocksAreWhole ==
  /\ Len(c.spans) = Len(c.lines) /\ c.row \in DOMAIN c.lines /\ c.col \in 0 .. Len(Line(c))
  /\ \A r \in DOMAIN c.lines :
       /\ \A i \in DOMAIN c.spans[r] :
            LET s == c.spans[r][i]
            IN /\ SubSeq(c.lines[r], s.start + 1, s.end) = Label(s.raw)
               /\ i > 1 => c.spans[r][i - 1].end <= s.start
       /\ \A p \in DOMAIN c.lines[r] :
            c.lines[r][p][2] # 0 /\ c.lines[r][p][1] # "r" =>
              \E i \in DOMAIN c.spans[r] : c.spans[r][i].start < p /\ p <= c.spans[r][i].end

\* The atoms before the cursor; inside a label, those before the end it snaps to.
Before(d) ==
  LET e == snapCursorOutOfSpans(d)
  IN Atoms([e EXCEPT !.lines = [r \in 1 .. e.row |->
                                  IF r < e.row THEN e.lines[r] ELSE SubSeq(Line(e), 1, e.col)]])

Unblocked(t) ==
  FlattenSeq([i \in DOMAIN t |-> IF t[i][1] = "block" THEN <<Pasted(t[i][2])>> ELSE <<t[i]>>])

\* What one key or one paste inserts, in any of the instances.
Typed == {Spaces, ImagePath} \cup UNION {s.pastes \cup {<<x>> : x \in s.runes}
                                         \cup {<<Block(b)>> : b \in 1 .. s.blocks} : s \in Setups}

Paper == INSTANCE Document WITH
  doc <- Atoms(c), cur <- Len(Before(c)), past <- history, sent <- sent,
  draft <- IF Browsing THEN <<browse.draft>> ELSE << >>,
  Newline <- NL,
  Inputs <- Typed,
  Mentions <- {formatMention(f) : f \in ToSet(files)},
  CommandNames <- UNION {{cmd.name, CommandText(cmd), Append(cmd.name, NL)} : cmd \in ToSet(slashCommands)},
  Expanded <- Unblocked, Trimmed <- TrimSpace

\* Whatever is typed, pasted, clicked, completed and recalled, the composer is a
\* document: every key changes what is at the cursor, a block goes whole, a completion
\* replaces the word it completes, a draft comes back, what is sent is what was shown.
ImplementsDocument == Paper!DocSpec
=============================================================================
