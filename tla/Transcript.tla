----------------------------- MODULE Transcript -----------------------------
(***************************************************************************)
(* A transcript pane of the terminal interface (gotui/transcript.go), the  *)
(* window of entries it shows (app.go) and the search in it (search.go):   *)
(* the lines that are cached per entry, the viewport over them and the     *)
(* positions of the hits.                                                  *)
(*                                                                         *)
(* An entry has the number of rows it takes in a wide pane - none when its *)
(* text is blank - and whether its first row holds the searched word.  A   *)
(* line is known by its entry, its place in it and how it was rendered.    *)
(***************************************************************************)
EXTENDS Integers, FiniteSets, SequencesExt

CONSTANT Scenes   \* the instances to check, see MCInterface

VARIABLES
  scene,     \* the topics and the bounds of this behaviour
  entries,   \* what was said, the last ones
  pane,      \* the transcript: entries shown, lines, cached blocks, viewport
  look,      \* what lines are rendered for: the width, and with the time or not
  height,    \* the rows of the pane
  search     \* searchState

paneVars == <<entries, pane, look, height, search>>

-----------------------------------------------------------------------------
(* The window of entries.                                                  *)

NextSeq == IF entries = << >> THEN 1 ELSE Last(entries).seq + 1

Windowed(es) == SubSeq(es, Max({1, Len(es) - scene.window + 1}), Len(es))

\* Instances that do not look at the panes have a window of no entry.
AppendEntry(size, word) ==
  Windowed(Append(entries, [seq |-> NextSeq, size |-> size, word |-> word]))

-----------------------------------------------------------------------------
(* Lines.                                                                  *)

Wide == 2
Rows(e, l) == IF l.width = Wide THEN e.size ELSE 2 * e.size

RenderEntry(e, l) ==
  [seq |-> e.seq,
   lines |-> [k \in 1 .. Rows(e, l) |->
                [entry |-> e.seq, part |-> k, look |-> l, word |-> e.word /\ k = 1]]]

Separator(seq) == [entry |-> seq, part |-> 0, look |-> << >>, word |-> FALSE]

LastRenderedSeq(blocks) ==
  LET shown == {i \in DOMAIN blocks : blocks[i].lines # << >>}
  IN IF shown = {} THEN 0 ELSE blocks[Max(shown)].seq

AppendBlock(p, block) ==
  LET gap == IF block.lines = << >> \/ p.lines = << >> THEN << >>
             ELSE <<Separator(LastRenderedSeq(p.blocks))>>
  IN [p EXCEPT !.lines = @ \o gap \o block.lines, !.blocks = Append(@, block)]

AppendEntries(p, es, l) == FoldLeft(LAMBDA q, e : AppendBlock(q, RenderEntry(e, l)), p, es)

\* Everything anew.
Rendered(p, l) ==
  AppendEntries([p EXCEPT !.lines = << >>, !.blocks = << >>, !.look = l], p.shown, l)

\* The lines of some blocks, with the separators between them.
BlockLineCount(blocks) ==
  LET shown == SelectSeq(blocks, LAMBDA b : b.lines # << >>)
  IN FoldLeft(LAMBDA n, b : n + Len(b.lines), 0, shown) + Max({0, Len(shown) - 1})

\* Mutant: the blank line that preceded the first block that stays is left behind.
WithoutFirstBare(p, n) ==
  [p EXCEPT !.lines = SubSeq(@, BlockLineCount(SubSeq(p.blocks, 1, n)) + 1, Len(@)),
            !.blocks = SubSeq(@, n + 1, Len(@))]

\* n blocks leave in front.
WithoutFirst(p, n) ==
  LET out == BlockLineCount(SubSeq(p.blocks, 1, n))
      rest == SubSeq(p.blocks, n + 1, Len(p.blocks))
      gone == IF out > 0 /\ BlockLineCount(rest) > 0 THEN out + 1 ELSE out
  IN [p EXCEPT !.lines = SubSeq(@, gone + 1, Len(@)), !.blocks = rest]

\* The cached blocks follow a window that lost entries in front and gained some
\* behind; a window that they cannot follow starts over.
SyncBlocks(p) ==
  LET kept == {i \in DOMAIN p.blocks : p.shown # << >> /\ p.blocks[i].seq = p.shown[1].seq}
      q == IF kept = {} THEN [p EXCEPT !.lines = << >>, !.blocks = << >>]
           ELSE WithoutFirst(p, Min(kept) - 1)
  IN AppendEntries(q, SubSeq(p.shown, Len(q.blocks) + 1, Len(p.shown)), p.look)

-----------------------------------------------------------------------------
(* The viewport.                                                           *)

Bottom(p, h) == Max({0, Len(p.lines) - h})
Clamped(p, h) == [p EXCEPT !.offset = Max({0, Min({@, Bottom(p, h)})})]

\* The lines changed: a pane that follows shows the last ones, one that does not moves
\* by as many rows as came.
Settle(p, before, h) ==
  IF p.follow THEN [p EXCEPT !.offset = Bottom(p, h)]
  ELSE Clamped([p EXCEPT !.offset = @ + (IF before > 0 THEN Max({0, Len(p.lines) - before}) ELSE 0)], h)

\* Only what changed is rendered, unless how lines are rendered changed.
SetEntries(p, es, l, h) ==
  IF l = p.look /\ es = p.shown THEN p
  ELSE LET q == [p EXCEPT !.shown = es]
       IN IF l # p.look THEN Settle(Rendered(q, l), 0, h)
          ELSE Settle(SyncBlocks(q), Len(p.lines), h)

\* rebuild: a pane of another height renders everything anew before it is drawn.
Resettled(p, h) ==
  IF p.height = h THEN p
  ELSE Settle([Rendered(p, p.look) EXCEPT !.height = h], Len(p.lines), h)

ScrollBy(p, delta, h) ==
  LET q == Clamped([p EXCEPT !.offset = @ + delta], h)
  IN IF Len(p.lines) <= h THEN p ELSE [q EXCEPT !.follow = q.offset >= Bottom(p, h)]

RevealLine(p, line, h) ==
  IF p.offset < line /\ line <= p.offset + h THEN p
  ELSE [Clamped([p EXCEPT !.offset = Max({0, line - 1 - h \div 3})], h) EXCEPT !.follow = FALSE]

-----------------------------------------------------------------------------
(* The search.                                                             *)

NoSearch == [mode |-> "off", query |-> "", hits |-> << >>, current |-> 1, stamp |-> << >>,
             saved |-> [offset |-> 0, follow |-> TRUE]]
Prompting == search.mode = "prompt"
Navigating == search.mode = "nav"

Matches(p, query) ==
  IF query # "word" THEN << >>
  ELSE SetToSortSeq({i \in DOMAIN p.lines : p.lines[i].word}, <)

\* The entries and the lines that hits were computed for.
Stamp(p) == <<p.look.width, Len(p.lines), IF p.shown = << >> THEN 0 ELSE p.shown[1].seq, Len(p.shown)>>

Refreshed(s, p) == [s EXCEPT !.hits = Matches(p, s.query), !.current = 1, !.stamp = Stamp(p)]

Revealed(p, s, h) == IF s.hits = << >> THEN p ELSE RevealLine(p, s.hits[s.current], h)

SyncSearch(s, p) ==
  IF s.mode = "off" \/ s.query = "" \/ s.stamp = Stamp(p) THEN s ELSE Refreshed(s, p)

Searched(s) == /\ search' = s
               /\ pane' = Revealed(pane, s, height)
               /\ UNCHANGED <<scene, entries, look, height>>

OpenSearch(query) ==
  LET s == [NoSearch EXCEPT !.saved = [offset |-> pane.offset, follow |-> pane.follow]]
  IN IF query = "" THEN search' = [s EXCEPT !.mode = "prompt"] /\ UNCHANGED <<scene, entries, pane, look, height>>
     ELSE Searched(Refreshed([s EXCEPT !.mode = "nav", !.query = query], pane))

\* Esc puts the viewport back where it was before the search.  A pane that followed then
\* has rows below its offset that came during the search, and keeps them hidden while it
\* says that it follows: a known corner.
Restored == Clamped([pane EXCEPT !.offset = search.saved.offset, !.follow = search.saved.follow], height)
CloseSearch(restore) ==
  /\ restore => "restored" \in scene.known \/ (Restored.follow => Restored.offset = Bottom(pane, height))
  /\ search' = NoSearch
  /\ pane' = IF restore THEN Restored ELSE pane
  /\ UNCHANGED <<scene, entries, look, height>>

TypeQuery(query) == /\ Prompting /\ query # search.query
                    /\ Searched(Refreshed([search EXCEPT !.query = query], pane))

EnterSearch ==
  /\ Prompting
  /\ IF search.query = "" THEN CloseSearch(TRUE)
     ELSE search' = [search EXCEPT !.mode = "nav"] /\ UNCHANGED <<scene, entries, pane, look, height>>

SearchJump ==
  /\ Navigating /\ search.hits # << >>
  /\ \E delta \in {-1, 1} :
       LET n == Len(search.hits)
       IN Searched([search EXCEPT !.current = ((@ - 1 + delta + n) % n) + 1])

-----------------------------------------------------------------------------
(* Frames and what changes them.                                           *)

\* updateWidgets and Draw: the pane as it is in the next frame.
DrawPane(es, l, h) ==
  \E p \in {SetEntries(pane, es, l, h)} :
     /\ pane' = Clamped(Resettled(p, h), h)
     /\ search' = SyncSearch(search, p)

\* The terminal gets another size: lines that are rendered anew keep no viewport.
Resize == /\ \E w \in 1 .. Wide, h \in 1 .. 2 :
               /\ scene.resizes /\ <<w, h>> # <<look.width, height>>
               /\ look' = [look EXCEPT !.width = w] /\ height' = h
          /\ pane' = Settle(Rendered(pane, pane.look), 0, pane.height)
          /\ UNCHANGED <<scene, entries, search>>

ToggleTimestamps == /\ look' = [look EXCEPT !.stamps = ~@]
                    /\ UNCHANGED <<scene, entries, pane, height, search>>

Scroll == /\ \E delta \in {-1, 1} : pane' = ScrollBy(pane, delta, height)
          /\ UNCHANGED <<scene, entries, look, height, search>>

PaneInit ==
  /\ entries = << >>
  /\ look = [width |-> Wide, stamps |-> TRUE]
  /\ height = 2
  /\ pane = [shown |-> << >>, lines |-> << >>, blocks |-> << >>, look |-> look, height |-> height,
             offset |-> 0, follow |-> TRUE]
  /\ search = NoSearch

-----------------------------------------------------------------------------
\* A drawn pane shows the window: the lines that were kept, cut and added one by one are
\* those of rendering every entry anew, the viewport lies within them and at their end
\* when it follows, and a search points at the lines its word is on (syncBlocks, settle,
\* syncSearch).
ShowsEntries ==
  /\ pane.shown = entries
  /\ pane.lines = Rendered(pane, look).lines
  /\ pane.offset \in 0 .. Bottom(pane, height)
  /\ pane.follow => pane.offset = Bottom(pane, height)
  /\ search.mode # "off" => search.hits = Matches(pane, search.query)
=============================================================================
