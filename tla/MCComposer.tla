----------------------------- MODULE MCComposer -----------------------------
(***************************************************************************)
(* Small instances of Composer: a few keys each, so that every document    *)
(* over them up to a size, with every cursor, is met.                      *)
(***************************************************************************)
EXTENDS Composer

Plain == [runes |-> {Char("a"), Char(" "), NL}, size |-> 3, blocks |-> 0, width |-> 4, keep |-> 0,
          pastes |-> {}, tabs |-> FALSE, images |-> FALSE, clicks |-> FALSE, pauses |-> FALSE, known |-> {}]

\* Two blocks between words and lines, with the mouse.
Blocks == [Plain EXCEPT !.size = 3, !.blocks = 2, !.clicks = TRUE]

\* Long lines, and pastes too short to be blocks.
Wrapped == [Plain EXCEPT !.size = 4, !.width = 2, !.blocks = 1, !.tabs = TRUE, !.images = TRUE,
                         !.pastes = {<<Char("a"), NL>>}]

\* Mentions beside words and a block.
Mentions == [Plain EXCEPT !.runes = {Char("a"), Char("@")}, !.size = 4, !.blocks = 1, !.clicks = TRUE,
                          !.tabs = TRUE, !.images = TRUE]

\* Messages, with a block or not, recalled and sent; and commands among them.
Recalled == [Plain EXCEPT !.runes = {Char("a")}, !.size = 2, !.blocks = 1, !.keep = 2]
Slashed == [Recalled EXCEPT !.runes = {Char("a"), Char("/")}, !.keep = 1]

\* Commands beside lines, in a session that may be paused.
Commanded == [Plain EXCEPT !.runes = {Char("a"), Char("/"), NL}, !.size = 2, !.keep = 1, !.pauses = TRUE]

\* Ctrl+W, Ctrl+K, Ctrl+U and a mention that cut a label apart.
CutSetups == {[Blocks EXCEPT !.known = {"cuts"}]}

\* A recall over a draft that holds a block.
DraftSetups == {[Recalled EXCEPT !.known = {"drafts"}]}

\* A click or a paste beside an open file palette.
StaleSetups == {[Mentions EXCEPT !.pastes = {<<Char("a"), Char("a")>>}, !.known = {"stale"}]}

\* Keys that are handled before the palette they go to is drawn.
AheadSetups == {[Slashed EXCEPT !.keep = 2, !.size = 3, !.known = {"ahead"}]}

\* A paste into a recalled message.
AdoptedSetups == {[Recalled EXCEPT !.known = {"recalled"}]}

ComposerSetups == {Blocks, Wrapped, Mentions, Recalled, Slashed, Commanded}
=============================================================================
