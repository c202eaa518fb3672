------------------------------ MODULE Document ------------------------------
(***************************************************************************)
(* What the composer promises the human who types a message: a document    *)
(* is a sequence of characters, newlines and pasted blocks, the cursor is  *)
(* between two of them, and every key changes it where the cursor is.  A   *)
(* block is one thing: it is there with all of its text or it is gone.     *)
(* What is sent is what was shown, and a recalled message can be put back  *)
(* for the draft that was being written.                                   *)
(***************************************************************************)
EXTENDS Naturals, SequencesExt

CONSTANTS
  Inputs,           \* what one key or one paste may insert: sequences of atoms
  Mentions,         \* the texts a completed @ mention may have
  CommandNames,     \* the slash commands as the palette writes them
  Newline,          \* the atom that ends a line
  Expanded(_),      \* a document as text, with every block written out
  Trimmed(_)        \* a text without the space around it

VARIABLES
  doc,    \* the atoms
  cur,    \* how many of them are before the cursor
  draft,  \* what was being written when a recall began, << >> when none
  past,   \* the messages of before
  sent    \* the last message that left

dvars == <<doc, cur, draft, past, sent>>

Cut(d, i, j, xs) == SubSeq(d, 1, i) \o xs \o SubSeq(d, j + 1, Len(d))

\* An edit adopts whatever is shown, a recalled message too.
Edited == draft' = << >> /\ UNCHANGED <<past, sent>>

Move ==
  /\ UNCHANGED <<past, sent>>
  /\ LET d == doc IN doc' = d /\ cur' \in 0 .. Len(d)
  /\ draft' \in {draft, << >>}

Insert ==
  /\ Edited
  /\ LET d == doc
         i == cur
         e == doc'
         xs == SubSeq(e, i + 1, i + Len(e) - Len(d))
     IN xs \in Inputs /\ e = Cut(d, i, i, xs) /\ cur' = i + Len(xs)

\* Backspace and Delete take one atom at the cursor.  Ctrl+W, Ctrl+K and Ctrl+U take
\* a piece of the cursor's line that ends or begins at it.
Erase ==
  /\ Edited
  /\ LET d == doc
         e == doc'
         i == cur'
         j == i + Len(d) - Len(e)
     IN /\ i < j /\ cur \in {i, j}
        /\ e = Cut(d, i, j, << >>)
        /\ j = i + 1 \/ \A k \in i + 1 .. j : d[k] # Newline

\* An accepted mention replaces the @ word the cursor is in, and nothing else.
Complete ==
  /\ Edited
  /\ LET d == doc
         e == doc'
         at == cur
     IN \E i \in 0 .. at - 1, xs \in Mentions :
          LET j == i + Len(xs) + Len(d) - Len(e)
          IN /\ at <= j /\ j <= Len(d)
             /\ d[i + 1][1] = "@"
             /\ \A k \in i + 1 .. j : d[k] # Newline /\ d[k][1] \notin {" ", "block"}
             /\ e = Cut(d, i, j, xs)
             /\ cur' = i + Len(xs)

\* A completed command goes on from what was typed of it.
CompleteCommand ==
  /\ UNCHANGED <<past, sent>>
  /\ draft = << >> /\ draft' = << >>
  /\ LET e == doc'
         d == Trimmed(doc)
     IN e \in CommandNames /\ d # << >> /\ IsPrefix(d, e) /\ cur' = Len(e)

\* Only what is in the history is ever replaced by another recall: a document
\* nobody kept is kept as the draft first.
Recall ==
  /\ UNCHANGED <<past, sent>>
  /\ LET d == doc
         e == doc'
     IN /\ IF draft = << >> THEN draft' = <<d>> ELSE d \in ToSet(past) /\ UNCHANGED draft
        /\ e \in ToSet(past)
        /\ cur' = Len(e)

Return ==
  /\ UNCHANGED <<past, sent>>
  /\ draft # << >> /\ draft' = << >>
  /\ doc \in ToSet(past)
  /\ LET e == doc' IN e = draft[1] /\ cur' = Len(e)

\* What is sent: all of the document as it is shown, or the command chosen for it.
Send ==
  /\ doc' = << >> /\ cur' = 0 /\ draft' = << >>
  /\ LET d == doc
     IN sent' = Trimmed(Expanded(d)) \/ (sent' \in CommandNames /\ IsPrefix(Trimmed(d), sent'))
  /\ sent' # << >>
  /\ ToSet(past') \subseteq ToSet(past) \cup {sent'}

DocInit == doc = << >> /\ cur = 0 /\ draft = << >> /\ past = << >> /\ sent = << >>

DocNext == \/ Move \/ Insert \/ Erase \/ Complete \/ CompleteCommand
           \/ Recall \/ Return \/ Send

DocSpec == DocInit /\ [][DocNext]_dvars
=============================================================================
