---------------------------- MODULE MCNoteCollab ----------------------------
EXTENDS NoteCollab, TLC

Symmetry == Permutations(Session) \cup Permutations(Update) \cup Permutations(Handler)

\* With Redis a session opens the note once.
Bound == redis => \A s \in Session : joins[s] <= 1

=============================================================================
