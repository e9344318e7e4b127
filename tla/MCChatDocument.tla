--------------------------- MODULE MCChatDocument ---------------------------
EXTENDS ChatDocument, TLC

Symmetry == Permutations(Message) \cup Permutations(Event) \cup Permutations(Task)

=============================================================================
