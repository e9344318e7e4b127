--------------------------- MODULE MCChatLibrary ----------------------------
EXTENDS ChatLibrary, TLC

Symmetry ==
  Permutations(Chat) \cup Permutations(Tag) \cup Permutations(Folder) \cup Permutations(Copy)

=============================================================================
