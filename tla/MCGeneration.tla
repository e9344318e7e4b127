---------------------------- MODULE MCGeneration ----------------------------
EXTENDS Generation

MCVocabulary == <<"a", "b", "c", "d", "e", "f">>

=============================================================================
