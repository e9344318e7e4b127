--------------------------- MODULE MCOAuthTokens ----------------------------
EXTENDS OAuthTokens, TLC

Symmetry == Permutations(Request)

=============================================================================
