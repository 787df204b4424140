--------------------------- MODULE MCTokenService -------------------------
EXTENDS TokenService

CONSTANTS a, b

\* One deployment per group of endpoints that share state.
MCServices == {[uses |-> {"svid", "x5t", "exchange"}, width |-> 1, tokens |-> 3],
               [uses |-> {"svid", "idjag"}, width |-> 1, tokens |-> 2],
               [uses |-> {"idjag", "dpop", "exchange"}, width |-> 1, tokens |-> 2],
               [uses |-> {"oidc"}, width |-> 2, tokens |-> 2]}

\* Two proofs, one of them made by a clock ahead of the server's.
MCProofs == {[jkt |-> a, jti |-> 1, iat |-> 1], [jkt |-> b, jti |-> 1, iat |-> 2]}
=============================================================================
