----------------------------- MODULE MCLifespan -----------------------------
EXTENDS Lifespan

CONSTANTS w1, w2, w3

=============================================================================
