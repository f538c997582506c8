--------------------------- MODULE MCSubscriptions --------------------------
EXTENDS Subscriptions, MCChain
=============================================================================
