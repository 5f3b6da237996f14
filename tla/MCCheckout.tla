----------------------------- MODULE MCCheckout -----------------------------
EXTENDS Checkout

CONSTANTS u1, u2, b1, s1, o1
=============================================================================
