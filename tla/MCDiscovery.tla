---------------------------- MODULE MCDiscovery ----------------------------
EXTENDS Discovery
CONSTANTS broad, narrow, w1, w2, e1, e2, e3
OneTopic == <<broad>>
TwoTopics == <<broad, narrow>>
=============================================================================
