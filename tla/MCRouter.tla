------------------------------ MODULE MCRouter ------------------------------
EXTENDS Router
MCGuestModel == [g \in Guests |-> "qwen_coder"]
MCCap == [t \in Tiers |-> 1]
=============================================================================
