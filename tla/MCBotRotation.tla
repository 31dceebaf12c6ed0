----------------------------- MODULE MCBotRotation -----------------------------
\* BotRotation with two or three requests, of which each run says the kinds.
EXTENDS BotRotation

CONSTANTS q1, q2, q3

Two == {q1, q2}
Three == {q1, q2, q3}

=============================================================================
