---------------------------- MODULE MCHeartbeat ----------------------------
EXTENDS Heartbeat, TLC

CONSTANTS news, chat

=============================================================================
