---------------------------- MODULE MCPeerInbox ----------------------------
(* A result with two files, and a greater event: a notice of the host.      *)
EXTENDS PeerInbox, TLC

MCMode  == <<"full", "notice">>
MCFiles == <<2, 0>>
=============================================================================
