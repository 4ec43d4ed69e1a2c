----------------------------- MODULE MCArchive -----------------------------
EXTENDS Archive
CONSTANTS gossip, boot, ca, cakey, other
=============================================================================
