--------------------------- MODULE MCConsumerLoop ---------------------------
EXTENDS ConsumerLoop
=============================================================================
