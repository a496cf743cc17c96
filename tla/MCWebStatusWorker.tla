-------------------------- MODULE MCWebStatusWorker --------------------------
\* WebStatusWorker with a few results: enough for a failure, a good result over
\* it, a second failure and a second good result while the consumer is midway.
EXTENDS WebStatusWorker
=============================================================================
