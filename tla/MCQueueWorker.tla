---------------------------- MODULE MCQueueWorker ----------------------------
EXTENDS QueueWorker, TLC
==============================================================================
