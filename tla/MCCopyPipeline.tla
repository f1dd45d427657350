--------------------------- MODULE MCCopyPipeline ---------------------------
\* Instances of CopyPipeline for TLC: a file longer than the queue and the
\* journal, an empty file before another, and one at the end.
EXTENDS CopyPipeline

MCArchives == {<<4>>, <<1, 3>>, <<0, 2>>, <<1, 0>>}
=============================================================================
