------------------------ MODULE MCDownloadCancellation ------------------------
\* Values for the constants of DownloadCancellation; sizes are in chunks.
EXTENDS DownloadCancellation

OneChunkEach == <<1, 1, 1>>
ListThenSingle == <<"list", "single">>
FirstReported == [k \in Calls |-> k = 1]
===============================================================================
