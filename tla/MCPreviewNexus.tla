--------------------------- MODULE MCPreviewNexus ---------------------------
\* The preview node with two web threads and two selections.
EXTENDS PreviewNexus
=============================================================================
