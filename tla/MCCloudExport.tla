---------------------------- MODULE MCCloudExport ----------------------------
\* The exporter with three clouds.
EXTENDS CloudExport
=============================================================================
