---------------------------- MODULE MCViewerIpc ----------------------------
EXTENDS ViewerIpc

MCOrders == {<<1>>, <<2, 1>>}
MCStarts == {1}
=============================================================================
