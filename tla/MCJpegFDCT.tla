----------------------------- MODULE MCJpegFDCT -----------------------------
EXTENDS JpegFDCT, MCJpegBlocks
=============================================================================
