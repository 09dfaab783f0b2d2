--------------------------- MODULE MCInventorySync ---------------------------
EXTENDS InventorySync
==============================================================================
