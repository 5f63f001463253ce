----------------------------- MODULE MCPaginate -----------------------------
EXTENDS Paginate

MCBothOrders == {"oldest", "newest"}
MCOldestFirst == {"oldest"}
MCAllChanges == {"create", "delete", "empty"}
MCNoChanges == {}
=============================================================================
