------------------------- MODULE MCDesignContracts -------------------------
(* A schema module with two tables, a service and a page without a contract  *)
(* of its own: files with several rows, one and none.                        *)
EXTENDS DesignContracts

CONSTANTS users, orders, service, schemaFile, serviceFile, pageFile

FileOfRow == [r \in Row |-> IF r = service THEN serviceFile ELSE schemaFile]
=============================================================================
