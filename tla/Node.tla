-------------------------------- MODULE Node --------------------------------
(* The connections of one installed node (nodes/node.go).                  *)

CONSTANTS
    Conn,  \* connections that the node's processes open
    None
=============================================================================
