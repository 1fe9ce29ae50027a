----------------------------- MODULE MCFsBackend ----------------------------
(***************************************************************************)
(* Messages with and without a payload and a reply; the table of memory    *)
(* regions has the largest payload.                                        *)
(***************************************************************************)
EXTENDS FsBackend

FourMessages ==
  {Message("GET_FEATURES", 0, 0), Message("GET_VRING_BASE", 8, 1),
   Message("SET_OWNER", 0, 0), Message("SET_MEM_TABLE", 264, 0)}

============================================================================
