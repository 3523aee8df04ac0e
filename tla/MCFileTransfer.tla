--------------------------- MODULE MCFileTransfer ---------------------------
(* Bounds of the run of FileTransfer: a file as long as announced, one that   *)
(* has become shorter, one without a size; any side may close, the network   *)
(* may break and the contact may vanish.                                     *)
EXTENDS FileTransfer

FileScenarios ==
    {[closes |-> cl, breaks |-> br, loses |-> lo, size |-> f[1], file |-> f[2]] :
        cl \in SUBSET {"sender", "receiver"}, br \in BOOLEAN, lo \in BOOLEAN,
        f \in {<<2, 2>>, <<2, 1>>, <<0, 1>>, <<0, 0>>}}
=============================================================================
